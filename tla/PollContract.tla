---------------------------- MODULE PollContract ----------------------------
(***************************************************************************)
(* What the poll loop of the orchestrator promises, without timers, nonces *)
(* or clocks: poll cycles never overlap, none begins once the service is   *)
(* closed, polling goes on for ever otherwise, and every refresh request   *)
(* is followed by a cycle that began after it.                             *)
(***************************************************************************)
VARIABLES
  closed,   (* the service has been closed                                  *)
  busy,     (* a poll cycle is in progress                                  *)
  wanted    (* a refresh was requested and no cycle has begun since         *)

vars == <<closed, busy, wanted>>

Init == closed = FALSE /\ busy = FALSE /\ wanted = FALSE

Request == ~closed /\ ~busy /\ wanted' = TRUE /\ UNCHANGED <<closed, busy>>

Begin == ~closed /\ ~busy /\ busy' = TRUE /\ wanted' = FALSE /\ UNCHANGED closed

End == busy /\ busy' = FALSE /\ UNCHANGED <<closed, wanted>>

Close == ~closed /\ ~busy /\ closed' = TRUE /\ UNCHANGED <<busy, wanted>>

Next == Request \/ Begin \/ End \/ Close

(* Begin is disabled only while a cycle runs.  Cycles end, and in an open   *)
(* service another one begins.                                             *)
Spec == Init /\ [][Next]_vars /\ SF_vars(Begin) /\ WF_vars(End)

=============================================================================
