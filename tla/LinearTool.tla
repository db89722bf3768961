----------------------------- MODULE LinearTool -----------------------------
(***************************************************************************)
(* internal/toolbridge/linear/bridge.go: the tool linear_graphql, which a  *)
(* session of CodexSession calls for its server.  The handler sends the    *)
(* document of the call to Linear, once, and turns what comes back into    *)
(* the answer of the call.  Linear and the connection are external: a      *)
(* document may run and its reply be lost, and one whose caller has gone   *)
(* may still run.  Of a document only matters how often it ran.            *)
(***************************************************************************)
EXTENDS CodexSession

VARIABLES
  request,  (* of the call under way: none, sent, or what came of it        *)
  flight,   (* external: calls whose document Linear may still run          *)
  ran,      (* history: how often the document of an asked call has run     *)
  verdict   (* what the answer to an asked call shows                       *)

tool == <<request, flight, ran, verdict>>
toolVars == <<vars, tool>>

(* Data; an object with neither data nor errors; or what counts as a       *)
(* failure: GraphQL errors, a status other than 200, a body that is no     *)
(* JSON object.                                                            *)
Reply == {"data", "hollow", "refused"}

ToolInit ==
  /\ Init
  /\ request = "none" /\ flight = {}
  /\ ran = [r \in Request |-> 0]
  /\ verdict = [r \in Request |-> "none"]

(* HandleTool returns: the session answers the call, if it still can.      *)
Answers(v) ==
  /\ ToolReturns
  /\ verdict' = IF Writable THEN [verdict EXCEPT ![call] = v] ELSE verdict
  /\ request' = "none"
  /\ UNCHANGED <<flight, ran>>

(* Another tool, no query, arguments or variables of the wrong kind, or no *)
(* API key: an answer without a request.                                   *)
Rejects == phase = "tool" /\ request = "none" /\ Answers("rejected")

(* HTTPClient.GraphQL sends the document, unless the context has ended.    *)
Sends ==
  /\ phase = "tool" /\ request = "none"
  /\ ~cancelled
  /\ request' = "sent"
  /\ flight' = flight \cup {call}
  /\ UNCHANGED <<vars, ran, verdict>>

EndedBefore == cancelled /\ request = "none" /\ Answers("failure")

(* Linear runs a document, whole or not at all, and replies: data says     *)
(* that it ran.  The reply reaches only a handler that still waits.        *)
Replies(r) ==
  /\ flight' = flight \ {r}
  /\ \E reply \in Reply, runs \in 0..1 :
       /\ reply = "data" => runs = 1
       /\ ran' = IF r \in asked THEN [ran EXCEPT ![r] = @ + runs] ELSE ran
       /\ request' = IF request = "sent" /\ r = call THEN reply ELSE request
  /\ UNCHANGED <<vars, verdict>>

(* Altered: a request that broke may be sent again.                        *)
BreaksAndResends ==
  /\ request \in {"sent", "broken"}
  /\ request = "broken" => ~cancelled /\ ran[call] < 2
  /\ request' = IF request = "sent" THEN "broken" ELSE "sent"
  /\ flight' = IF request = "sent" THEN flight ELSE flight \cup {call}
  /\ UNCHANGED <<vars, ran, verdict>>

(* client.Do or the read of the body fails, as when the context ends; the  *)
(* document has run, runs later, or never.                                 *)
Breaks ==
  /\ request = "sent"
  /\ request' = "broken"
  /\ UNCHANGED <<vars, flight, ran, verdict>>

(* graphqlResponse and clientErrorPayload: every object without errors is  *)
(* a success, with data or without, which the answer shows.                *)
Succeeded(shown) == shown \in {"data", "hollow"}
Handled ==
  /\ request \in Reply \cup {"broken"}
  /\ Answers(IF Succeeded(request) THEN request ELSE "failure")

(* The server's own steps: what it is not waiting for is forgotten, and    *)
(* the ids of its requests are fresh.                                      *)
ServerSteps ==
  /\ Server
  /\ (asked' \ asked) \cap flight = {}
  /\ ran' = [r \in Request |-> IF r \in asked \cap asked' THEN ran[r] ELSE 0]
  /\ verdict' = [r \in Request |-> IF r \in asked \cap asked' THEN verdict[r] ELSE "none"]
  /\ UNCHANGED <<request, flight>>

ToolNext ==
  \/ Session /\ UNCHANGED tool
  \/ ServerSteps
  \/ Rejects \/ Sends \/ EndedBefore \/ Breaks \/ Handled
  \/ \E r \in flight : Replies(r)
  \/ Over /\ UNCHANGED tool

(* As in CodexSession: a handler whose context has ended returns.          *)
FairToolSpec == ToolInit /\ [][ToolNext]_toolVars /\ Fairness

-----------------------------------------------------------------------------

(* What the server is told of a tool call is true, however requests and    *)
(* replies get lost (bridge.go:76): no document runs twice; the document   *)
(* of an answer that shows data has run; Linear is done with one whose     *)
(* answer says success, which by itself does not say that it ran           *)
(* (bridge.go:242); a rejected document has not run and never will.  A     *)
(* failure says nothing: the document of a request that broke may have     *)
(* run, and may run after the session has ended.                           *)
VerdictsAreTrue ==
  \A r \in asked :
    /\ ran[r] <= 1
    /\ verdict[r] = "data" => ran[r] = 1
    /\ Succeeded(verdict[r]) => r \notin flight
    /\ verdict[r] = "rejected" => ran[r] = 0 /\ r \notin flight
=============================================================================
