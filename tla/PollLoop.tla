------------------------------ MODULE PollLoop ------------------------------
(***************************************************************************)
(* The poll cadence of internal/orchestrator: the poll timer, the tick     *)
(* that announces a check, the short transition timer, the poll cycle and  *)
(* RequestRefresh, with the nonces that are to make late timer callbacks   *)
(* harmless (service.go and the poll part of state.go).                    *)
(*                                                                         *)
(* Every handler runs under service.mu.  A timer that fires starts a       *)
(* goroutine that waits for the mutex, and Stop does not recall it: a      *)
(* callback is therefore first armed, then blocked (ticks, cycles), then   *)
(* run.  A cycle calls the tracker while it holds the mutex, so it has a   *)
(* begin and an end; busy is the mutex being held by it.                   *)
(*                                                                         *)
(* Nonces are compared only for equality.  The code counts them up in 64   *)
(* bits; here a new nonce is one that nothing refers to any more, so a     *)
(* small set of names is enough and the loop can run for ever.             *)
(***************************************************************************)
EXTENDS FiniteSets, Naturals

CONSTANTS
  Nonce,       (* bound: names for poll nonces                              *)
  MaxBlocked,  (* bound: ticks, and cycles, that wait for the mutex at once *)
  MaxSetbacks, (* bound: how often the wall clock is set back               *)
  NoNonce      (* no timer armed                                            *)

(* What the loop needs of its constants; Orchestrator assumes it.          *)
PollAssumption ==
  /\ NoNonce \notin Nonce
  /\ Nonce # {}
  /\ MaxBlocked \in Nat \ {0}
  /\ MaxSetbacks \in Nat

VARIABLES
  closed,      (* service.closed                                            *)
  checking,    (* schedulerState.checking                                   *)
  nextPollAt,  (* "none" (nil), "due" (not after the wall clock) or "later"  *)
  pollNonce,   (* schedulerState.pollNonce                                  *)
  pollTimer,   (* nonce of the armed pollTimer                              *)
  cycleTimer,  (* nonce of the armed pollCycleTimer                         *)
  ticks,       (* nonces of fired poll timers that wait for the mutex       *)
  cycles,      (* nonces of fired cycle timers that wait for the mutex      *)
  busy,        (* a poll cycle holds the mutex                              *)
  wanted,      (* history: a refresh was accepted, no cycle has begun since *)
  setbacks     (* how often the wall clock was set back                     *)

vars == <<closed, checking, nextPollAt, pollNonce, pollTimer, cycleTimer,
          ticks, cycles, busy, wanted, setbacks>>

-----------------------------------------------------------------------------

InUse == {pollNonce, pollTimer, cycleTimer} \cup ticks \cup cycles
FreshExists == Nonce \ InUse # {}
Fresh == CHOOSE n \in Nonce : n \notin InUse

(* newService ends with schedulePoll(0).                                   *)
Init ==
  /\ closed = FALSE
  /\ checking = FALSE
  /\ nextPollAt = "due"
  /\ pollNonce = CHOOSE n \in Nonce : TRUE
  /\ pollTimer = pollNonce
  /\ cycleTimer = NoNonce
  /\ ticks = {}
  /\ cycles = {}
  /\ busy = FALSE
  /\ wanted = FALSE
  /\ setbacks = 0

(* Altered: an armed timer is left alone.                                  *)
ScheduleIfUnarmed(at) ==
  /\ FreshExists
  /\ nextPollAt' = at
  /\ pollNonce' = Fresh
  /\ pollTimer' = IF closed \/ pollTimer # NoNonce THEN pollTimer ELSE Fresh

(* Altered: the nonce stays.                                               *)
ScheduleSameNonce(at) ==
  /\ nextPollAt' = at
  /\ pollNonce' = pollNonce
  /\ pollTimer' = IF closed THEN pollTimer ELSE pollNonce

(* schedulePoll stops the armed timer and arms one with a new nonce; once  *)
(* the service is closed it does nothing.  at is the new nextPollAt.  The  *)
(* callers have already moved nextPollAt and the nonce on their own        *)
(* (finishPoll, requestRefresh): no callback carries that nonce.           *)
SchedulePoll(at) ==
  /\ FreshExists
  /\ nextPollAt' = at
  /\ pollNonce' = Fresh
  /\ pollTimer' = IF closed THEN pollTimer ELSE Fresh

(* The timer is monotonic but nextPollAt lost its monotonic reading in     *)
(* UTC(): the two may disagree, so the timer fires whatever nextPollAt is. *)
PollTimerFires ==
  /\ pollTimer # NoNonce
  /\ Cardinality(ticks) < MaxBlocked
  /\ ticks' = ticks \cup {pollTimer}
  /\ pollTimer' = NoNonce
  /\ UNCHANGED <<closed, checking, nextPollAt, pollNonce, cycleTimer, cycles,
                 busy, wanted, setbacks>>

CycleTimerFires ==
  /\ cycleTimer # NoNonce
  /\ Cardinality(cycles) < MaxBlocked
  /\ cycles' = cycles \cup {cycleTimer}
  /\ cycleTimer' = NoNonce
  /\ UNCHANGED <<closed, checking, nextPollAt, pollNonce, pollTimer, ticks,
                 busy, wanted, setbacks>>

(* handlePollTick: a tick of another nonce, or after close, is dropped;    *)
(* the current one begins the check and arms the transition timer.         *)
PollTick(n) ==
  /\ ~busy
  /\ n \in ticks
  /\ ticks' = ticks \ {n}
  /\ IF closed \/ n # pollNonce
       THEN UNCHANGED <<checking, nextPollAt, cycleTimer>>
       ELSE checking' = TRUE /\ nextPollAt' = "none" /\ cycleTimer' = n
  /\ UNCHANGED <<closed, pollNonce, pollTimer, cycles, busy, wanted, setbacks>>

(* handlePollCycle up to its guard.                                        *)
CurrentCycle(n) == ~closed /\ checking /\ n = pollNonce

CycleDropped(n) ==
  /\ ~busy
  /\ n \in cycles
  /\ ~CurrentCycle(n)
  /\ cycles' = cycles \ {n}
  /\ UNCHANGED <<closed, checking, nextPollAt, pollNonce, pollTimer,
                 cycleTimer, ticks, busy, wanted, setbacks>>

CycleBegins(n) ==
  /\ ~busy
  /\ n \in cycles
  /\ CurrentCycle(n)
  /\ cycles' = cycles \ {n}
  /\ busy' = TRUE
  /\ wanted' = FALSE
  /\ UNCHANGED <<closed, checking, nextPollAt, pollNonce, pollTimer,
                 cycleTimer, ticks, setbacks>>

PollCycle(n) == CycleDropped(n) \/ CycleBegins(n)

(* Altered: finishPoll without the schedulePoll that must follow.          *)
CycleEndsSilently ==
  /\ busy
  /\ busy' = FALSE
  /\ checking' = FALSE
  /\ nextPollAt' = "later"
  /\ UNCHANGED <<closed, pollNonce, pollTimer, cycleTimer, ticks, cycles, wanted,
                 setbacks>>

(* handlePollCycle after the scheduling work: finishPoll and               *)
(* schedulePoll(interval).                                                 *)
CycleEnds ==
  /\ busy
  /\ busy' = FALSE
  /\ checking' = FALSE
  /\ SchedulePoll("later")
  /\ UNCHANGED <<closed, cycleTimer, ticks, cycles, wanted, setbacks>>

Coalesced == checking \/ nextPollAt = "due"

(* requestRefresh: coalesced with a poll that is under way or due, or a    *)
(* new immediate poll.                                                     *)
RequestRefresh ==
  /\ ~busy
  /\ IF Coalesced
       THEN UNCHANGED <<nextPollAt, pollNonce, pollTimer>>
       ELSE SchedulePoll("due")
  /\ wanted' = (wanted \/ ~closed)
  /\ UNCHANGED <<closed, checking, cycleTimer, ticks, cycles, busy, setbacks>>

(* close stops both timers.  Service.Close runs it once.                   *)
Close ==
  /\ ~busy
  /\ ~closed
  /\ closed' = TRUE
  /\ pollTimer' = NoNonce
  /\ cycleTimer' = NoNonce
  /\ UNCHANGED <<checking, nextPollAt, pollNonce, ticks, cycles, busy, wanted, setbacks>>

(* The wall clock reaches the next poll time.                              *)
PollFallsDue ==
  /\ nextPollAt = "later"
  /\ nextPollAt' = "due"
  /\ UNCHANGED <<closed, checking, pollNonce, pollTimer, cycleTimer, ticks,
                 cycles, busy, wanted, setbacks>>

(* The wall clock is set back before it.                                   *)
ClockSetBack ==
  /\ nextPollAt = "due"
  /\ setbacks < MaxSetbacks
  /\ setbacks' = setbacks + 1
  /\ nextPollAt' = "later"
  /\ UNCHANGED <<closed, checking, pollNonce, pollTimer, cycleTimer, ticks,
                 cycles, busy, wanted>>

Next ==
  \/ PollTimerFires
  \/ CycleTimerFires
  \/ \E n \in ticks : PollTick(n)
  \/ \E n \in cycles : PollCycle(n)
  \/ CycleEnds
  \/ RequestRefresh
  \/ Close
  \/ PollFallsDue
  \/ ClockSetBack

Spec == Init /\ [][Next]_vars

-----------------------------------------------------------------------------

TypeOK ==
  /\ closed \in BOOLEAN
  /\ checking \in BOOLEAN
  /\ nextPollAt \in {"none", "due", "later"}
  /\ pollNonce \in Nonce
  /\ pollTimer \in Nonce \cup {NoNonce}
  /\ cycleTimer \in Nonce \cup {NoNonce}
  /\ ticks \subseteq Nonce
  /\ cycles \subseteq Nonce
  /\ busy \in BOOLEAN
  /\ wanted \in BOOLEAN
  /\ setbacks \in 0..MaxSetbacks

TickPending == pollTimer = pollNonce \/ pollNonce \in ticks
CyclePending == cycleTimer = pollNonce \/ pollNonce \in cycles

(* Polling is never lost: while the service is open and no cycle runs, the *)
(* callback that leads to the next cycle is armed or waits for the mutex   *)
(* with the nonce that handlePollTick (service.go:107) or handlePollCycle  *)
(* (service.go:119) will accept.                                           *)
PollNeverLost ==
  ~closed /\ ~busy => IF checking THEN CyclePending ELSE TickPending

(* At most one delivery can be accepted: "keeps only one pending immediate *)
(* refresh" of the runtime-orchestrator specification.  Whatever refreshes *)
(* and late callbacks did, no two callbacks could both pass the guards of  *)
(* service.go:107 and service.go:119.                                      *)
OneAcceptedDelivery ==
  ~closed =>
    /\ ~(pollTimer = pollNonce /\ pollNonce \in ticks)
    /\ ~(cycleTimer = pollNonce /\ pollNonce \in cycles)
    /\ ~(TickPending /\ CyclePending)
    /\ busy => ~TickPending /\ ~CyclePending
    /\ pollTimer # NoNonce => pollTimer = pollNonce

(* The implementation of the contract, its liveness included: every        *)
(* accepted refresh is followed by a cycle that began after it, although   *)
(* requestRefresh (service.go:76) may drop the armed timer or join a poll  *)
(* already due; a coalesced refresh counts, because the poll it joins has  *)
(* not begun its cycle yet (state.go:173-178).                             *)
Contract == INSTANCE PollContract
ContractSpec == Contract!Spec
=============================================================================
