---------------------------- MODULE Orchestrator ----------------------------
(***************************************************************************)
(* The orchestrator service (service.go, public.go): the poll loop and the *)
(* scheduler around one mutex.  The cycle that PollLoop begins and ends is *)
(* the sequence of stages of Scheduler; the mutex is held by a cycle       *)
(* exactly when the scheduler is not idle; Close closes both.              *)
(***************************************************************************)
EXTENDS Scheduler

CONSTANTS
  PollNonce,        (* bound: names for poll nonces                         *)
  MaxBlockedPolls,  (* bound: ticks, and cycles, that wait for the mutex    *)
  MaxSetbacks       (* bound: how often the wall clock is set back          *)

VARIABLES checking, nextPollAt, pollNonce, pollTimer, cycleTimer, ticks, cycles,
          wanted, setbacks

Poll == INSTANCE PollLoop WITH
          Nonce <- PollNonce,
          MaxBlocked <- MaxBlockedPolls,
          NoNonce <- NoTimer,
          busy <- stage # "idle"

pollVars == <<checking, nextPollAt, pollNonce, pollTimer, cycleTimer, ticks,
              cycles, wanted, setbacks>>
serviceVars == <<vars, pollVars>>

ASSUME OrchestratorAssumption == Poll!PollAssumption

ServiceInit == Init /\ Poll!Init

(* handlePollCycle: the guard, then the stages, then finishPoll and the    *)
(* next poll.                                                              *)
CycleBegins(n) == BeginCycle /\ Poll!CycleBegins(n)
CycleRuns == CycleStep /\ UNCHANGED pollVars
CycleEnds == EndCycle /\ Poll!CycleEnds

ServiceCloses == Close /\ Poll!Close

RunEvent ==
  /\ \E i \in Item : \/ \E h \in HostName : \/ RunProgress(i, h)
                                              \/ RunCompleted(i, h)
                                              \/ RunFailed(i, h)
                      \/ RunUnknown(i)
  /\ UNCHANGED pollVars

TimePasses(i) == GoesQuiet(i) /\ UNCHANGED pollVars

RetryFires(i) == RetryTimerFires(i) /\ UNCHANGED pollVars
RetryRuns(i, n) == RetryTick(i, n) /\ UNCHANGED pollVars

PollTimerFires == UNCHANGED vars /\ Poll!PollTimerFires
CycleTimerFires == UNCHANGED vars /\ Poll!CycleTimerFires
PollTick(n) == UNCHANGED vars /\ Poll!PollTick(n)
CycleDropped(n) == UNCHANGED vars /\ Poll!CycleDropped(n)
RequestRefresh == UNCHANGED vars /\ Poll!RequestRefresh
WallClock == UNCHANGED vars /\ (Poll!PollFallsDue \/ Poll!ClockSetBack)

ServiceNext ==
  \/ \E n \in PollNonce : CycleBegins(n)
  \/ CycleRuns
  \/ CycleEnds
  \/ ServiceCloses
  \/ RunEvent
  \/ \E i \in Item : TimePasses(i)
  \/ \E i \in Item : RetryFires(i)
  \/ \E i \in Item, n \in Nonce : RetryRuns(i, n)
  \/ PollTimerFires
  \/ CycleTimerFires
  \/ \E n \in PollNonce : PollTick(n)
  \/ \E n \in PollNonce : CycleDropped(n)
  \/ RequestRefresh
  \/ WallClock

(* Timers fire, some goroutine of those that wait for service.mu with a    *)
(* callback of one kind gets it in the end (sync.Mutex hands over to       *)
(* starved waiters), and the calls a cycle makes return.  Which of several *)
(* late callbacks is served first does not matter.                         *)
ServiceFairness ==
  /\ WF_serviceVars(CycleRuns)
  /\ WF_serviceVars(CycleEnds)
  /\ WF_serviceVars(PollTimerFires)
  /\ WF_serviceVars(CycleTimerFires)
  /\ SF_serviceVars(\E n \in PollNonce : PollTick(n))
  /\ SF_serviceVars(\E n \in PollNonce : CycleDropped(n) \/ CycleBegins(n))
  /\ \A i \in Item : WF_serviceVars(RetryFires(i))
  /\ \A i \in Item : SF_serviceVars(\E n \in Nonce : RetryRuns(i, n))

ServiceSpec == ServiceInit /\ [][ServiceNext]_serviceVars /\ ServiceFairness

-----------------------------------------------------------------------------

(* Every retry entry is served: its own callback runs, unless the entry is *)
(* replaced or dropped before or the service closes (service.go:138).      *)
RetryServed ==
  \A i \in Item, n \in Nonce :
    (IsRetrying(i) /\ retrying[i].nonce = n)
      ~> (closed \/ ~(IsRetrying(i) /\ retrying[i].nonce = n))

(* A silent run does not hold its slot for ever: the next cycle stops it   *)
(* (state.go:422), because polling goes on whatever else happens.          *)
SilentRunStopped ==
  \A i \in Item :
    (IsRunning(i) /\ running[i].quiet)
      ~> (closed \/ ~(IsRunning(i) /\ running[i].quiet))

(* With the stages of the real cycle between its begin and its end, the    *)
(* service still keeps the promise of the poll loop.                       *)
KeepsPollContract == Poll!ContractSpec

(* The two invariants of the poll loop, with the real stages in between:   *)
(* the callback that leads to the next cycle is pending whatever was       *)
(* dropped (service.go:107, service.go:119), and no two callbacks could    *)
(* both be accepted.                                                       *)
PollingGoesOn == Poll!PollNeverLost
OnePollAtATime == Poll!OneAcceptedDelivery
=============================================================================
