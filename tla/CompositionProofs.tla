-------------------------- MODULE CompositionProofs --------------------------
(***************************************************************************)
(* Proofs about the two modules that compose the scheduler.  First the     *)
(* orchestrator service: the poll loop, the scheduler and the one mutex    *)
(* between them.  Then the process: the runs that the scheduler tracks,    *)
(* the goroutines that do their work, and start-up and shutdown.           *)
(*                                                                         *)
(* Both are schedulers: every theorem of SchedulerProofs holds of them,    *)
(* and what it says of types and of the runs a step starts is used here.   *)
(***************************************************************************)
EXTENDS Orchestrator, Runtime, SchedulerProofs

-----------------------------------------------------------------------------
(* The poll loop.  Its two invariants are inductive together: a callback   *)
(* with the current nonce may be consumed because there is no second one,  *)
(* and there is no second one because an armed timer always carries the    *)
(* current nonce.                                                          *)

PollInv == Poll!TypeOK /\ PollingGoesOn /\ OnePollAtATime

(* A new nonce is one that no timer and no callback carries.               *)
LEMMA FreshPollNonce ==
  ASSUME Poll!FreshExists
  PROVE  Poll!Fresh \in PollNonce /\ Poll!Fresh \notin Poll!InUse
BY DEF Poll!FreshExists, Poll!Fresh

LEMMA PollInit == ServiceInit => PollInv
<1> SUFFICES ASSUME ServiceInit PROVE PollInv
  OBVIOUS
<1> USE OrchestratorAssumption DEF ServiceInit, Poll!Init, Poll!PollAssumption
<1>1. pollNonce \in PollNonce /\ pollNonce # NoTimer
  OBVIOUS
<1>2. stage = "idle"
  BY DEF Init
<1>3. Poll!TypeOK
  <2>1. setbacks \in 0 .. MaxSetbacks
    OBVIOUS
  <2>2. (stage # "idle") \in BOOLEAN
    OBVIOUS
  <2> QED BY <1>1, <2>1, <2>2, Zenon DEF Poll!TypeOK
<1>4. PollingGoesOn
  BY <1>1, <1>2 DEF PollingGoesOn, Poll!PollNeverLost, Poll!TickPending
<1>5. OnePollAtATime
  BY <1>1, <1>2 DEF OnePollAtATime, Poll!OneAcceptedDelivery,
                    Poll!TickPending, Poll!CyclePending
<1> QED BY <1>3, <1>4, <1>5 DEF PollInv

(* schedulePoll with the mutex about to be free and no check under way:    *)
(* whatever the armed timer was, the new one is the only callback that     *)
(* carries the new nonce.                                                  *)
LEMMA SchedulePollKeeps ==
  ASSUME PollInv, NEW at \in {"due", "later"}, Poll!SchedulePoll(at),
         checking' = FALSE, stage' = "idle", closed' = closed, wanted' \in BOOLEAN,
         UNCHANGED <<cycleTimer, ticks, cycles, setbacks>>
  PROVE  PollInv'
<1> USE DEF Poll!SchedulePoll
<1>1. Poll!Fresh \in PollNonce
  BY FreshPollNonce
<1>2. Poll!Fresh # cycleTimer /\ Poll!Fresh \notin ticks /\ Poll!Fresh \notin cycles
  BY FreshPollNonce DEF Poll!InUse
<1>3. Poll!TypeOK'
  BY <1>1 DEF PollInv, Poll!TypeOK
<1>4. PollingGoesOn'
  BY DEF PollingGoesOn, Poll!PollNeverLost, Poll!TickPending
<1>5. OnePollAtATime'
  BY <1>2 DEF OnePollAtATime, Poll!OneAcceptedDelivery, Poll!TickPending, Poll!CyclePending
<1> QED BY <1>3, <1>4, <1>5 DEF PollInv

LEMMA PollStep == PollInv /\ [ServiceNext]_serviceVars => PollInv'
<1> SUFFICES ASSUME PollInv, [ServiceNext]_serviceVars PROVE PollInv'
  OBVIOUS
<1> USE OrchestratorAssumption
    DEF Poll!PollAssumption, PollInv, Poll!TypeOK, PollingGoesOn, OnePollAtATime,
        Poll!PollNeverLost, Poll!OneAcceptedDelivery, Poll!TickPending, Poll!CyclePending
<1>1. ASSUME NEW n \in PollNonce, CycleBegins(n) PROVE PollInv'
  BY <1>1 DEF CycleBegins, Poll!CycleBegins, BeginCycle, Poll!CurrentCycle
<1>2. CASE CycleRuns
  <2>1. stage # "idle" /\ stage' # "idle" /\ closed' = closed /\ UNCHANGED pollVars
    BY <1>2 DEF CycleRuns, CycleStep, ReconcileStalled, ReconcileRunning,
       ReconcileRefreshFails, ListCandidates, DispatchCandidate, SkipCandidate
  <2> QED BY <2>1 DEF pollVars
<1>3. CASE CycleEnds
  <2>1. stage # "idle" /\ stage' = "idle" /\ closed' = closed
    BY <1>3 DEF CycleEnds, EndCycle
  <2>2. Poll!SchedulePoll("later") /\ checking' = FALSE
        /\ UNCHANGED <<cycleTimer, ticks, cycles, wanted, setbacks>>
    BY <1>3 DEF CycleEnds, Poll!CycleEnds
  <2> QED BY <2>1, <2>2, SchedulePollKeeps
<1>4. CASE ServiceCloses
  BY <1>4 DEF ServiceCloses, Close, Poll!Close
<1>5. CASE RunEvent \/ (\E i \in Item : TimePasses(i) \/ RetryFires(i))
           \/ (\E i \in Item, n \in Nonce : RetryRuns(i, n)) \/ UNCHANGED serviceVars
  <2>1. stage' = stage /\ closed' = closed /\ UNCHANGED pollVars
    BY <1>5 DEF RunEvent, TimePasses, RetryFires, RetryRuns, RunProgress,
       RunCompleted, RunFailed, RunUnknown, GoesQuiet, RetryTimerFires, RetryTick,
       serviceVars, vars
  <2> QED BY <2>1 DEF pollVars
<1>6. CASE PollTimerFires
  BY <1>6 DEF PollTimerFires, Poll!PollTimerFires, vars
<1>7. CASE CycleTimerFires
  BY <1>7 DEF CycleTimerFires, Poll!CycleTimerFires, vars
<1>8. ASSUME NEW n \in PollNonce, PollTick(n) PROVE PollInv'
  <2>1. /\ stage = "idle" /\ stage' = "idle" /\ closed' = closed
        /\ n \in ticks /\ ticks' = ticks \ {n}
        /\ UNCHANGED <<pollNonce, pollTimer, cycles, wanted, setbacks>>
    BY <1>8 DEF PollTick, Poll!PollTick, vars
  <2>2. CASE closed \/ n # pollNonce
    <3>1. UNCHANGED <<checking, nextPollAt, cycleTimer>>
      BY <1>8, <2>2 DEF PollTick, Poll!PollTick
    <3> QED BY <2>1, <2>2, <3>1
  <2>3. CASE ~(closed \/ n # pollNonce)
    <3>1. checking' = TRUE /\ nextPollAt' = "none" /\ cycleTimer' = n
      BY <1>8, <2>3 DEF PollTick, Poll!PollTick
    <3> QED BY <2>1, <2>3, <3>1
  <2> QED BY <2>2, <2>3
<1>9. ASSUME NEW n \in PollNonce, CycleDropped(n) PROVE PollInv'
  BY <1>9 DEF CycleDropped, Poll!CycleDropped, Poll!CurrentCycle, vars
<1>10. CASE RequestRefresh
  <2>1. stage = "idle" /\ stage' = "idle" /\ closed' = closed /\ checking' = checking
        /\ wanted' \in BOOLEAN /\ UNCHANGED <<cycleTimer, ticks, cycles, setbacks>>
    BY <1>10 DEF RequestRefresh, Poll!RequestRefresh, vars
  <2>2. CASE Poll!Coalesced
    BY <1>10, <2>1, <2>2 DEF RequestRefresh, Poll!RequestRefresh
  <2>3. CASE ~Poll!Coalesced
    <3>1. Poll!SchedulePoll("due") /\ ~checking
      BY <1>10, <2>3 DEF RequestRefresh, Poll!RequestRefresh, Poll!Coalesced
    <3> QED BY <2>1, <3>1, SchedulePollKeeps
  <2> QED BY <2>2, <2>3
<1>11. CASE WallClock
  BY <1>11 DEF WallClock, Poll!PollFallsDue, Poll!ClockSetBack, vars
<1> QED
  BY <1>1, <1>2, <1>3, <1>4, <1>5, <1>6, <1>7, <1>8, <1>9, <1>10, <1>11
     DEF ServiceNext

(* Polling goes on: while the service is open and the mutex free, the      *)
(* callback that leads to the next cycle is armed or waits, with a nonce   *)
(* that service.go:107 or service.go:119 accepts.                          *)
THEOREM PollingNeverStops == ServiceSpec => []PollingGoesOn
<1>1. PollInv => PollingGoesOn
  BY DEF PollInv
<1> QED BY <1>1, PollInit, PollStep, PTL DEF ServiceSpec

(* No two timer callbacks of the poll loop could both be accepted.         *)
THEOREM NoTwoPolls == ServiceSpec => []OnePollAtATime
<1>1. PollInv => OnePollAtATime
  BY DEF PollInv
<1> QED BY <1>1, PollInit, PollStep, PTL DEF ServiceSpec

-----------------------------------------------------------------------------
(* The service is a scheduler: whatever the poll loop, refreshes and the   *)
(* clock add, every step of it is a step of Scheduler or leaves the        *)
(* scheduling state alone.                                                 *)
THEOREM ServiceIsAScheduler == ServiceSpec => Spec
<1>1. ServiceInit => Init
  BY DEF ServiceInit
<1>2. [ServiceNext]_serviceVars => [Next]_vars
  BY DEF ServiceNext, serviceVars, Next, CycleBegins, CycleRuns, CycleEnds,
     ServiceCloses, RunEvent, TimePasses, RetryFires, RetryRuns, PollTimerFires,
     CycleTimerFires, PollTick, CycleDropped, RequestRefresh, WallClock
<1> QED BY <1>1, <1>2, PTL DEF ServiceSpec, Spec

-----------------------------------------------------------------------------
(* The safety half of the contract: cycles begin only one at a time and in *)
(* an open service, and a refresh is forgotten only when a cycle begins.   *)
THEOREM ContractSafety ==
  ServiceSpec => Poll!Contract!Init /\ [][Poll!Contract!Next]_(Poll!Contract!vars)
<1>1. ServiceInit => Poll!Contract!Init
  BY DEF ServiceInit, Init, Poll!Init, Poll!Contract!Init
<1>2. PollInv /\ [ServiceNext]_serviceVars => [Poll!Contract!Next]_(Poll!Contract!vars)
  <2> SUFFICES ASSUME PollInv, [ServiceNext]_serviceVars
               PROVE  [Poll!Contract!Next]_(Poll!Contract!vars)
    OBVIOUS
  <2> USE DEF Poll!Contract!Next, Poll!Contract!vars
  <2>1. ASSUME NEW n \in PollNonce, CycleBegins(n) PROVE Poll!Contract!Begin
    BY <2>1 DEF CycleBegins, BeginCycle, Poll!CycleBegins, Poll!Contract!Begin
  <2>2. CASE CycleEnds
    BY <2>2 DEF CycleEnds, EndCycle, Poll!CycleEnds, Poll!Contract!End
  <2>3. CASE ServiceCloses
    BY <2>3 DEF ServiceCloses, Close, Poll!Close, Poll!Contract!Close
  <2>4. CASE RequestRefresh
    <3>1. CASE closed
      BY <2>4, <3>1 DEF RequestRefresh, Poll!RequestRefresh, vars, PollInv, Poll!TypeOK
    <3>2. CASE ~closed
      BY <2>4, <3>2 DEF RequestRefresh, Poll!RequestRefresh, vars, PollInv, Poll!TypeOK, Poll!Contract!Request
    <3> QED BY <3>1, <3>2
  <2>5. CASE CycleRuns
    BY <2>5 DEF CycleRuns, CycleStep, ReconcileStalled, ReconcileRunning, pollVars,
       ReconcileRefreshFails, ListCandidates, DispatchCandidate, SkipCandidate
  <2>6. CASE RunEvent \/ (\E i \in Item : TimePasses(i) \/ RetryFires(i))
           \/ (\E i \in Item, n \in Nonce : RetryRuns(i, n)) \/ UNCHANGED serviceVars
    BY <2>6 DEF RunEvent, TimePasses, RetryFires, RetryRuns, RunProgress,
       RunCompleted, RunFailed, RunUnknown, GoesQuiet, RetryTimerFires, RetryTick,
       serviceVars, vars, pollVars
  <2>7. CASE \/ PollTimerFires \/ CycleTimerFires \/ WallClock
            \/ \E n \in PollNonce : PollTick(n) \/ CycleDropped(n)
    BY <2>7 DEF PollTimerFires, CycleTimerFires, WallClock, PollTick, CycleDropped,
       Poll!PollTimerFires, Poll!CycleTimerFires, Poll!PollTick, Poll!CycleDropped,
       Poll!PollFallsDue, Poll!ClockSetBack, vars
  <2> QED
    BY <2>1, <2>2, <2>3, <2>4, <2>5, <2>6, <2>7 DEF ServiceNext
<1> QED BY <1>1, <1>2, PollInit, PollStep, PTL DEF ServiceSpec

-----------------------------------------------------------------------------
(* The process.                                                            *)

(* The phases before the body of a run has used up its turns.              *)
Early == {"creating", "preparing", "session", "turn"}
TurnsLeft(w) == w.phase \in Early => w.turn < MaxTurns

WorkOK ==
  /\ handle \in [Item -> Run \cup {NoHandle}]
  /\ work \in [Run -> WorkType \cup {Ended}]
  /\ \A r \in Run : AtWork(r) => TurnsLeft(work[r])

(* A running entry has a handle of its own, and only running entries have. *)
HandlesTrack ==
  /\ \A i \in Item : IsRunning(i) <=> handle[i] # NoHandle
  /\ \A i, j \in Item : handle[i] = handle[j] /\ handle[i] # NoHandle => i = j

(* While the process serves, a name of a stopped run is not free, so that  *)
(* no new run is taken for a stopped one.                                  *)
StoppedAtWork == ~root => \A r \in cancelled : r \in Run /\ AtWork(r)

(* What is open, and who is at work, at each stage of the process.         *)
Alive == \E r \in Run : AtWork(r)
LifeInv ==
  /\ life \in {"starting", "failed", "stopped"} => open = {}
  /\ life \in {"reading", "cleaning", "assembling", "closing", "stopping"} => open = {"store"}
  /\ life = "up" => open = {"store", "http"}
  /\ life \in {"starting", "reading", "cleaning", "failed", "stopped"} => ~Alive
  /\ life \in {"closing", "stopping", "stopped"} => closed
  /\ life \in {"stopping", "stopped"} => root

-----------------------------------------------------------------------------

(* What one step of a goroutine makes of its run: the run stays on its     *)
(* item, and leaves without an event only if it was stopped.               *)
Becomes(r, w) ==
  /\ work' = [work EXCEPT ![r] = w]
  /\ w # Ended => /\ w.item = work[r].item
                  /\ TurnsLeft(w)
                  /\ w.phase = "exiting" => Cancelled(r)
                  /\ cancelled' = cancelled
  /\ w = Ended => work[r].phase = "exiting" /\ cancelled' = cancelled \ {r}

LEMMA WorkerEffect ==
  ASSUME WorkOK, NEW r \in Run, WorkerStep(r)
  PROVE  /\ UNCHANGED <<vars, handle, root, life, open, lost>>
         /\ AtWork(r)
         /\ \E w \in WorkType \cup {Ended} : Becomes(r, w)
<1>1. AtWork(r) /\ UNCHANGED <<vars, handle, root, life, open, lost>>
  BY DEF WorkerStep, Created, CreateFails, Prepared, SessionStarted, TurnCompleted,
     NextTurn, BodyEnds, BodyFails, Leave, Exit, Working, Phased, AtWork
<1>2. /\ work[r] \in WorkType /\ work[r].turn \in 0..MaxTurns /\ TurnsLeft(work[r])
      /\ MaxTurns \in Nat \ {0} /\ Ended \notin WorkType
  BY <1>1, RuntimeAssumption DEF WorkOK, AtWork, WorkType
<1> SUFFICES \E w \in WorkType \cup {Ended} : Becomes(r, w)
  BY <1>1
<1>3. ASSUME NEW p \in Phase \ {"exiting"}, Move(r, p), cancelled' = cancelled,
             p \in Early => work[r].turn < MaxTurns
      PROVE  \E w \in WorkType \cup {Ended} : Becomes(r, w)
  <2> DEFINE w == [work[r] EXCEPT !.phase = p]
  <2>1. w \in WorkType /\ w.phase = p /\ w.item = work[r].item /\ w.turn = work[r].turn
    BY <1>2 DEF WorkType
  <2>2. work' = [work EXCEPT ![r] = w]
    BY <1>3 DEF Move
  <2>3. Becomes(r, w)
    BY <1>2, <1>3, <2>1, <2>2 DEF Becomes, TurnsLeft
  <2> QED BY <2>1, <2>3
<1>4. CASE Created(r) \/ Prepared(r) \/ SessionStarted(r) \/ NextTurn(r)
  <2>1. PICK p \in Early : Move(r, p) /\ cancelled' = cancelled
                           /\ work[r].turn < MaxTurns
    BY <1>2, <1>4 DEF Created, Prepared, SessionStarted, NextTurn, Working, Phased,
       TurnsLeft, Early
  <2>2. p \in Phase \ {"exiting"}
    BY DEF Early, Phase
  <2> QED BY <1>3, <2>1, <2>2
<1>5. CASE CreateFails(r)
  <2> DEFINE w == [work[r] EXCEPT !.phase = "reporting", !.failed = TRUE]
  <2>1. w \in WorkType /\ w.phase = "reporting" /\ w.item = work[r].item
    BY <1>2 DEF WorkType, Phase
  <2>2. work' = [work EXCEPT ![r] = w] /\ cancelled' = cancelled
    BY <1>5 DEF CreateFails
  <2>3. Becomes(r, w)
    BY <1>2, <2>1, <2>2 DEF Becomes, TurnsLeft, Early
  <2> QED BY <2>1, <2>3
<1>6. CASE TurnCompleted(r)
  <2> DEFINE w == [work[r] EXCEPT !.phase = "refreshing", !.turn = work[r].turn + 1]
  <2>1. work[r].turn + 1 \in 0..MaxTurns
    BY <1>2, <1>6 DEF TurnCompleted, Phased, TurnsLeft, Early
  <2>2. w \in WorkType /\ w.phase = "refreshing" /\ w.item = work[r].item
    BY <1>2, <2>1 DEF WorkType, Phase
  <2>3. work' = [work EXCEPT ![r] = w] /\ cancelled' = cancelled
    BY <1>6 DEF TurnCompleted
  <2>4. Becomes(r, w)
    BY <1>2, <2>2, <2>3 DEF Becomes, TurnsLeft, Early
  <2> QED BY <2>2, <2>4
<1>7. CASE BodyEnds(r) \/ BodyFails(r)
  <2>1. PICK f \in BOOLEAN : LeaveBody(r, f) /\ cancelled' = cancelled
    BY <1>7 DEF BodyEnds, BodyFails
  <2> DEFINE w == [work[r] EXCEPT !.phase = "leaving", !.turn = 0, !.failed = f]
  <2>2. w \in WorkType /\ w.phase = "leaving" /\ w.item = work[r].item
    BY <1>2, 0 \in 0..MaxTurns DEF WorkType, Phase
  <2>3. work' = [work EXCEPT ![r] = w]
    BY <2>1 DEF LeaveBody
  <2>4. Becomes(r, w)
    BY <1>2, <2>1, <2>2, <2>3 DEF Becomes, TurnsLeft, Early
  <2> QED BY <2>2, <2>4
<1>8. CASE Leave(r) /\ ~Cancelled(r)
  BY <1>3, <1>8 DEF Leave, Phase, Early
<1>9. CASE Leave(r) /\ Cancelled(r)
  <2> DEFINE w == [work[r] EXCEPT !.phase = "exiting", !.failed = FALSE]
  <2>1. w \in WorkType /\ w.phase = "exiting" /\ w.item = work[r].item
    BY <1>2 DEF WorkType, Phase
  <2>2. work' = [work EXCEPT ![r] = w] /\ cancelled' = cancelled
    BY <1>9 DEF Leave, Return
  <2>3. Becomes(r, w)
    BY <1>2, <1>9, <2>1, <2>2 DEF Becomes, TurnsLeft, Early
  <2> QED BY <2>1, <2>3
<1>10. CASE Exit(r)
  <2>1. Becomes(r, Ended)
    BY <1>2, <1>10 DEF Becomes, Exit, Phased
  <2> QED BY <2>1
<1> QED
  BY <1>4, <1>5, <1>6, <1>7, <1>8, <1>9, <1>10 DEF WorkerStep

(* A step of the process is a step of the scheduler or leaves it alone.    *)
LEMMA RuntimeStepIsSchedulerStep ==
  WorkOK /\ [RuntimeNext]_processVars => [Next]_vars
<1> SUFFICES ASSUME WorkOK, [RuntimeNext]_processVars PROVE [Next]_vars
  OBVIOUS
<1>1. CASE Process
  BY <1>1 DEF Process, StoreOpens, StoreFails, SettingsRead, StartUpFails, CleanupDone,
     SetEmit, Interrupt, CloseService, CloseWorkers, CloseStore, Lives, Next
<1>2. CASE Schedules
  BY <1>2 DEF Schedules, Next
<1>3. ASSUME NEW r \in Run, WorkerStep(r) PROVE UNCHANGED vars
  BY <1>3, WorkerEffect
<1>4. ASSUME NEW r \in Run, AtWork(r) PROVE work[r].item \in Item /\ work[r].host \in HostName
  BY <1>4 DEF WorkOK, AtWork, WorkType
<1>5. ASSUME NEW r \in Run, Progress(r) PROVE Next
  BY <1>4, <1>5 DEF Progress, Next
<1>6. ASSUME NEW r \in Run, Report(r) PROVE Next
  BY <1>4, <1>6 DEF Report, Phased, Next
<1>7. ASSUME NEW r \in Run, ReportDropped(r) PROVE UNCHANGED vars
  BY <1>7 DEF ReportDropped
<1>8. CASE Over \/ UNCHANGED processVars
  BY <1>8 DEF Over, processVars
<1> QED BY <1>1, <1>2, <1>3, <1>5, <1>6, <1>7, <1>8 DEF RuntimeNext

-----------------------------------------------------------------------------
(* What the scheduler's own steps do to the runs: they stop tracked runs,  *)
(* or start one under a free name.                                         *)

StopsSome ==
  /\ \A i \in Item : IsRunning(i)' => IsRunning(i)
  /\ StopRuns({i \in Item : IsRunning(i) /\ ~IsRunning(i)'})

StartsRun ==
  \E i \in Item :
    /\ ~IsRunning(i)
    /\ \A j \in Item : IsRunning(j)' <=> IsRunning(j) \/ j = i
    /\ StartRun(i)

LEMMA SchedulesEffect ==
  ASSUME TypeInv, TypeInv', Schedules
  PROVE  /\ StopsSome \/ StartsRun
         /\ lost' = {r \in lost : \E i \in Item : handle'[i] = r}
         /\ UNCHANGED <<root, life, open, closed>>
<1> DEFINE started == {i \in Item : ~IsRunning(i) /\ IsRunning(i)'}
           stopped == {i \in Item : IsRunning(i) /\ ~IsRunning(i)'}
<1>1. /\ IF started = {} THEN StopRuns(stopped) ELSE \A i \in started : StartRun(i)
      /\ lost' = {r \in lost : \E i \in Item : handle'[i] = r}
      /\ UNCHANGED <<root, life, open>>
  BY DEF Schedules, StartAndStop
<1>2. closed' = closed
  BY DEF Schedules, BeginCycle, CycleStep, ReconcileStalled, ReconcileRunning,
     ReconcileRefreshFails, ListCandidates, DispatchCandidate, SkipCandidate, EndCycle,
     RetryTimerFires, RetryTick, GoesQuiet
<1>3. StartsNone \/ StartsOne
  <2>1. [Next]_vars \/ \E i \in Item : GoesQuiet(i)
    BY DEF Schedules, Next
  <2> QED BY <2>1, StepStartsOne DEF Next
<1> SUFFICES StopsSome \/ StartsRun
  BY <1>1, <1>2
<1>4. CASE started = {}
  BY <1>1, <1>4 DEF StopsSome
<1>5. CASE started # {}
  <2>1. StartsOne
    BY <1>3, <1>5 DEF StartsNone, RunningItems
  <2>2. PICK i \in Item : \E rec : running' = [running EXCEPT ![i] = rec]
    BY <2>1 DEF StartsOne, Start
  <2>3. \A j \in Item \ {i} : IsRunning(j)' <=> IsRunning(j)
    BY <2>2 DEF IsRunning, TypeInv, TypeOK
  <2>4. ~IsRunning(i) /\ IsRunning(i)' /\ i \in started
    BY <1>5, <2>3
  <2>5. StartRun(i)
    BY <1>1, <1>5, <2>4
  <2> QED BY <2>3, <2>4, <2>5 DEF StartsRun
<1> QED BY <1>4, <1>5

-----------------------------------------------------------------------------
(* The invariant of the runs, for each kind of step.  The parts that are   *)
(* about the handles and the goroutines:                                   *)
HandleInv == WorkOK /\ HandlesTrack /\ StoppedAtWork /\ NoRunLeftBehind

LEMMA NewRunIsWork ==
  ASSUME NEW i \in Item, NEW h \in HostName
  PROVE  LET w == [item |-> i, host |-> h, phase |-> "creating", turn |-> 0,
                   failed |-> FALSE]
         IN  w \in WorkType /\ w # Ended /\ TurnsLeft(w)
<1> DEFINE w == [item |-> i, host |-> h, phase |-> "creating", turn |-> 0,
                 failed |-> FALSE]
<1>1. 0 \in 0..MaxTurns /\ 0 < MaxTurns /\ "creating" \in Phase
  BY RuntimeAssumption DEF Phase
<1>2. w \in WorkType /\ TurnsLeft(w)
  BY <1>1 DEF WorkType, TurnsLeft
<1> QED BY <1>2, RuntimeAssumption

LEMMA StopsSomeKeeps ==
  ASSUME HandleInv, StopsSome, UNCHANGED root,
         lost' = {r \in lost : \E i \in Item : handle'[i] = r}
  PROVE  HandleInv'
<1> DEFINE stopped == {i \in Item : IsRunning(i) /\ ~IsRunning(i)'}
<1>1. /\ handle' = [i \in Item |-> IF i \in stopped THEN NoHandle ELSE handle[i]]
      /\ cancelled' = cancelled \cup {r \in {handle[i] : i \in stopped} : AtWork(r)}
      /\ UNCHANGED work
  BY DEF StopsSome, StopRuns
<1>2. \A i \in Item : IsRunning(i)' => IsRunning(i) /\ i \notin stopped
  BY DEF StopsSome
<1>3. WorkOK'
  BY <1>1 DEF HandleInv, WorkOK, AtWork
<1>4. HandlesTrack'
  BY <1>1, <1>2 DEF HandleInv, HandlesTrack
<1>5. StoppedAtWork'
  <2>1. \A i \in stopped : handle[i] \in Run
    BY DEF HandleInv, HandlesTrack, WorkOK
  <2> QED BY <1>1, <2>1 DEF HandleInv, StoppedAtWork, AtWork
<1>6. NoRunLeftBehind'
  <2> SUFFICES ASSUME ~root, NEW i \in Item, IsRunning(i)'
               PROVE  \/ handle'[i] \in lost'
                      \/ /\ handle'[i] \in Run \ cancelled'
                         /\ AtWork(handle[i])'
                         /\ work'[handle'[i]].item = i
                         /\ work'[handle'[i]].phase # "exiting"
    BY <1>1 DEF NoRunLeftBehind, AtWork
  <2>1. IsRunning(i) /\ handle'[i] = handle[i] /\ handle[i] # NoHandle
    BY <1>1, <1>2 DEF HandleInv, HandlesTrack
  <2>2. handle[i] \notin {handle[j] : j \in stopped}
    BY <1>2, <2>1 DEF HandleInv, HandlesTrack
  <2> QED BY <1>1, <2>1, <2>2 DEF HandleInv, NoRunLeftBehind, AtWork
<1> QED BY <1>3, <1>4, <1>5, <1>6 DEF HandleInv

LEMMA StartsRunKeeps ==
  ASSUME TypeInv', HandleInv, StartsRun, UNCHANGED root,
         lost' = {r \in lost : \E i \in Item : handle'[i] = r}
  PROVE  HandleInv'
<1>1. PICK i \in Item : /\ ~IsRunning(i)
                        /\ \A j \in Item : IsRunning(j)' <=> IsRunning(j) \/ j = i
                        /\ StartRun(i)
  BY DEF StartsRun
<1> DEFINE new == [item |-> i, host |-> running'[i].host, phase |-> "creating",
                   turn |-> 0, failed |-> FALSE]
<1>2. PICK r \in FreeRuns : /\ handle' = [handle EXCEPT ![i] = r]
                            /\ work' = [work EXCEPT ![r] = new]
                            /\ UNCHANGED cancelled
  BY <1>1 DEF StartRun
<1>3. r \in Run /\ ~AtWork(r) /\ r # NoHandle /\ \A j \in Item : handle[j] # r
  BY RuntimeAssumption DEF FreeRuns
<1>4. new \in WorkType /\ new # Ended /\ TurnsLeft(new)
      /\ new.item = i /\ new.phase # "exiting"
  <2>1. running'[i].host \in HostName
    BY <1>1 DEF IsRunning, TypeInv, TypeOK, RunType
  <2> QED BY <2>1, NewRunIsWork
<1> HIDE DEF new
<1>5. WorkOK'
  BY <1>2, <1>3, <1>4 DEF HandleInv, WorkOK, AtWork
<1>6. HandlesTrack'
  BY <1>1, <1>2, <1>3 DEF HandleInv, HandlesTrack, WorkOK
<1>7. StoppedAtWork'
  BY <1>2, <1>3, <1>4 DEF HandleInv, StoppedAtWork, WorkOK, AtWork
<1>8. NoRunLeftBehind'
  <2> SUFFICES ASSUME ~root, NEW j \in Item, IsRunning(j)'
               PROVE  \/ handle'[j] \in lost'
                      \/ /\ handle'[j] \in Run \ cancelled'
                         /\ work'[handle'[j]] # Ended
                         /\ work'[handle'[j]].item = j
                         /\ work'[handle'[j]].phase # "exiting"
    BY DEF NoRunLeftBehind, AtWork
  <2>1. CASE j = i
    <3>1. handle'[j] = r /\ work'[r] = new
      BY <1>2, <1>3, <2>1 DEF HandleInv, WorkOK
    <3>2. r \notin cancelled
      BY <1>3 DEF HandleInv, StoppedAtWork
    <3> QED BY <1>2, <1>3, <1>4, <2>1, <3>1, <3>2
  <2>2. CASE j # i
    <3>1. handle'[j] = handle[j] /\ handle[j] # r /\ IsRunning(j)
      BY <1>1, <1>2, <1>3, <2>2 DEF HandleInv, WorkOK
    <3>2. handle[j] \in Run => work'[handle[j]] = work[handle[j]]
      BY <1>2, <3>1 DEF HandleInv, WorkOK
    <3> QED BY <1>2, <3>1, <3>2 DEF HandleInv, NoRunLeftBehind, AtWork
  <2> QED BY <2>1, <2>2
<1> QED BY <1>5, <1>6, <1>7, <1>8 DEF HandleInv

(* A step of a goroutine changes nothing that the scheduler relies on,     *)
(* unless the run is cancelled.                                            *)
LEMMA WorkerStepKeeps ==
  ASSUME HandleInv, NEW r \in Run, WorkerStep(r)
  PROVE  HandleInv'
<1>1. UNCHANGED <<running, handle, root, lost>> /\ AtWork(r)
  BY WorkerEffect DEF vars, HandleInv
<1>2. PICK w \in WorkType \cup {Ended} : Becomes(r, w)
  BY WorkerEffect DEF HandleInv
<1>3. /\ work' = [work EXCEPT ![r] = w]
      /\ w # Ended => /\ w.item = work[r].item
                      /\ TurnsLeft(w)
                      /\ w.phase = "exiting" => Cancelled(r)
                      /\ cancelled' = cancelled
      /\ w = Ended => work[r].phase = "exiting" /\ cancelled' = cancelled \ {r}
  BY <1>2 DEF Becomes
<1>4. WorkOK'
  BY <1>1, <1>3 DEF HandleInv, WorkOK, AtWork
<1>5. HandlesTrack'
  BY <1>1 DEF HandleInv, HandlesTrack, IsRunning
<1>6. StoppedAtWork'
  BY <1>1, <1>3 DEF HandleInv, StoppedAtWork, WorkOK, AtWork
<1>7. NoRunLeftBehind'
  <2> SUFFICES ASSUME ~root, NEW j \in Item, IsRunning(j), handle[j] \notin lost
               PROVE  /\ handle[j] \in Run \ cancelled'
                      /\ work'[handle[j]] # Ended
                      /\ work'[handle[j]].item = j
                      /\ work'[handle[j]].phase # "exiting"
    BY <1>1 DEF NoRunLeftBehind, AtWork, IsRunning
  <2>1. /\ handle[j] \in Run \ cancelled
        /\ work[handle[j]] # Ended
        /\ work[handle[j]].item = j
        /\ work[handle[j]].phase # "exiting"
    BY DEF HandleInv, NoRunLeftBehind, AtWork
  <2>2. CASE handle[j] # r
    BY <1>3, <2>1, <2>2 DEF HandleInv, WorkOK
  <2>3. CASE handle[j] = r
    BY <1>3, <2>1, <2>3 DEF HandleInv, WorkOK, Cancelled
  <2> QED BY <2>2, <2>3
<1> QED BY <1>4, <1>5, <1>6, <1>7 DEF HandleInv

(* A goroutine that has reported, or has nobody to report to, leaves.      *)
LEMMA ReturnType ==
  ASSUME WorkOK, NEW r \in Run, AtWork(r), Return(r)
  PROVE  \E w \in WorkType : /\ work' = [work EXCEPT ![r] = w]
                             /\ TurnsLeft(w) /\ w.item = work[r].item
<1> DEFINE w == [work[r] EXCEPT !.phase = "exiting", !.failed = FALSE]
<1>1. work[r] \in WorkType
  BY DEF WorkOK, AtWork
<1>2. w \in WorkType /\ w.phase = "exiting" /\ w.item = work[r].item
  BY <1>1 DEF WorkType, Phase
<1>3. work' = [work EXCEPT ![r] = w]
  BY DEF Return
<1>4. TurnsLeft(w)
  BY <1>2 DEF TurnsLeft, Early
<1> QED BY <1>2, <1>3, <1>4

(* The last event of a run ends the entry of its item, be it the entry of  *)
(* a later run, and no other.                                              *)
LEMMA ReportKeeps ==
  ASSUME TypeInv, HandleInv, NEW r \in Run, Report(r)
  PROVE  HandleInv'
<1> DEFINE i == work[r].item
<1>1. AtWork(r) /\ Return(r) /\ handle' = [handle EXCEPT ![i] = NoHandle]
      /\ lost' = lost \ {handle[i]} /\ UNCHANGED <<cancelled, root>>
  BY DEF Report, Phased
<1>2. i \in Item
  BY <1>1 DEF HandleInv, WorkOK, AtWork, WorkType
<1>3. PICK w \in WorkType : work' = [work EXCEPT ![r] = w] /\ TurnsLeft(w) /\ w.item = i
  BY <1>1, ReturnType DEF HandleInv
<1>4. \A j \in Item : IsRunning(j)' <=> IsRunning(j) /\ j # i
  <2>1. CASE ~IsRunning(i)
    BY <2>1 DEF Report, RunUnknown, IsRunning
  <2>2. CASE IsRunning(i)
    <3>1. running' = [running EXCEPT ![i] = NoRun]
      BY <2>2 DEF Report, RunFailed, RunCompleted
    <3> QED BY <1>2, <3>1 DEF TypeInv, TypeOK, IsRunning
  <2> QED BY <2>1, <2>2
<1> HIDE DEF i
<1>5. WorkOK'
  BY <1>1, <1>2, <1>3 DEF HandleInv, WorkOK, AtWork
<1>6. HandlesTrack'
  BY <1>1, <1>2, <1>4 DEF HandleInv, HandlesTrack, WorkOK
<1>7. StoppedAtWork'
  BY <1>1, <1>3, RuntimeAssumption DEF HandleInv, StoppedAtWork, WorkOK, AtWork
<1>8. NoRunLeftBehind'
  <2> SUFFICES ASSUME ~root, NEW j \in Item, IsRunning(j), j # i
               PROVE  \/ handle[j] \in lost \ {handle[i]}
                      \/ /\ handle[j] \in Run \ cancelled
                         /\ work'[handle[j]] # Ended
                         /\ work'[handle[j]].item = j
                         /\ work'[handle[j]].phase # "exiting"
    BY <1>1, <1>2, <1>4 DEF NoRunLeftBehind, AtWork, HandleInv, WorkOK
  <2>1. handle[j] # NoHandle /\ handle[j] # handle[i]
    BY <1>2 DEF HandleInv, HandlesTrack
  <2>2. CASE handle[j] \in lost
    BY <2>1, <2>2
  <2>3. CASE handle[j] \notin lost
    <3>1. /\ handle[j] \in Run \ cancelled
          /\ work[handle[j]] # Ended
          /\ work[handle[j]].item = j
          /\ work[handle[j]].phase # "exiting"
      BY <2>3 DEF HandleInv, NoRunLeftBehind, AtWork
    <3>2. handle[j] # r
      BY <3>1 DEF i
    <3> QED BY <1>3, <3>1, <3>2 DEF HandleInv, WorkOK
  <2> QED BY <2>2, <2>3
<1> QED BY <1>5, <1>6, <1>7, <1>8 DEF HandleInv

LEMMA ReportDroppedKeeps ==
  ASSUME HandleInv, NEW r \in Run, ReportDropped(r)
  PROVE  HandleInv'
<1>1. AtWork(r) /\ Return(r) /\ UNCHANGED <<running, handle, cancelled, root>>
      /\ lost' = IF handle[work[r].item] = r THEN lost \cup {r} ELSE lost
  BY DEF ReportDropped, Phased, vars
<1>2. PICK w \in WorkType : work' = [work EXCEPT ![r] = w] /\ TurnsLeft(w)
                            /\ w.item = work[r].item
  BY <1>1, ReturnType DEF HandleInv
<1>3. WorkOK'
  BY <1>1, <1>2 DEF HandleInv, WorkOK, AtWork
<1>4. HandlesTrack'
  BY <1>1 DEF HandleInv, HandlesTrack, IsRunning
<1>5. StoppedAtWork'
  BY <1>1, <1>2, RuntimeAssumption DEF HandleInv, StoppedAtWork, WorkOK, AtWork
<1>6. NoRunLeftBehind'
  <2> SUFFICES ASSUME ~root, NEW j \in Item, IsRunning(j), handle[j] \notin lost'
               PROVE  /\ handle[j] \in Run \ cancelled
                      /\ work'[handle[j]] # Ended
                      /\ work'[handle[j]].item = j
                      /\ work'[handle[j]].phase # "exiting"
    BY <1>1 DEF NoRunLeftBehind, AtWork, IsRunning
  <2>1. /\ handle[j] \in Run \ cancelled
        /\ work[handle[j]] # Ended
        /\ work[handle[j]].item = j
        /\ work[handle[j]].phase # "exiting"
    BY <1>1 DEF HandleInv, NoRunLeftBehind, AtWork
  <2>2. handle[j] # r
    BY <1>1, <2>1
  <2> QED BY <1>2, <2>1, <2>2 DEF HandleInv, WorkOK
<1> QED BY <1>3, <1>4, <1>5, <1>6 DEF HandleInv

(* The other steps leave the runs, or the context of all of them ends.     *)
LEMMA OtherStepsKeep ==
  ASSUME HandleInv, \A i \in Item : IsRunning(i)' <=> IsRunning(i),
         UNCHANGED <<handle, work, lost>>, root' \/ UNCHANGED <<root, cancelled>>,
         root => root'
  PROVE  HandleInv'
BY DEF HandleInv, WorkOK, HandlesTrack, StoppedAtWork, NoRunLeftBehind, AtWork

LEMMA HandleStep ==
  TypeInv /\ TypeInv' /\ HandleInv /\ [RuntimeNext]_processVars => HandleInv'
<1> SUFFICES ASSUME TypeInv, TypeInv', HandleInv, [RuntimeNext]_processVars
             PROVE  HandleInv'
  OBVIOUS
<1>1. CASE Process
  <2>1. /\ running' = running /\ UNCHANGED <<handle, work, lost>>
        /\ root' = TRUE \/ UNCHANGED <<root, cancelled>>
    BY <1>1 DEF Process, StoreOpens, StoreFails, SettingsRead, StartUpFails, CleanupDone,
       SetEmit, Interrupt, CloseService, CloseWorkers, CloseStore, Lives, Close, vars
  <2> QED BY <2>1, OtherStepsKeep DEF IsRunning
<1>2. CASE Schedules
  BY <1>2, SchedulesEffect, StopsSomeKeeps, StartsRunKeeps
<1>3. ASSUME NEW r \in Run, Progress(r) PROVE HandleInv'
  <2> DEFINE i == work[r].item
  <2>1. i \in Item /\ work[r].host \in HostName /\ RunProgress(i, work[r].host)
    BY <1>3 DEF Progress, HandleInv, WorkOK, AtWork, WorkType
  <2>2. PICK run \in RunType : running' = [running EXCEPT ![i] = run]
    BY <2>1, EventEffect
  <2>3. IsRunning(i)
    BY <2>1 DEF RunProgress
  <2> HIDE DEF i
  <2>5. \A j \in Item : IsRunning(j)' <=> IsRunning(j)
    BY <2>1, <2>2, <2>3, SchedulerAssumption DEF IsRunning, TypeInv, TypeOK
  <2> QED BY <1>3, <2>5, OtherStepsKeep DEF Progress, workerVars
<1>4. CASE Over \/ UNCHANGED processVars
  BY <1>4, OtherStepsKeep DEF Over, processVars, vars, workerVars, IsRunning
<1> QED
  BY <1>1, <1>2, <1>3, <1>4, WorkerStepKeeps, ReportKeeps, ReportDroppedKeeps
     DEF RuntimeNext

LEMMA HandleInit == RuntimeInit => HandleInv
<1> SUFFICES ASSUME RuntimeInit PROVE HandleInv
  OBVIOUS
<1> QED BY RuntimeAssumption DEF RuntimeInit, Init, HandleInv, WorkOK, HandlesTrack,
           StoppedAtWork, NoRunLeftBehind, AtWork, IsRunning

-----------------------------------------------------------------------------

(* The process is a scheduler: its start, its shutdown and the goroutines  *)
(* of the runs change the scheduling state only by steps of Scheduler.     *)
THEOREM ProcessIsAScheduler == RuntimeSpec => Spec
<1>1. RuntimeInit => Init /\ WorkOK
  BY HandleInit DEF RuntimeInit, HandleInv
<1>2. RuntimeInit => TypeInv /\ HandleInv
  BY TypeInit, HandleInit DEF RuntimeInit
<1>3. HandleInv /\ [RuntimeNext]_processVars => [Next]_vars
  BY RuntimeStepIsSchedulerStep DEF HandleInv
<1>4. TypeInv /\ HandleInv /\ [RuntimeNext]_processVars => TypeInv' /\ HandleInv'
  BY <1>3, TypeStep, HandleStep
<1> QED BY <1>1, <1>2, <1>3, <1>4, PTL DEF RuntimeSpec, Spec

LEMMA RunsCorrect == RuntimeSpec => [](TypeInv /\ HandleInv)
<1>1. RuntimeInit => TypeInv /\ HandleInv
  BY TypeInit, HandleInit DEF RuntimeInit
<1>2. TypeInv /\ HandleInv /\ [RuntimeNext]_processVars => TypeInv' /\ HandleInv'
  BY RuntimeStepIsSchedulerStep, TypeStep, HandleStep DEF HandleInv
<1> QED BY <1>1, <1>2, PTL DEF RuntimeSpec

(* While the process serves, every tracked run is at work on its item, not *)
(* stopped, and will deliver its last event; the one exception is an event *)
(* that met a nil emit.                                                    *)
THEOREM NoRunIsLeftBehind == RuntimeSpec => []NoRunLeftBehind
<1>1. HandleInv => NoRunLeftBehind
  BY DEF HandleInv
<1> QED BY <1>1, RunsCorrect, PTL

-----------------------------------------------------------------------------
(* Start-up and shutdown.                                                  *)

(* Only a step of the scheduler after the clean-up puts a run to work.     *)
LEMMA AliveStep ==
  ASSUME TypeInv, TypeInv', WorkOK, [RuntimeNext]_processVars, Alive'
  PROVE  Alive \/ life \in {"assembling", "up", "closing"}
<1> SUFFICES ASSUME ~Alive, life \notin {"assembling", "up", "closing"} PROVE FALSE
  OBVIOUS
<1>1. \A r \in Run : ~AtWork(r)
  BY DEF Alive
<1>2. ~Schedules
  <2> SUFFICES ASSUME Schedules PROVE FALSE
    OBVIOUS
  <2>1. CASE StopsSome
    BY <1>1, <2>1 DEF StopsSome, StopRuns, Alive, AtWork
  <2>2. CASE StartsRun
    BY <2>2 DEF StartsRun, StartRun
  <2> QED BY <2>1, <2>2, SchedulesEffect
<1>3. \A r \in Run : ~(WorkerStep(r) \/ Progress(r) \/ Report(r) \/ ReportDropped(r))
  BY <1>1, WorkerEffect DEF Progress, Report, ReportDropped, Phased
<1>4. UNCHANGED work
  BY <1>2, <1>3 DEF RuntimeNext, Process, StoreOpens, StoreFails, SettingsRead,
     StartUpFails, CleanupDone, SetEmit, Interrupt, CloseService, CloseWorkers,
     CloseStore, Lives, Over, processVars, workerVars
<1> QED BY <1>1, <1>4 DEF Alive, AtWork

LEMMA LifeStep ==
  TypeInv /\ TypeInv' /\ HandleInv /\ LifeInv /\ [RuntimeNext]_processVars => LifeInv'
<1> SUFFICES ASSUME TypeInv, TypeInv', HandleInv, LifeInv, [RuntimeNext]_processVars
             PROVE  LifeInv'
  OBVIOUS
<1>1. CASE Process
  BY <1>1 DEF Process, StoreOpens, StoreFails, SettingsRead, StartUpFails, CleanupDone,
     SetEmit, Interrupt, CloseService, CloseWorkers, CloseStore, Lives, Close, vars,
     LifeInv, Alive, AtWork
<1>2. CASE ~Process
  <2>1. UNCHANGED <<root, life, open, closed>>
    <3>1. CASE Schedules
      BY <3>1, SchedulesEffect
    <3>2. ASSUME NEW r \in Run, WorkerStep(r) PROVE UNCHANGED <<root, life, open, closed>>
      BY <3>2, WorkerEffect DEF HandleInv, vars
    <3>3. ASSUME NEW r \in Run, Progress(r) \/ Report(r) \/ ReportDropped(r)
          PROVE  UNCHANGED <<root, life, open, closed>>
      BY <3>3 DEF Progress, Report, ReportDropped, RunProgress, RunUnknown, RunFailed,
         RunCompleted, workerVars, vars
    <3> QED BY <1>2, <3>1, <3>2, <3>3
        DEF RuntimeNext, Over, processVars, vars, workerVars
  <2>2. Alive' => Alive \/ life \in {"assembling", "up", "closing"}
    BY AliveStep DEF HandleInv
  <2> QED BY <2>1, <2>2 DEF LifeInv
<1> QED BY <1>1, <1>2

(* Once Runtime.Close has returned, or the start has failed, nothing is    *)
(* left: no goroutine of a run, no store, no HTTP server.                  *)
THEOREM NothingIsLeftAfterClose == RuntimeSpec => []NothingOutlivesClose
<1>1. RuntimeInit => LifeInv
  BY DEF RuntimeInit, LifeInv, Alive, AtWork
<1>2. LifeInv => NothingOutlivesClose
  BY DEF LifeInv, NothingOutlivesClose, Alive
<1> QED BY <1>1, <1>2, LifeStep, RunsCorrect, PTL DEF RuntimeSpec

(* What holds of the scheduler holds of it in the process.                 *)
THEOREM ProcessKeepsScheduling ==
  RuntimeSpec => []MapsAgree /\ []CapacityRespected /\ HostFilledByEventsOnly
                 /\ ClosedStartsNothing
BY ProcessIsAScheduler, MapsCorrect, CapacityHolds, HostsFilledByEventsOnly,
   ClosedStartsNothingHolds, PTL
=============================================================================
