------------------------------ MODULE Scheduler ------------------------------
(***************************************************************************)
(* The scheduling state of internal/orchestrator: which work items are     *)
(* claimed, running or waiting for a retry, and the retry timers behind    *)
(* them (state.go and the retry part of service.go).                       *)
(*                                                                         *)
(* All handlers run under service.mu.  The poll cycle holds it while it    *)
(* calls the tracker and the workers, so its stages are separate steps     *)
(* (stage) during which no other handler runs, but retry timers go on      *)
(* firing and time goes on passing.  The other handlers are one step each. *)
(* What the tracker answers is chosen at every call: items may change      *)
(* between any two calls.                                                  *)
(***************************************************************************)
EXTENDS HostSelection

CONSTANTS
  Item,           (* work items known to the tracker                        *)
  State,          (* normalized tracker state names                         *)
  ActiveState,    (* provider.active_states                                 *)
  TerminalState,  (* provider.terminal_states                               *)
  View,           (* what the tracker may say of an item, see below         *)
  Missing,        (* the tracker does not return the item                   *)
  MaxConcurrent,  (* agent.max_concurrent_agents                            *)
  StateLimit,     (* agent.max_concurrent_agents_by_state, 0 for no limit   *)
  StallRecovery,  (* codex.stall_timeout_ms > 0                             *)
  MaxAttempt,     (* bound: attempts from here on are counted as this one   *)
  Nonce,          (* bound: names for the retry nonces of one item          *)
  MaxBlocked,     (* bound: callbacks per item that wait for the mutex      *)
  NoRun, NoRetry, NoTimer  (* absent map entries                            *)

(* A view abstracts a domain.WorkItem: its state, whether it is routed to  *)
(* this worker, and whether it is ready, i.e. has all required fields and  *)
(* is not a Todo item with an open blocker (isRetryCandidate asks for both *)
(* at once and nothing else does).                                         *)
ViewType == [state : State, routable : BOOLEAN, ready : BOOLEAN]

RunType == [state : State, attempt : 0..MaxAttempt, host : HostName,
            quiet : BOOLEAN]
RetryType == [attempt : 1..MaxAttempt, host : HostName, nonce : Nonce]

ASSUME SchedulerAssumption ==
  /\ View \subseteq ViewType
  /\ Missing \notin View
  /\ MaxConcurrent \in Nat \ {0}
  /\ StateLimit \in [State -> Nat]
  /\ StallRecovery \in BOOLEAN
  /\ MaxAttempt \in Nat \ {0}
  /\ MaxBlocked \in Nat \ {0}
  /\ NoRun \notin RunType
  /\ NoRetry \notin RetryType
  /\ NoTimer \notin Nonce

VARIABLES
  claimed,      (* schedulerState.claimed: ids reserved by this orchestrator *)
  running,      (* schedulerState.running: a run record, or NoRun            *)
  retrying,     (* schedulerState.retrying: a retry record, or NoRetry       *)
  retryTimers,  (* service.retryTimers: the nonce, or NoTimer                *)
  armed,        (* <<item, nonce>> of retry timers that have not fired       *)
  fired,        (* <<item, nonce>> of callbacks that wait for the mutex      *)
  workers,      (* items with a worker started, not ended and not stopped,   *)
                (* as the scheduler believes (Runtime has the goroutines)    *)
  stage,        (* where the poll cycle is; "idle" when the mutex is free    *)
  queue,        (* listed candidates the cycle has not considered yet        *)
  closed        (* service.closed                                            *)

vars == <<claimed, running, retrying, retryTimers, armed, fired, workers,
          stage, queue, closed>>

-----------------------------------------------------------------------------
(* Reading the state                                                       *)

IsRunning(i) == running[i] # NoRun
IsRetrying(i) == retrying[i] # NoRetry
RunningItems == {i \in Item : IsRunning(i)}
RunningOn(h) == {i \in RunningItems : running[i].host = h}
RunningInState(s) == {i \in RunningItems : running[i].state = s}

(* hostLoads: computed from the running entries.                           *)
Load == [h \in HostSet |-> Cardinality(RunningOn(h))]

IsTerminal(view) == view.state \in TerminalState
IsActive(view) == view.state \in ActiveState

IsRetryCandidate(view) ==
  ~IsTerminal(view) /\ IsActive(view) /\ view.routable /\ view.ready

(* Altered: one run more than the limit.                                   *)
SlotFreeOrFull == Cardinality(RunningItems) <= MaxConcurrent

SlotFree == Cardinality(RunningItems) < MaxConcurrent
StateSlotFree(s) ==
  StateLimit[s] > 0 => Cardinality(RunningInState(s)) < StateLimit[s]

ShouldDispatch(i, view) ==
  /\ IsRetryCandidate(view)
  /\ i \notin claimed
  /\ ~IsRunning(i)
  /\ SlotFree
  /\ StateSlotFree(view.state)

-----------------------------------------------------------------------------
(* Retry entries.  scheduleContinuationRetry and scheduleFailureRetry take *)
(* the next retryNonce; a nonce is only ever compared with nonces of the   *)
(* same item, so here it is one that nothing refers to for that item.      *)

InUse(i) ==
  {n \in Nonce : \/ IsRetrying(i) /\ retrying[i].nonce = n
                 \/ retryTimers[i] = n
                 \/ <<i, n>> \in armed \cup fired}
FreshExists(i) == Nonce \ InUse(i) # {}
Fresh(i) == CHOOSE n \in Nonce : n \notin InUse(i)

Capped(n) == IF n < MaxAttempt THEN n ELSE MaxAttempt

(* nextFailureAttempt; also what dispatchItem does when a start fails.     *)
NextFailureAttempt(current) == IF current > 0 THEN current + 1 ELSE 1

RetryEntry(i, attempt, host) ==
  [attempt |-> Capped(attempt), host |-> host, nonce |-> Fresh(i)]

ContinuationRetry(i, host) == RetryEntry(i, 1, host)
FailureRetry(i, attempt, host) ==
  RetryEntry(i, IF attempt <= 0 THEN 1 ELSE attempt, host)

(* Altered: a timer is kept whichever entry it was armed for.              *)
KeptByItem(timers) ==
  {i \in Item : retrying'[i] # NoRetry /\ timers[i] # NoTimer}

(* syncRetryTimersLocked: stop the timers whose nonce is no longer that of *)
(* a retry entry, arm one for every entry without.  timers is retryTimers  *)
(* as the handler left it.  Callbacks already fired stay blocked.          *)
Kept(timers) ==
  {i \in Item : /\ retrying'[i] # NoRetry
                /\ timers[i] = retrying'[i].nonce}

(* Altered: timers are only added.                                         *)
SyncAddsOnly(timers) ==
  /\ retryTimers' = [i \in Item |-> IF retrying'[i] = NoRetry
                                    THEN NoTimer ELSE retrying'[i].nonce]
  /\ armed' = armed \cup
              {<<i, retrying'[i].nonce>> :
                 i \in {j \in Item \ Kept(timers) : retrying'[j] # NoRetry}}

SyncRetryTimers(timers) ==
  /\ retryTimers' = [i \in Item |-> IF retrying'[i] = NoRetry
                                    THEN NoTimer ELSE retrying'[i].nonce]
  /\ armed' = {a \in armed : a[1] \in Kept(timers)} \cup
              {<<i, retrying'[i].nonce>> :
                 i \in {j \in Item \ Kept(timers) : retrying'[j] # NoRetry}}

-----------------------------------------------------------------------------
(* newService: nothing is claimed; only the poll timer is armed.           *)
Init ==
  /\ claimed = {}
  /\ running = [i \in Item |-> NoRun]
  /\ retrying = [i \in Item |-> NoRetry]
  /\ retryTimers = [i \in Item |-> NoTimer]
  /\ armed = {}
  /\ fired = {}
  /\ workers = {}
  /\ stage = "idle"
  /\ queue = {}
  /\ closed = FALSE

(* dispatchItem, once a host is admitted and startRun has returned.        *)
Start(i, view, attempt, host) ==
  /\ claimed' = claimed \cup {i}
  /\ running' = [running EXCEPT ![i] =
       [state |-> view.state, attempt |-> attempt, host |-> host,
        quiet |-> FALSE]]
  /\ retrying' = [retrying EXCEPT ![i] = NoRetry]
  /\ workers' = workers \cup {i}

(* The same when startRun fails: a retry entry, but no claim.              *)
StartFails(i, attempt, host) ==
  /\ FreshExists(i)
  /\ retrying' = [retrying EXCEPT ![i] =
       FailureRetry(i, NextFailureAttempt(attempt), host)]
  /\ UNCHANGED <<claimed, running, workers>>

Dispatch(i, view, attempt, preferred) ==
  /\ Admits(preferred, Load)
  /\ LET host == Select(preferred, Load)
     IN  Start(i, view, attempt, host) \/ StartFails(i, attempt, host)

-----------------------------------------------------------------------------
(* The poll cycle, handlePollCycle, with the mutex held from BeginCycle to *)
(* EndCycle.                                                               *)

BeginCycle ==
  /\ stage = "idle"
  /\ ~closed
  /\ stage' = "stalled"
  /\ UNCHANGED <<claimed, running, retrying, retryTimers, armed, fired,
                 workers, queue, closed>>

(* reconcileStalled: stop every run without recent activity and retry it;  *)
(* the claim is kept.                                                      *)
Stalled == IF StallRecovery THEN {i \in RunningItems : running[i].quiet}
                            ELSE {}

ReconcileStalled ==
  /\ stage = "stalled"
  /\ \A i \in Stalled : FreshExists(i)
  /\ running' = [i \in Item |-> IF i \in Stalled THEN NoRun ELSE running[i]]
  /\ retrying' = [i \in Item |-> IF i \in Stalled
       THEN FailureRetry(i, NextFailureAttempt(running[i].attempt),
                         running[i].host)
       ELSE retrying[i]]
  /\ workers' = workers \ Stalled
  /\ stage' = "running"
  /\ UNCHANGED <<claimed, retryTimers, armed, fired, queue, closed>>

(* reconcileRunning: runs whose item is gone, terminal, inactive or routed *)
(* elsewhere are invalidated (invalidateRun); the others take the new      *)
(* state.  seen is the answer of one refresh of all running items.         *)
Invalid(seen) ==
  {i \in RunningItems : \/ seen[i] = Missing
                        \/ IsTerminal(seen[i])
                        \/ ~IsActive(seen[i])
                        \/ ~seen[i].routable}

ReconcileRunning ==
  /\ stage = "running"
  /\ \E seen \in [RunningItems -> View \cup {Missing}] :
       LET gone == Invalid(seen)
       IN  /\ running' = [i \in Item |->
                IF i \in RunningItems \ gone
                  THEN [running[i] EXCEPT !.state = seen[i].state]
                  ELSE NoRun]
           /\ claimed' = claimed \ gone
           /\ retrying' = [i \in Item |-> IF i \in gone THEN NoRetry
                                                         ELSE retrying[i]]
           /\ workers' = workers \ gone
  /\ stage' = "list"
  /\ UNCHANGED <<retryTimers, armed, fired, queue, closed>>

(* The refresh of the running items failed: nothing is reconciled.         *)
ReconcileRefreshFails ==
  /\ stage = "running"
  /\ stage' = "list"
  /\ UNCHANGED <<claimed, running, retrying, retryTimers, armed, fired,
                 workers, queue, closed>>

(* listCandidates.  A failed listing dispatches nothing, like an empty     *)
(* one.  Candidates are considered by priority, age and identifier, which  *)
(* tell nothing about their number or state: any order is possible here.   *)
ListCandidates ==
  /\ stage = "list"
  /\ queue' \in SUBSET Item
  /\ stage' = "dispatch"
  /\ UNCHANGED <<claimed, running, retrying, retryTimers, armed, fired,
                 workers, closed>>

(* One turn of the loop of processCandidates.  listed is what the listing  *)
(* said of the item, fresh what revalidateCandidate reads just before the  *)
(* dispatch.                                                               *)
DispatchCandidate(i) ==
  /\ stage = "dispatch"
  /\ i \in queue
  /\ queue' = queue \ {i}
  /\ \E listed \in View : ShouldDispatch(i, listed)
  /\ \E fresh \in View : IsRetryCandidate(fresh) /\ Dispatch(i, fresh, 0, Local)
  /\ UNCHANGED <<retryTimers, armed, fired, stage, closed>>

(* The candidate fails a gate, its revalidation fails, or no host has room. *)
SkipCandidate(i) ==
  /\ stage = "dispatch"
  /\ i \in queue
  /\ queue' = queue \ {i}
  /\ UNCHANGED <<claimed, running, retrying, retryTimers, armed, fired,
                 workers, stage, closed>>

(* Altered: the cycle does not synchronise the retry timers.               *)
EndWithoutSync ==
  /\ stage = "dispatch"
  /\ queue = {}
  /\ stage' = "idle"
  /\ UNCHANGED <<claimed, running, retrying, retryTimers, armed, fired, workers,
                 queue, closed>>

EndCycle ==
  /\ stage = "dispatch"
  /\ queue = {}
  /\ stage' = "idle"
  /\ UNCHANGED <<claimed, running, retrying, fired, workers, queue, closed>>
  /\ SyncRetryTimers(retryTimers)

-----------------------------------------------------------------------------
(* applyRunEvent.  An event finds its entry by item id only and carries    *)
(* the host h of the run that sends it.  That may be a run that was        *)
(* stopped and works on, on another host than the run that is tracked now: *)
(* h is any host here, Runtime has the runs.  Every event ends in          *)
(* syncRetryTimersLocked, whether the service is closed or not.            *)

(* The entry takes the host of any event that names one.                   *)
HostAfter(i, h) == IF h = Local THEN running[i].host ELSE h

RunProgress(i, h) ==
  /\ stage = "idle"
  /\ IsRunning(i)
  /\ running' = [running EXCEPT ![i] = [@ EXCEPT !.quiet = FALSE,
                                                !.host = HostAfter(i, h)]]
  /\ UNCHANGED <<claimed, retrying, fired, workers, stage, queue, closed>>
  /\ SyncRetryTimers(retryTimers)

RunCompleted(i, h) ==
  /\ stage = "idle"
  /\ IsRunning(i)
  /\ FreshExists(i)
  /\ running' = [running EXCEPT ![i] = NoRun]
  /\ retrying' = [retrying EXCEPT ![i] = ContinuationRetry(i, HostAfter(i, h))]
  /\ workers' = workers \ {i}
  /\ UNCHANGED <<claimed, fired, stage, queue, closed>>
  /\ SyncRetryTimers(retryTimers)

RunFailed(i, h) ==
  /\ stage = "idle"
  /\ IsRunning(i)
  /\ FreshExists(i)
  /\ running' = [running EXCEPT ![i] = NoRun]
  /\ retrying' = [retrying EXCEPT ![i] =
       FailureRetry(i, NextFailureAttempt(running[i].attempt),
                    HostAfter(i, h))]
  /\ workers' = workers \ {i}
  /\ UNCHANGED <<claimed, fired, stage, queue, closed>>
  /\ SyncRetryTimers(retryTimers)

(* An event of a run that is not tracked any more.                         *)
RunUnknown(i) ==
  /\ stage = "idle"
  /\ ~IsRunning(i)
  /\ UNCHANGED <<claimed, running, retrying, fired, workers, stage, queue,
                 closed>>
  /\ SyncRetryTimers(retryTimers)

-----------------------------------------------------------------------------
(* Retry timers.                                                           *)

RetryTimerFires(i) ==
  \E n \in Nonce :
    /\ <<i, n>> \in armed
    /\ Cardinality({m \in Nonce : <<i, m>> \in fired}) < MaxBlocked
    /\ armed' = armed \ {<<i, n>>}
    /\ fired' = fired \cup {<<i, n>>}
    /\ UNCHANGED <<claimed, running, retrying, retryTimers, workers, stage,
                   queue, closed>>

(* handleDueRetry on the entry of i, whose deletion is part of every       *)
(* outcome.                                                                *)

(* Altered: the entry goes and the claim stays.                            *)
ReleaseEntryOnly(i) ==
  /\ \E seen \in View \cup {Missing} :
       \/ seen = Missing
       \/ seen # Missing /\ ~IsRetryCandidate(seen)
  /\ retrying' = [retrying EXCEPT ![i] = NoRetry]
  /\ UNCHANGED <<claimed, running, workers>>

(* Missing, terminal or ineligible: the claim is released.                 *)
ReleaseClaim(i) ==
  /\ \E seen \in View \cup {Missing} :
       \/ seen = Missing
       \/ seen # Missing /\ ~IsRetryCandidate(seen)
  /\ claimed' = claimed \ {i}
  /\ retrying' = [retrying EXCEPT ![i] = NoRetry]
  /\ UNCHANGED <<running, workers>>

(* Altered: the postponed attempt counts from one again.                   *)
PostponeAfresh(i) ==
  /\ FreshExists(i)
  /\ retrying' = [retrying EXCEPT ![i] = FailureRetry(i, 1, retrying[i].host)]
  /\ UNCHANGED <<claimed, running, workers>>

(* Backoff advances: the refresh failed, there is no slot, or no host has  *)
(* room.                                                                   *)
Postpone(i) ==
  /\ FreshExists(i)
  /\ retrying' = [retrying EXCEPT ![i] =
       FailureRetry(i, retrying[i].attempt + 1, retrying[i].host)]
  /\ UNCHANGED <<claimed, running, workers>>

Redispatch(i) ==
  \E seen \in View :
    /\ IsRetryCandidate(seen)
    /\ SlotFree
    /\ StateSlotFree(seen.state)
    /\ Dispatch(i, seen, retrying[i].attempt, retrying[i].host)

(* Altered: the callback serves whatever entry the item has.               *)
DueRetryAnyNonce(i, n) ==
  IF IsRetrying(i)
    THEN ReleaseClaim(i) \/ Postpone(i) \/ Redispatch(i)
    ELSE UNCHANGED <<claimed, running, retrying, workers>>

DueRetry(i, n) ==
  IF IsRetrying(i) /\ retrying[i].nonce = n
    THEN ReleaseClaim(i) \/ Postpone(i) \/ Redispatch(i)
    ELSE UNCHANGED <<claimed, running, retrying, workers>>

(* Altered: the callback does not look at closed.                          *)
RetryTickEvenClosed(i, n) ==
  /\ stage = "idle"
  /\ <<i, n>> \in fired
  /\ fired' = fired \ {<<i, n>>}
  /\ DueRetry(i, n)
  /\ SyncRetryTimers([retryTimers EXCEPT ![i] = IF @ = n THEN NoTimer ELSE @])
  /\ UNCHANGED <<stage, queue, closed>>

(* handleRetryTick: nothing after close; else drop the timer handle, serve *)
(* the entry if the nonce is still its own, and synchronise the timers.    *)
RetryTick(i, n) ==
  /\ stage = "idle"
  /\ <<i, n>> \in fired
  /\ fired' = fired \ {<<i, n>>}
  /\ IF closed
       THEN UNCHANGED <<claimed, running, retrying, retryTimers, armed, workers>>
       ELSE /\ DueRetry(i, n)
            /\ SyncRetryTimers([retryTimers EXCEPT ![i] =
                                  IF @ = n THEN NoTimer ELSE @])
  /\ UNCHANGED <<stage, queue, closed>>

-----------------------------------------------------------------------------
(* A run shows no activity for longer than the stall timeout.              *)
GoesQuiet(i) ==
  /\ StallRecovery
  /\ IsRunning(i)
  /\ ~running[i].quiet
  /\ running' = [running EXCEPT ![i].quiet = TRUE]
  /\ UNCHANGED <<claimed, retrying, retryTimers, armed, fired, workers, stage,
                 queue, closed>>

(* close: stop and forget every retry timer; the scheduling maps stay.     *)
Close ==
  /\ stage = "idle"
  /\ ~closed
  /\ closed' = TRUE
  /\ retryTimers' = [i \in Item |-> NoTimer]
  /\ armed' = {}
  /\ UNCHANGED <<claimed, running, retrying, fired, workers, stage, queue>>

CycleStep ==
  \/ ReconcileStalled
  \/ ReconcileRunning
  \/ ReconcileRefreshFails
  \/ ListCandidates
  \/ \E i \in Item : DispatchCandidate(i)
  \/ \E i \in Item : SkipCandidate(i)

Next ==
  \/ BeginCycle
  \/ CycleStep
  \/ EndCycle
  \/ \E i \in Item, h \in HostName : RunProgress(i, h)
  \/ \E i \in Item, h \in HostName : RunCompleted(i, h)
  \/ \E i \in Item, h \in HostName : RunFailed(i, h)
  \/ \E i \in Item : RunUnknown(i)
  \/ \E i \in Item : RetryTimerFires(i)
  \/ \E i \in Item, n \in Nonce : RetryTick(i, n)
  \/ \E i \in Item : GoesQuiet(i)
  \/ Close

Spec == Init /\ [][Next]_vars

-----------------------------------------------------------------------------

TypeOK ==
  /\ claimed \subseteq Item
  /\ running \in [Item -> RunType \cup {NoRun}]
  /\ retrying \in [Item -> RetryType \cup {NoRetry}]
  /\ retryTimers \in [Item -> Nonce \cup {NoTimer}]
  /\ armed \subseteq Item \X Nonce
  /\ fired \subseteq Item \X Nonce
  /\ workers \subseteq Item
  /\ stage \in {"idle", "stalled", "running", "list", "dispatch"}
  /\ queue \subseteq Item
  /\ closed \in BOOLEAN

(* A run is always backed by a claim, and an item is never running and     *)
(* waiting for a retry at once: the two maps of state.go:120-122 that      *)
(* every handler updates separately agree.                                 *)
RunsAreClaimed == \A i \in Item : IsRunning(i) => i \in claimed /\ ~IsRetrying(i)

(* No claim is leaked: shouldDispatch (state.go:273) refuses a claimed     *)
(* item, so one that is neither running nor waiting for a retry would      *)
(* never be worked on again.                                               *)
NoLeakedClaim == \A i \in claimed : IsRunning(i) \/ IsRetrying(i)

(* No worker is orphaned and none is counted twice: the workers that were  *)
(* started and not told to stop are those of the running entries, whichever *)
(* of stall, reconciliation, completion or failure ended the others.       *)
WorkersAreTracked == workers = RunningItems

(* The four maps that every handler updates one after the other            *)
(* (state.go:120-124, and the workers that were started) agree.            *)
MapsAgree == RunsAreClaimed /\ NoLeakedClaim /\ WorkersAreTracked

(* agent.max_concurrent_agents bounds the runs, though three paths start   *)
(* or restart them (state.go:279, state.go:406).                           *)
CapacityRespected == Cardinality(RunningItems) <= MaxConcurrent

(* No retry is lost: while the service is open and the mutex free, every   *)
(* retry entry has a timer armed, or a callback waiting for the mutex,     *)
(* with the nonce handleDueRetry (state.go:383) will accept.  The timers   *)
(* are kept in a map of their own (service.go:24) that syncRetryTimers     *)
(* must bring in line with the entries.                                    *)
RetryNeverLost ==
  stage = "idle" /\ ~closed =>
    \A i \in Item : IsRetrying(i) => <<i, retrying[i].nonce>> \in armed \cup fired

(* No timer outlives its entry: a timer that is still armed when the mutex *)
(* is free will be accepted.  Late callbacks can only be ones that had     *)
(* fired already.                                                          *)
ArmedTimersAreCurrent ==
  stage = "idle" =>
    \A i \in Item, n \in Nonce :
      <<i, n>> \in armed => IsRetrying(i) /\ retrying[i].nonce = n

-----------------------------------------------------------------------------

(* Backoff is not cut short: the retry entry of a claimed item is removed  *)
(* or replaced only by the callback of its own timer, never by a poll      *)
(* cycle, by a late callback of an earlier entry or by an event.           *)
BackoffRespected ==
  [][\A i \in claimed :
       IsRetrying(i) /\ retrying'[i] # retrying[i] =>
         LET own == <<i, retrying[i].nonce>> IN own \in fired /\ own \notin fired']_vars

(* The attempt number of an item under claim.                              *)
AttemptOf(i) == IF IsRunning(i) THEN running[i].attempt ELSE retrying[i].attempt

(* The failure lineage survives: while an item stays claimed its attempt   *)
(* goes down only when a run completes normally, not through a stall, a    *)
(* failed refresh, a full host or a redispatch.                            *)
LineageKept ==
  [][\A i \in claimed \cap claimed' :
       AttemptOf(i)' < AttemptOf(i) => \E h \in HostName : RunCompleted(i, h)]_vars

(* No run is put on a host that is full by the running entries, whichever  *)
(* path starts it and whatever host it prefers, and a host is never filled *)
(* beyond worker.max_concurrent_agents_per_host except by an event that    *)
(* moves an entry (state.go:338): one of a stopped run that works on can   *)
(* put two entries on a host for one, where the limit holds no longer.     *)
HostFilledByEventsOnly ==
  [][\A h \in HostSet :
       /\ MaxPerHost # Unlimited
       /\ Cardinality(RunningOn(h)') > Cardinality(RunningOn(h))
       /\ Cardinality(RunningOn(h)') > MaxPerHost
       => \E i \in Item : RunProgress(i, h)]_vars

(* A closed service starts nothing, whatever callbacks were waiting for    *)
(* the mutex when it was closed.                                           *)
ClosedStartsNothing == [][closed => workers' \subseteq workers]_vars

(* "it MUST dispatch only items that satisfy the approved ... concurrency  *)
(* gates" (runtime-orchestrator specification): a run that is started does *)
(* not exceed the limit of the state it is started in.  processCandidates  *)
(* checks the limit of the listed state (state.go:282) and dispatches the  *)
(* revalidated item without checking again.                                *)
StateLimitAtDispatch ==
  [][\A i \in Item, s \in State :
       /\ ~IsRunning(i)
       /\ IsRunning(i)'
       /\ running'[i].state = s
       /\ StateLimit[s] > 0
       => Cardinality(RunningInState(s)') <= StateLimit[s]]_vars
=============================================================================
