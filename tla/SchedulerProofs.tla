--------------------------- MODULE SchedulerProofs ---------------------------
(***************************************************************************)
(* Proofs of the scheduler's safety properties for every set of items,     *)
(* every configuration and every bound.  The inductive invariants are      *)
(* built in layers, types, agreement of the maps, slots, each used by the  *)
(* next, and last the map of the retry timers; what host selection         *)
(* guarantees comes first.                                                 *)
(***************************************************************************)
EXTENDS Scheduler, LoopTheorems, FiniteSetTheorems, TLAPS

-----------------------------------------------------------------------------
(* Host selection, for every list of hosts, every limit and every load.    *)

(* The least loaded host of host_selection.go:27-42 exists and has room     *)
(* whenever some configured host has.                                      *)
LEMMA LeastLoadedIsOpen ==
  ASSUME NEW load \in [HostSet -> Nat], Open(load) # {}
  PROVE  \E k \in Open(load) : LeastLoaded(load) = Hosts[k]
<1>1. Open(load) \subseteq DOMAIN Hosts /\ DOMAIN Hosts \subseteq Nat
  BY HostAssumption DEF Open
<1>2. \A k \in DOMAIN Hosts : Hosts[k] \in HostSet
  BY DEF HostSet
<1> DEFINE Loads == {load[Hosts[k]] : k \in Open(load)}
<1>3. Loads \in SUBSET Nat /\ Loads # {}
  BY <1>1, <1>2
<1>4. PICK low \in Loads : \A m \in Loads : low <= m
  BY <1>3, LeastNatural
<1> DEFINE Best == {k \in Open(load) : load[Hosts[k]] = low}
<1>5. Best \in SUBSET Nat /\ Best # {}
  BY <1>1, <1>4
<1>6. PICK first \in Best : \A j \in Best : first <= j
  BY <1>5, LeastNatural
<1>7. \A j \in Open(load) : ~Beats(load, j, first)
  <2> TAKE j \in Open(load)
  <2>1. load[Hosts[j]] \in Nat /\ j \in Nat /\ first \in Nat /\ low \in Nat
    BY <1>1, <1>2, <1>3, <1>6
  <2>2. low <= load[Hosts[j]] /\ load[Hosts[first]] = low
    BY <1>4, <1>6
  <2>3. load[Hosts[j]] = low => first <= j
    BY <1>6
  <2> QED BY <2>1, <2>2, <2>3 DEF Beats
<1>8. \E k \in Open(load) : \A j \in Open(load) : ~Beats(load, j, k)
  BY <1>6, <1>7
<1> QED BY <1>8 DEF LeastLoaded

(* An admitted run gets a configured host with room, or the local machine  *)
(* exactly when no host is configured.                                     *)
THEOREM SelectHasRoom ==
  ASSUME NEW load \in [HostSet -> Nat], NEW preferred, Admits(preferred, load)
  PROVE  /\ Select(preferred, load) \in HostName
         /\ Select(preferred, load) \in HostSet =>
              HasCapacity(load[Select(preferred, load)])
         /\ Select(preferred, load) = Local <=> Hosts = <<>>
<1>1. CASE Hosts = <<>>
  BY <1>1, HostAssumption DEF Select, HostName, HostSet
<1>2. CASE /\ Hosts # <<>>
           /\ preferred \in HostSet
           /\ HasCapacity(load[preferred])
  BY <1>2, HostAssumption DEF Select, HostName
<1>3. CASE /\ Hosts # <<>>
           /\ ~(preferred \in HostSet /\ HasCapacity(load[preferred]))
  <2>1. Select(preferred, load) = LeastLoaded(load) /\ Open(load) # {}
    BY <1>3 DEF Select, Admits
  <2>2. PICK k \in Open(load) : LeastLoaded(load) = Hosts[k]
    BY <2>1, LeastLoadedIsOpen
  <2>3. Hosts[k] \in HostSet /\ HasCapacity(load[Hosts[k]])
    BY <2>2 DEF Open, HostSet
  <2> QED BY <1>3, <2>1, <2>2, <2>3, HostAssumption DEF HostName
<1> QED BY <1>1, <1>2, <1>3

-----------------------------------------------------------------------------
(* Types, and the agreement of the maps.                                   *)

(* A new nonce is a nonce that the item does not use.                      *)
LEMMA FreshNonce ==
  ASSUME NEW i, FreshExists(i)
  PROVE  Fresh(i) \in Nonce /\ Fresh(i) \notin InUse(i)
BY DEF FreshExists, Fresh

(* Retry entries are well formed whatever the attempt they continue.       *)
LEMMA RetryEntryType ==
  ASSUME NEW i, FreshExists(i), NEW attempt \in Nat, NEW host \in HostName
  PROVE  /\ FailureRetry(i, attempt, host) \in RetryType
         /\ ContinuationRetry(i, host) \in RetryType
<1>1. Fresh(i) \in Nonce
  BY FreshNonce
<1>2. \A n \in Nat \ {0} : Capped(n) \in 1..MaxAttempt
  BY SchedulerAssumption DEF Capped
<1> QED
  BY <1>1, <1>2 DEF FailureRetry, ContinuationRetry, RetryEntry, RetryType

LEMMA NextFailureAttemptType ==
  ASSUME NEW n \in Nat
  PROVE  NextFailureAttempt(n) \in Nat \ {0}
BY DEF NextFailureAttempt

-----------------------------------------------------------------------------
(* Types.  The loads given to host selection are numbers because only      *)
(* finitely many items run.                                                *)

TypeInv == TypeOK /\ IsFiniteSet(RunningItems)

LEMMA LoadType ==
  ASSUME IsFiniteSet(RunningItems)
  PROVE  Load \in [HostSet -> Nat]
<1>1. \A h \in HostSet : RunningOn(h) \in SUBSET RunningItems
  BY DEF RunningOn
<1>2. \A h \in HostSet : Cardinality(RunningOn(h)) \in Nat
  BY <1>1, FS_Subset, FS_CardinalityType
<1> QED BY <1>2 DEF Load

(* What a dispatch may change: it starts a run on an admitted host, or     *)
(* leaves a retry entry.                                                   *)
LEMMA DispatchEffect ==
  ASSUME TypeInv, NEW i \in Item, NEW view \in View, NEW attempt \in 0..MaxAttempt,
         NEW preferred, Dispatch(i, view, attempt, preferred)
  PROVE  LET host == Select(preferred, Load)
         IN  \/ Start(i, view, attempt, host) /\ running'[i] \in RunType
             \/ StartFails(i, attempt, host) /\ retrying'[i] \in RetryType
<1> DEFINE host == Select(preferred, Load)
<1>1. host \in HostName
  BY LoadType, SelectHasRoom DEF TypeInv, Dispatch
<1>2. attempt \in Nat /\ view.state \in State
  BY SchedulerAssumption DEF ViewType
<1>3. ASSUME Start(i, view, attempt, host) PROVE running'[i] \in RunType
  <2>1. [state |-> view.state, attempt |-> attempt, host |-> host,
         quiet |-> FALSE] \in RunType
    BY <1>1, <1>2 DEF RunType
  <2> QED BY <1>3, <2>1 DEF Start, TypeInv, TypeOK
<1>4. ASSUME StartFails(i, attempt, host) PROVE retrying'[i] \in RetryType
  <2>1. FailureRetry(i, NextFailureAttempt(attempt), host) \in RetryType
    BY <1>1, <1>2, <1>4, NextFailureAttemptType, RetryEntryType DEF StartFails
  <2> QED BY <1>4, <2>1 DEF StartFails, TypeInv, TypeOK
<1> QED BY <1>3, <1>4 DEF Dispatch

LEMMA DispatchType ==
  ASSUME TypeInv, NEW i \in Item, NEW view \in View, NEW attempt \in 0..MaxAttempt,
         NEW preferred, Dispatch(i, view, attempt, preferred)
  PROVE  /\ claimed' \subseteq Item
         /\ running' \in [Item -> RunType \cup {NoRun}]
         /\ retrying' \in [Item -> RetryType \cup {NoRetry}]
         /\ workers' \subseteq Item
         /\ IsFiniteSet(RunningItems')
<1> DEFINE host == Select(preferred, Load)
<1>1. CASE Start(i, view, attempt, host) /\ running'[i] \in RunType
  <2>1. RunningItems' \in SUBSET (RunningItems \cup {i})
    BY <1>1 DEF Start, RunningItems, IsRunning, TypeInv, TypeOK
  <2>2. IsFiniteSet(RunningItems')
    BY <2>1, FS_AddElement, FS_Subset DEF TypeInv
  <2> QED BY <1>1, <2>2 DEF Start, TypeInv, TypeOK
<1>2. CASE StartFails(i, attempt, host) /\ retrying'[i] \in RetryType
  <2>1. RunningItems' = RunningItems
    BY <1>2 DEF StartFails, RunningItems, IsRunning
  <2> QED BY <1>2, <2>1 DEF StartFails, TypeInv, TypeOK
<1> QED BY <1>1, <1>2, DispatchEffect

(* syncRetryTimersLocked keeps the timers well typed.                      *)
LEMMA SyncType ==
  ASSUME retrying' \in [Item -> RetryType \cup {NoRetry}],
         armed \subseteq Item \X Nonce, NEW timers, SyncRetryTimers(timers)
  PROVE  /\ retryTimers' \in [Item -> Nonce \cup {NoTimer}]
         /\ armed' \subseteq Item \X Nonce
<1>1. \A i \in Item : retrying'[i] # NoRetry => retrying'[i].nonce \in Nonce
  BY DEF RetryType
<1> QED BY <1>1 DEF SyncRetryTimers

LEMMA TypeInit == Init => TypeInv
<1> SUFFICES ASSUME Init PROVE TypeInv
  OBVIOUS
<1>1. RunningItems = {}
  BY DEF Init, RunningItems, IsRunning
<1> QED BY <1>1, FS_EmptySet DEF Init, TypeInv, TypeOK

LEMMA TypeStep == TypeInv /\ [Next]_vars => TypeInv'
<1> SUFFICES ASSUME TypeInv, [Next]_vars PROVE TypeInv'
  OBVIOUS
<1> USE DEF TypeInv
(* Fewer items run after the step: enough for all steps but dispatches.    *)
<1>a. ASSUME RunningItems' \subseteq RunningItems PROVE IsFiniteSet(RunningItems')
  BY <1>a, FS_Subset
<1>1. CASE BeginCycle
  BY <1>1, <1>a DEF BeginCycle, TypeOK, RunningItems, IsRunning
<1>2. CASE ReconcileStalled
  <2>1. \A i \in Stalled : /\ i \in Item
                           /\ running[i] \in RunType
    BY DEF Stalled, RunningItems, IsRunning, TypeOK
  <2>2. \A i \in Stalled :
          FailureRetry(i, NextFailureAttempt(running[i].attempt),
                       running[i].host) \in RetryType
    <3> TAKE i \in Stalled
    <3>1. running[i].attempt \in Nat /\ running[i].host \in HostName
      BY <2>1, SchedulerAssumption DEF RunType
    <3>2. FreshExists(i)
      BY <1>2 DEF ReconcileStalled
    <3> QED BY <3>1, <3>2, NextFailureAttemptType, RetryEntryType
  <2>3. RunningItems' \subseteq RunningItems
    BY <1>2 DEF ReconcileStalled, RunningItems, IsRunning
  <2> QED BY <1>2, <1>a, <2>2, <2>3 DEF ReconcileStalled, TypeOK
<1>3. CASE ReconcileRunning
  <2>1. PICK seen \in [RunningItems -> View \cup {Missing}] :
          /\ running' = [i \in Item |->
               IF i \in RunningItems \ Invalid(seen)
                 THEN [running[i] EXCEPT !.state = seen[i].state]
                 ELSE NoRun]
          /\ claimed' = claimed \ Invalid(seen)
          /\ retrying' = [i \in Item |-> IF i \in Invalid(seen) THEN NoRetry
                                                        ELSE retrying[i]]
          /\ workers' = workers \ Invalid(seen)
    BY <1>3 DEF ReconcileRunning
  <2>2. \A i \in RunningItems \ Invalid(seen) :
          [running[i] EXCEPT !.state = seen[i].state] \in RunType
    <3> TAKE i \in RunningItems \ Invalid(seen)
    <3>1. running[i] \in RunType
      BY DEF RunningItems, IsRunning, TypeOK
    <3>2. seen[i] \in View
      BY DEF Invalid
    <3>3. seen[i].state \in State
      BY <3>2, SchedulerAssumption DEF ViewType
    <3> QED BY <3>1, <3>3 DEF RunType
  <2>3. RunningItems' \subseteq RunningItems
    BY <2>1 DEF RunningItems, IsRunning
  <2> QED BY <1>3, <1>a, <2>1, <2>2, <2>3 DEF ReconcileRunning, TypeOK
<1>4. CASE ReconcileRefreshFails
  BY <1>4, <1>a DEF ReconcileRefreshFails, TypeOK, RunningItems, IsRunning
<1>5. CASE ListCandidates
  BY <1>5, <1>a DEF ListCandidates, TypeOK, RunningItems, IsRunning
<1>6. ASSUME NEW i \in Item, DispatchCandidate(i) PROVE TypeInv'
  <2>1. PICK fresh \in View : Dispatch(i, fresh, 0, Local)
    BY <1>6 DEF DispatchCandidate
  <2>2. 0 \in 0..MaxAttempt
    BY SchedulerAssumption
  <2> QED BY <1>6, <2>1, <2>2, DispatchType DEF DispatchCandidate, TypeOK
<1>7. ASSUME NEW i \in Item, SkipCandidate(i) PROVE TypeInv'
  BY <1>7, <1>a DEF SkipCandidate, TypeOK, RunningItems, IsRunning
<1>8. CASE EndCycle
  BY <1>8, <1>a, SyncType DEF EndCycle, TypeOK, RunningItems, IsRunning
<1>9. ASSUME NEW i \in Item, NEW h \in HostName, RunProgress(i, h) PROVE TypeInv'
  <2> DEFINE run == [running[i] EXCEPT !.quiet = FALSE, !.host = HostAfter(i, h)]
  <2>1. running[i] \in RunType
    BY <1>9 DEF RunProgress, IsRunning, TypeOK
  <2>2. run \in RunType
    BY <2>1 DEF HostAfter, RunType
  <2>3. running' = [running EXCEPT ![i] = run]
    BY <1>9 DEF RunProgress
  <2> HIDE DEF run
  <2>4. RunningItems' \subseteq RunningItems
    BY <1>9, <2>3 DEF RunProgress, RunningItems, IsRunning, TypeOK
  <2> QED BY <1>9, <1>a, <2>2, <2>3, <2>4, SyncType DEF RunProgress, TypeOK
<1>10. ASSUME NEW i \in Item, NEW h \in HostName, RunCompleted(i, h) \/ RunFailed(i, h)
       PROVE  TypeInv'
  <2>1. /\ running[i] \in RunType
        /\ running[i].attempt \in Nat /\ HostAfter(i, h) \in HostName
    BY <1>10, SchedulerAssumption
    DEF RunCompleted, RunFailed, IsRunning, TypeOK, RunType, HostAfter
  <2>2. /\ ContinuationRetry(i, HostAfter(i, h)) \in RetryType
        /\ FailureRetry(i, NextFailureAttempt(running[i].attempt),
                        HostAfter(i, h)) \in RetryType
    BY <1>10, <2>1, NextFailureAttemptType, RetryEntryType
    DEF RunCompleted, RunFailed
  <2>3. retrying' \in [Item -> RetryType \cup {NoRetry}]
    BY <1>10, <2>2 DEF RunCompleted, RunFailed, TypeOK
  <2>4. RunningItems' \subseteq RunningItems
    BY <1>10 DEF RunCompleted, RunFailed, RunningItems, IsRunning, TypeOK
  <2>5. /\ retryTimers' \in [Item -> Nonce \cup {NoTimer}]
        /\ armed' \subseteq Item \X Nonce
    BY <1>10, <2>3, SyncType DEF RunCompleted, RunFailed, TypeOK
  <2> QED BY <1>10, <1>a, <2>3, <2>4, <2>5 DEF RunCompleted, RunFailed, TypeOK
<1>11. ASSUME NEW i \in Item, RunUnknown(i) PROVE TypeInv'
  BY <1>11, <1>a, SyncType DEF RunUnknown, TypeOK, RunningItems, IsRunning
<1>12. ASSUME NEW i \in Item, RetryTimerFires(i) PROVE TypeInv'
  BY <1>12, <1>a DEF RetryTimerFires, TypeOK, RunningItems, IsRunning
<1>13. ASSUME NEW i \in Item, NEW n \in Nonce, RetryTick(i, n) PROVE TypeInv'
  <2>1. CASE closed
    BY <1>13, <1>a, <2>1 DEF RetryTick, TypeOK, RunningItems, IsRunning
  <2>2. CASE ~closed
    <3>1. /\ claimed' \subseteq Item
          /\ running' \in [Item -> RunType \cup {NoRun}]
          /\ retrying' \in [Item -> RetryType \cup {NoRetry}]
          /\ workers' \subseteq Item
          /\ IsFiniteSet(RunningItems')
      <4>1. CASE ~(IsRetrying(i) /\ retrying[i].nonce = n)
        BY <1>13, <1>a, <2>2, <4>1
        DEF RetryTick, DueRetry, TypeOK, RunningItems, IsRunning
      <4>2. CASE IsRetrying(i) /\ retrying[i].nonce = n
        <5>1. retrying[i] \in RetryType
          BY <4>2 DEF IsRetrying, TypeOK
        <5>2. /\ retrying[i].attempt \in 0..MaxAttempt
              /\ retrying[i].attempt + 1 \in Nat
              /\ retrying[i].host \in HostName
          BY <5>1, SchedulerAssumption DEF RetryType
        <5>3. CASE ReleaseClaim(i)
          BY <1>a, <5>3 DEF ReleaseClaim, TypeOK, RunningItems, IsRunning
        <5>4. CASE Postpone(i)
          <6>1. FailureRetry(i, retrying[i].attempt + 1, retrying[i].host)
                  \in RetryType
            BY <5>2, <5>4, RetryEntryType DEF Postpone
          <6> QED BY <1>a, <5>4, <6>1 DEF Postpone, TypeOK, RunningItems, IsRunning
        <5>5. CASE Redispatch(i)
          BY <5>2, <5>5, DispatchType DEF Redispatch
        <5> QED BY <1>13, <2>2, <4>2, <5>3, <5>4, <5>5 DEF RetryTick, DueRetry
      <4> QED BY <4>1, <4>2
    <3>2. /\ retryTimers' \in [Item -> Nonce \cup {NoTimer}]
          /\ armed' \subseteq Item \X Nonce
      BY <1>13, <2>2, <3>1, SyncType DEF RetryTick, TypeOK
    <3> QED BY <1>13, <3>1, <3>2 DEF RetryTick, TypeOK
  <2> QED BY <2>1, <2>2
<1>14. ASSUME NEW i \in Item, GoesQuiet(i) PROVE TypeInv'
  <2>1. running[i] \in RunType
    BY <1>14 DEF GoesQuiet, IsRunning, TypeOK
  <2>2. [running[i] EXCEPT !.quiet = TRUE] \in RunType
    BY <2>1 DEF RunType
  <2>3. running' = [running EXCEPT ![i] = [running[i] EXCEPT !.quiet = TRUE]]
    BY <1>14 DEF GoesQuiet
  <2>4. RunningItems' \subseteq RunningItems
    BY <1>14, <2>3 DEF GoesQuiet, RunningItems, IsRunning, TypeOK
  <2> QED BY <1>14, <1>a, <2>2, <2>3, <2>4 DEF GoesQuiet, TypeOK
<1>15. CASE Close
  BY <1>15, <1>a DEF Close, TypeOK, RunningItems, IsRunning
<1>16. CASE UNCHANGED vars
  BY <1>16, <1>a DEF vars, TypeOK, RunningItems, IsRunning
<1> QED
  BY <1>1, <1>2, <1>3, <1>4, <1>5, <1>6, <1>7, <1>8, <1>9, <1>10, <1>11, <1>12,
     <1>13, <1>14, <1>15, <1>16 DEF Next, CycleStep

(* Every reachable state is well typed and only finitely many items run.   *)
THEOREM TypeCorrect == Spec => []TypeInv
BY TypeInit, TypeStep, PTL DEF Spec

-----------------------------------------------------------------------------
(* Agreement of the maps.                                                  *)

(* A dispatch of an item that is not running keeps the maps in agreement.  *)
LEMMA DispatchAgrees ==
  ASSUME TypeInv, MapsAgree, NEW i \in Item, ~IsRunning(i), NEW view \in View,
         NEW attempt \in 0..MaxAttempt, NEW preferred,
         Dispatch(i, view, attempt, preferred)
  PROVE  MapsAgree'
<1> DEFINE host == Select(preferred, Load)
<1> USE SchedulerAssumption
    DEF TypeInv, TypeOK, MapsAgree, RunsAreClaimed, NoLeakedClaim,
        WorkersAreTracked, RunningItems, IsRunning, IsRetrying
<1>1. CASE Start(i, view, attempt, host) /\ running'[i] \in RunType
  BY <1>1 DEF Start
<1>2. CASE StartFails(i, attempt, host) /\ retrying'[i] \in RetryType
  BY <1>2 DEF StartFails
<1> QED BY <1>1, <1>2, DispatchEffect

(* Runs that end with a retry entry keep their claim and lose their worker. *)
LEMMA RunsEndAgree ==
  ASSUME TypeInv, TypeInv', MapsAgree, NEW ended \in SUBSET RunningItems,
         \A i \in Item : running'[i] = IF i \in ended THEN NoRun ELSE running[i],
         \A i \in ended : retrying'[i] # NoRetry,
         \A i \in Item \ ended : retrying'[i] = retrying[i],
         claimed' = claimed, workers' = workers \ ended
  PROVE  MapsAgree'
BY DEF TypeInv, TypeOK, MapsAgree, RunsAreClaimed, NoLeakedClaim,
       WorkersAreTracked, RunningItems, IsRunning, IsRetrying

(* The record of a run may change while the run goes on.                   *)
(* What an event that does not end its run, and what silence, do to it.    *)
LEMMA EventEffect ==
  ASSUME TypeInv, NEW i \in Item, NEW h \in HostName, RunProgress(i, h)
  PROVE  \E run \in RunType : /\ run.attempt = running[i].attempt
                              /\ run.host = HostAfter(i, h)
                              /\ running' = [running EXCEPT ![i] = run]
<1> DEFINE run == [running[i] EXCEPT !.quiet = FALSE, !.host = HostAfter(i, h)]
<1>1. running[i] \in RunType
  BY DEF RunProgress, IsRunning, TypeInv, TypeOK
<1>2. run \in RunType /\ run.attempt = running[i].attempt /\ run.host = HostAfter(i, h)
  BY <1>1 DEF HostAfter, RunType
<1>3. running' = [running EXCEPT ![i] = run]
  BY DEF RunProgress
<1> HIDE DEF run
<1> QED BY <1>2, <1>3

LEMMA QuietEffect ==
  ASSUME TypeInv, NEW i \in Item, GoesQuiet(i)
  PROVE  \E run \in RunType : /\ run.attempt = running[i].attempt
                              /\ run.host = running[i].host
                              /\ running' = [running EXCEPT ![i] = run]
<1> DEFINE run == [running[i] EXCEPT !.quiet = TRUE]
<1>1. running[i] \in RunType
  BY DEF GoesQuiet, IsRunning, TypeInv, TypeOK
<1>2. run \in RunType /\ run.attempt = running[i].attempt /\ run.host = running[i].host
  BY <1>1 DEF RunType
<1>3. running' = [running EXCEPT ![i] = run]
  BY DEF GoesQuiet
<1> HIDE DEF run
<1> QED BY <1>2, <1>3

LEMMA RunUpdateAgrees ==
  ASSUME TypeInv, MapsAgree, \A i \in Item : IsRunning(i)' <=> IsRunning(i),
         UNCHANGED <<claimed, retrying, workers>>
  PROVE  MapsAgree'
BY DEF TypeInv, TypeOK, MapsAgree, RunsAreClaimed, NoLeakedClaim, WorkersAreTracked,
       RunningItems, IsRunning, IsRetrying

(* Only an item that waits for its retry can be served by its callback.    *)
LEMMA RetryTickAgrees ==
  ASSUME TypeInv, MapsAgree, NEW i \in Item, NEW n \in Nonce, DueRetry(i, n)
  PROVE  MapsAgree'
<1> USE DEF TypeInv, TypeOK, MapsAgree, RunsAreClaimed, NoLeakedClaim,
        WorkersAreTracked, RunningItems, IsRunning, IsRetrying
<1>1. CASE ~(IsRetrying(i) /\ retrying[i].nonce = n)
  BY <1>1 DEF DueRetry
<1>2. CASE IsRetrying(i) /\ retrying[i].nonce = n
  <2>1. retrying[i] \in RetryType /\ ~IsRunning(i)
    BY <1>2
  <2>2. /\ retrying[i].attempt \in 0..MaxAttempt
        /\ retrying[i].attempt + 1 \in Nat
        /\ retrying[i].host \in HostName
    BY <2>1, SchedulerAssumption DEF RetryType
  <2>3. CASE ReleaseClaim(i)
    BY <2>1, <2>3 DEF ReleaseClaim
  <2>4. CASE Postpone(i)
    <3>1. FailureRetry(i, retrying[i].attempt + 1, retrying[i].host) \in RetryType
      BY <2>2, <2>4, RetryEntryType DEF Postpone
    <3>2. FailureRetry(i, retrying[i].attempt + 1, retrying[i].host) # NoRetry
      BY <3>1, SchedulerAssumption
    <3> QED BY <1>2, <2>4, <3>2 DEF Postpone
  <2>5. CASE Redispatch(i)
    <3>1. PICK seen \in View :
            Dispatch(i, seen, retrying[i].attempt, retrying[i].host)
      BY <2>5 DEF Redispatch
    <3> QED BY <2>1, <2>2, <3>1, DispatchAgrees
  <2> QED BY <1>2, <2>3, <2>4, <2>5 DEF DueRetry
<1> QED BY <1>1, <1>2

LEMMA MapsStep == TypeInv /\ TypeInv' /\ MapsAgree /\ [Next]_vars => MapsAgree'
<1> SUFFICES ASSUME TypeInv, TypeInv', MapsAgree, [Next]_vars PROVE MapsAgree'
  OBVIOUS
<1>a. ASSUME UNCHANGED <<claimed, running, retrying, workers>> PROVE MapsAgree'
  BY <1>a, RunUpdateAgrees DEF IsRunning
<1>1. CASE BeginCycle
  BY <1>1, <1>a DEF BeginCycle
<1>2. CASE ReconcileStalled
  <2>1. Stalled \in SUBSET RunningItems
    BY DEF Stalled
  <2>2. \A i \in Stalled : retrying'[i] # NoRetry
    <3> TAKE i \in Stalled
    <3>1. i \in Item /\ running[i] \in RunType
      BY <2>1 DEF RunningItems, IsRunning, TypeInv, TypeOK
    <3>2. /\ running[i].attempt \in Nat /\ running[i].host \in HostName
          /\ FreshExists(i)
      BY <1>2, <3>1, SchedulerAssumption DEF ReconcileStalled, RunType
    <3>3. FailureRetry(i, NextFailureAttempt(running[i].attempt),
                       running[i].host) # NoRetry
      BY <3>2, NextFailureAttemptType, RetryEntryType, SchedulerAssumption
    <3> QED BY <1>2, <3>1, <3>3 DEF ReconcileStalled
  <2>3. /\ \A i \in Item :
             running'[i] = IF i \in Stalled THEN NoRun ELSE running[i]
        /\ \A i \in Item \ Stalled : retrying'[i] = retrying[i]
        /\ claimed' = claimed /\ workers' = workers \ Stalled
    BY <1>2 DEF ReconcileStalled
  <2> HIDE DEF Stalled
  <2> QED BY <2>1, <2>2, <2>3, RunsEndAgree
<1>3. CASE ReconcileRunning
  <2>1. PICK seen \in [RunningItems -> View \cup {Missing}] :
          /\ running' = [i \in Item |->
               IF i \in RunningItems \ Invalid(seen)
                 THEN [running[i] EXCEPT !.state = seen[i].state]
                 ELSE NoRun]
          /\ claimed' = claimed \ Invalid(seen)
          /\ retrying' = [i \in Item |-> IF i \in Invalid(seen) THEN NoRetry
                                                        ELSE retrying[i]]
          /\ workers' = workers \ Invalid(seen)
    BY <1>3 DEF ReconcileRunning
  <2>2. Invalid(seen) \subseteq RunningItems
    BY DEF Invalid
  <2>3. \A i \in RunningItems \ Invalid(seen) : running'[i] # NoRun
    <3> TAKE i \in RunningItems \ Invalid(seen)
    <3>1. i \in Item /\ running[i] \in RunType
      BY DEF RunningItems, IsRunning, TypeInv, TypeOK
    <3>2. seen[i] \in View
      BY DEF Invalid
    <3>3. [running[i] EXCEPT !.state = seen[i].state] \in RunType
      BY <3>1, <3>2, SchedulerAssumption DEF RunType, ViewType
    <3>4. [running[i] EXCEPT !.state = seen[i].state] # NoRun
      BY <3>3, SchedulerAssumption
    <3> QED BY <2>1, <3>1, <3>4
  <2>4. RunningItems' = RunningItems \ Invalid(seen)
    BY <2>1, <2>3 DEF RunningItems, IsRunning
  <2> QED BY <2>1, <2>2, <2>4
      DEF MapsAgree, RunsAreClaimed, NoLeakedClaim, WorkersAreTracked,
          RunningItems, IsRunning, IsRetrying, TypeInv, TypeOK
<1>4. CASE ReconcileRefreshFails
  BY <1>4, <1>a DEF ReconcileRefreshFails
<1>5. CASE ListCandidates
  BY <1>5, <1>a DEF ListCandidates
<1>6. ASSUME NEW i \in Item, DispatchCandidate(i) PROVE MapsAgree'
  <2>1. ~IsRunning(i) /\ 0 \in 0..MaxAttempt
    BY <1>6, SchedulerAssumption DEF DispatchCandidate, ShouldDispatch
  <2>2. PICK fresh \in View : Dispatch(i, fresh, 0, Local)
    BY <1>6 DEF DispatchCandidate
  <2> QED BY <2>1, <2>2, DispatchAgrees
<1>7. ASSUME NEW i \in Item, SkipCandidate(i) PROVE MapsAgree'
  BY <1>7, <1>a DEF SkipCandidate
<1>8. CASE EndCycle
  BY <1>8, <1>a DEF EndCycle
<1>9. ASSUME NEW i \in Item, NEW h \in HostName, RunProgress(i, h) \/ GoesQuiet(i)
      PROVE  MapsAgree'
  <2>1. IsRunning(i)
    BY <1>9 DEF RunProgress, GoesQuiet
  <2>2. PICK run \in RunType : running' = [running EXCEPT ![i] = run]
    BY <1>9, EventEffect, QuietEffect
  <2>3. running'[i] # NoRun
    BY <2>2, SchedulerAssumption DEF TypeInv, TypeOK
  <2>4. \A j \in Item : IsRunning(j)' <=> IsRunning(j)
    BY <2>1, <2>2, <2>3 DEF IsRunning, TypeInv, TypeOK
  <2> QED BY <1>9, <2>4, RunUpdateAgrees DEF RunProgress, GoesQuiet
<1>10. ASSUME NEW i \in Item, NEW h \in HostName, RunCompleted(i, h) \/ RunFailed(i, h)
       PROVE  MapsAgree'
  <2>1. running[i] \in RunType /\ IsRunning(i) /\ FreshExists(i)
    BY <1>10 DEF RunCompleted, RunFailed, IsRunning, TypeInv, TypeOK
  <2>2. running[i].attempt \in Nat /\ HostAfter(i, h) \in HostName
    BY <2>1, SchedulerAssumption DEF RunType, HostAfter
  <2>3. /\ ContinuationRetry(i, HostAfter(i, h)) # NoRetry
        /\ FailureRetry(i, NextFailureAttempt(running[i].attempt),
                        HostAfter(i, h)) # NoRetry
    BY <2>1, <2>2, NextFailureAttemptType, RetryEntryType, SchedulerAssumption
  <2>4. retrying'[i] # NoRetry
    BY <1>10, <2>3 DEF RunCompleted, RunFailed, TypeInv, TypeOK
  <2>5. /\ {i} \in SUBSET RunningItems
        /\ \A j \in Item : running'[j] = IF j \in {i} THEN NoRun ELSE running[j]
        /\ \A j \in Item \ {i} : retrying'[j] = retrying[j]
        /\ claimed' = claimed /\ workers' = workers \ {i}
    BY <1>10, <2>1 DEF RunCompleted, RunFailed, RunningItems, TypeInv, TypeOK
  <2> QED BY <2>4, <2>5, RunsEndAgree
<1>11. ASSUME NEW i \in Item, RunUnknown(i) PROVE MapsAgree'
  BY <1>11, <1>a DEF RunUnknown
<1>12. ASSUME NEW i \in Item, RetryTimerFires(i) PROVE MapsAgree'
  BY <1>12, <1>a DEF RetryTimerFires
<1>13. ASSUME NEW i \in Item, NEW n \in Nonce, RetryTick(i, n) PROVE MapsAgree'
  BY <1>13, <1>a, RetryTickAgrees DEF RetryTick
<1>14. CASE Close
  BY <1>14, <1>a DEF Close
<1>15. CASE UNCHANGED vars
  BY <1>15, <1>a DEF vars
<1>16. Local \in HostName
  BY DEF HostName
<1> QED
  BY <1>1, <1>2, <1>3, <1>4, <1>5, <1>6, <1>7, <1>8, <1>9, <1>10, <1>11, <1>12,
     <1>13, <1>14, <1>15, <1>16 DEF Next, CycleStep

(* In every reachable state the claims, the runs, the retry entries and    *)
(* the workers agree.                                                      *)
THEOREM MapsCorrect == Spec => []MapsAgree
<1>1. Init => MapsAgree
  BY DEF Init, MapsAgree, RunsAreClaimed, NoLeakedClaim, WorkersAreTracked,
         RunningItems, IsRunning
<1> QED BY <1>1, TypeCorrect, MapsStep, PTL DEF Spec

-----------------------------------------------------------------------------
(* No slot is given twice: the limits on all runs and on the runs of a     *)
(* host hold whatever the scheduler does, and a closed scheduler starts    *)
(* nothing.  Everything follows from one description of a step: it starts  *)
(* at most one run, and only where there is room.                          *)

(* A set that gains one element at most is at most one larger.             *)
LEMMA OneMore ==
  ASSUME NEW S, IsFiniteSet(S), NEW x, NEW T \in SUBSET (S \cup {x})
  PROVE  Cardinality(T) \in Nat /\ Cardinality(T) <= Cardinality(S) + 1
<1>1. /\ IsFiniteSet(S \cup {x})
      /\ Cardinality(S \cup {x}) =
           IF x \in S THEN Cardinality(S) ELSE Cardinality(S) + 1
  BY FS_AddElement
<1>2. Cardinality(S) \in Nat /\ Cardinality(S \cup {x}) \in Nat
  BY <1>1, FS_CardinalityType
<1>3. /\ IsFiniteSet(T) /\ Cardinality(T) <= Cardinality(S \cup {x})
  BY <1>1, FS_Subset
<1>4. Cardinality(T) \in Nat
  BY <1>3, FS_CardinalityType
<1> QED BY <1>1, <1>2, <1>3, <1>4

(* The runs of the next state were running before ...                      *)
StartsNone == RunningItems' \in SUBSET RunningItems

(* ... on the same host, if no event moves one.                            *)
StaysPut ==
  \A j \in RunningItems' : j \in RunningItems /\ running'[j].host = running[j].host
Moves == StartsNone /\ \E i \in Item, h \in HostName : RunProgress(i, h)

(* One run starts, in a free slot and on the host that Select admits; the  *)
(* service is open or a poll cycle is under way.                           *)
StartsOne ==
  \E i \in Item, view \in View, attempt \in 0..MaxAttempt, preferred \in HostName :
    /\ SlotFree
    /\ Admits(preferred, Load)
    /\ Start(i, view, attempt, Select(preferred, Load))
    /\ ~closed \/ stage = "dispatch"

(* A dispatch in a free slot starts one run, or none when startRun fails.  *)
LEMMA DispatchStarts ==
  ASSUME TypeInv, NEW i \in Item, NEW view \in View, NEW attempt \in 0..MaxAttempt,
         NEW preferred \in HostName, Dispatch(i, view, attempt, preferred),
         SlotFree, ~closed \/ stage = "dispatch"
  PROVE  StaysPut \/ StartsOne
<1> DEFINE host == Select(preferred, Load)
<1>1. CASE Start(i, view, attempt, host)
  BY <1>1 DEF StartsOne, Dispatch
<1>2. CASE StartFails(i, attempt, host)
  BY <1>2 DEF StartFails, StaysPut, RunningItems, IsRunning
<1> QED BY <1>1, <1>2 DEF Dispatch

LEMMA StepStarts == TypeInv /\ [Next]_vars => StaysPut \/ StartsOne \/ Moves
<1> SUFFICES ASSUME TypeInv, [Next]_vars PROVE StaysPut \/ StartsOne \/ Moves
  OBVIOUS
<1>a. ASSUME UNCHANGED running PROVE StaysPut
  BY <1>a DEF StaysPut, RunningItems, IsRunning
<1>1. CASE BeginCycle
  BY <1>1, <1>a DEF BeginCycle
<1>2. CASE ReconcileStalled
  BY <1>2 DEF ReconcileStalled, StaysPut, RunningItems, IsRunning
<1>3. CASE ReconcileRunning
  <2>1. PICK seen \in [RunningItems -> View \cup {Missing}] :
          running' = [i \in Item |->
            IF i \in RunningItems \ Invalid(seen)
              THEN [running[i] EXCEPT !.state = seen[i].state]
              ELSE NoRun]
    BY <1>3 DEF ReconcileRunning
  <2>2. \A j \in RunningItems :
          [running[j] EXCEPT !.state = seen[j].state].host = running[j].host
    BY DEF RunningItems, IsRunning, TypeInv, TypeOK, RunType
  <2>3. \A j \in Item : running'[j] # NoRun =>
          j \in RunningItems /\ running'[j].host = running[j].host
    BY <2>1, <2>2
  <2> QED BY <2>3 DEF StaysPut, RunningItems, IsRunning
<1>4. CASE ReconcileRefreshFails
  BY <1>4, <1>a DEF ReconcileRefreshFails
<1>5. CASE ListCandidates
  BY <1>5, <1>a DEF ListCandidates
<1>6. ASSUME NEW i \in Item, DispatchCandidate(i) PROVE StaysPut \/ StartsOne
  <2>1. SlotFree /\ stage = "dispatch" /\ 0 \in 0..MaxAttempt /\ Local \in HostName
    BY <1>6, SchedulerAssumption DEF DispatchCandidate, ShouldDispatch, HostName
  <2>2. PICK fresh \in View : Dispatch(i, fresh, 0, Local)
    BY <1>6 DEF DispatchCandidate
  <2> QED BY <2>1, <2>2, DispatchStarts
<1>7. ASSUME NEW i \in Item, SkipCandidate(i) PROVE StaysPut
  BY <1>7, <1>a DEF SkipCandidate
<1>8. CASE EndCycle
  BY <1>8, <1>a DEF EndCycle
<1>9. ASSUME NEW i \in Item, NEW h \in HostName, RunProgress(i, h) PROVE Moves
  <2>1. PICK run \in RunType : running' = [running EXCEPT ![i] = run]
    BY <1>9, EventEffect
  <2>2. RunningItems' \in SUBSET RunningItems
    BY <1>9, <2>1 DEF RunProgress, RunningItems, IsRunning, TypeInv, TypeOK
  <2> QED BY <1>9, <2>2 DEF Moves, StartsNone
<1>16. ASSUME NEW i \in Item, GoesQuiet(i) PROVE StaysPut
  <2>1. PICK run \in RunType : /\ run.host = running[i].host
                              /\ running' = [running EXCEPT ![i] = run]
    BY <1>16, QuietEffect
  <2>2. \A j \in Item : running'[j] # NoRun =>
          running[j] # NoRun /\ running'[j].host = running[j].host
    BY <1>16, <2>1 DEF GoesQuiet, TypeInv, TypeOK, IsRunning
  <2> QED BY <2>2 DEF StaysPut, RunningItems, IsRunning
<1>10. ASSUME NEW i \in Item, NEW h \in HostName, RunCompleted(i, h) \/ RunFailed(i, h)
       PROVE  StaysPut
  BY <1>10
  DEF RunCompleted, RunFailed, StaysPut, RunningItems, IsRunning, TypeInv, TypeOK
<1>11. ASSUME NEW i \in Item, RunUnknown(i) PROVE StaysPut
  BY <1>11, <1>a DEF RunUnknown
<1>12. ASSUME NEW i \in Item, RetryTimerFires(i) PROVE StaysPut
  BY <1>12, <1>a DEF RetryTimerFires
<1>13. ASSUME NEW i \in Item, NEW n \in Nonce, RetryTick(i, n)
       PROVE  StaysPut \/ StartsOne
  <2>1. CASE UNCHANGED running
    BY <1>a, <2>1
  <2>2. CASE ~closed /\ IsRetrying(i) /\ Redispatch(i)
    <3>1. PICK seen \in View :
            SlotFree /\ Dispatch(i, seen, retrying[i].attempt, retrying[i].host)
      BY <2>2 DEF Redispatch
    <3>2. retrying[i].attempt \in 0..MaxAttempt /\ retrying[i].host \in HostName
      BY <2>2, SchedulerAssumption DEF IsRetrying, TypeInv, TypeOK, RetryType
    <3> QED BY <2>2, <3>1, <3>2, DispatchStarts
  <2> QED BY <1>13, <2>1, <2>2 DEF RetryTick, DueRetry, ReleaseClaim, Postpone
<1>14. CASE Close
  BY <1>14, <1>a DEF Close
<1>15. CASE UNCHANGED vars
  BY <1>15, <1>a DEF vars
<1> QED
  BY <1>1, <1>2, <1>3, <1>4, <1>5, <1>6, <1>7, <1>8, <1>9, <1>10, <1>11, <1>12,
     <1>13, <1>14, <1>15, <1>16 DEF Next, CycleStep

(* A step starts one run at most.                                          *)
LEMMA StepStartsOne == TypeInv /\ [Next]_vars => StartsNone \/ StartsOne
BY StepStarts DEF StaysPut, StartsNone, Moves

-----------------------------------------------------------------------------

LEMMA CapacityStep ==
  TypeInv /\ TypeInv' /\ CapacityRespected /\ [Next]_vars => CapacityRespected'
<1> SUFFICES ASSUME TypeInv, TypeInv', CapacityRespected, [Next]_vars
             PROVE  CapacityRespected'
  OBVIOUS
<1>a. /\ Cardinality(RunningItems) \in Nat
      /\ Cardinality(RunningItems') \in Nat
      /\ MaxConcurrent \in Nat
  BY FS_CardinalityType, SchedulerAssumption DEF TypeInv
<1>1. CASE StartsNone
  BY <1>1, <1>a, FS_Subset DEF StartsNone, TypeInv, CapacityRespected
<1>2. CASE StartsOne
  <2>1. PICK i \in Item : RunningItems' \in SUBSET (RunningItems \cup {i})
    BY <1>2 DEF StartsOne, Start, RunningItems, IsRunning, TypeInv, TypeOK
  <2>2. Cardinality(RunningItems) < MaxConcurrent
    BY <1>2 DEF StartsOne, SlotFree
  <2>3. IsFiniteSet(RunningItems)
    BY DEF TypeInv
  <2>4. Cardinality(RunningItems') <= Cardinality(RunningItems) + 1
    BY <2>1, <2>3, OneMore
  <2> QED BY <1>a, <2>2, <2>4 DEF CapacityRespected
<1> QED BY <1>1, <1>2, StepStartsOne

(* agent.max_concurrent_agents is never exceeded.                          *)
THEOREM CapacityHolds == Spec => []CapacityRespected
<1>1. Init => CapacityRespected
  <2>1. Init => RunningItems = {}
    BY DEF Init, RunningItems, IsRunning
  <2> QED BY <2>1, FS_EmptySet, SchedulerAssumption DEF CapacityRespected
<1> QED BY <1>1, CapacityStep, TypeCorrect, PTL DEF Spec

(* Host selection never fills a host beyond                                *)
(* worker.max_concurrent_agents_per_host, whatever host a retry prefers    *)
(* and whichever path starts the run: only an event that moves an entry    *)
(* does.                                                                   *)
LEMMA HostFilledStep ==
  ASSUME TypeInv, TypeInv', [Next]_vars, NEW h \in HostSet, MaxPerHost # Unlimited,
         Cardinality(RunningOn(h)') > Cardinality(RunningOn(h)),
         Cardinality(RunningOn(h)') > MaxPerHost
  PROVE  \E i \in Item : RunProgress(i, h)
<1>a. /\ IsFiniteSet(RunningOn(h)) /\ Cardinality(RunningOn(h)) \in Nat
      /\ IsFiniteSet(RunningOn(h)') /\ Cardinality(RunningOn(h)') \in Nat
  <2>1. RunningOn(h) \in SUBSET RunningItems /\ RunningOn(h)' \in SUBSET RunningItems'
    BY DEF RunningOn
  <2> QED BY <2>1, FS_Subset, FS_CardinalityType DEF TypeInv
<1>b. MaxPerHost \in Nat
  BY HostAssumption
<1>c. RunningOn(h)' \notin SUBSET RunningOn(h)
  BY <1>a, FS_Subset
<1>1. CASE StaysPut
  <2>1. RunningOn(h)' \in SUBSET RunningOn(h)
    BY <1>1 DEF StaysPut, RunningOn
  <2> QED BY <1>c, <2>1
<1>2. CASE StartsOne
  <2>1. PICK i \in Item, view \in View, attempt \in 0..MaxAttempt,
             preferred \in HostName :
          /\ Admits(preferred, Load)
          /\ Start(i, view, attempt, Select(preferred, Load))
    BY <1>2 DEF StartsOne
  <2> DEFINE host == Select(preferred, Load)
  <2>2. RunningOn(h)' \in SUBSET (RunningOn(h) \cup {i})
    BY <2>1 DEF Start, RunningOn, RunningItems, IsRunning, TypeInv, TypeOK
  <2>3. running'[i].host = host
    BY <2>1 DEF Start, TypeInv, TypeOK
  <2>4. CASE host # h
    <3>1. RunningOn(h)' \in SUBSET RunningOn(h)
      BY <2>2, <2>3, <2>4 DEF RunningOn
    <3> QED BY <1>c, <3>1
  <2>5. CASE host = h
    <3>1. Load \in [HostSet -> Nat]
      BY LoadType DEF TypeInv
    <3>2. Cardinality(RunningOn(h)) < MaxPerHost
      <4>1. Load[h] < MaxPerHost
        BY <2>1, <2>5, <3>1, SelectHasRoom, HostAssumption DEF HasCapacity, HostSet
      <4> QED BY <4>1 DEF Load
    <3>3. Cardinality(RunningOn(h)') <= Cardinality(RunningOn(h)) + 1
      BY <1>a, <2>2, OneMore
    <3> QED BY <1>a, <1>b, <3>2, <3>3
  <2> QED BY <2>4, <2>5
<1>3. CASE Moves
  <2>1. PICK i \in Item, g \in HostName : RunProgress(i, g)
    BY <1>3 DEF Moves
  <2>2. PICK run \in RunType : /\ run.host = HostAfter(i, g)
                              /\ running' = [running EXCEPT ![i] = run]
    BY <2>1, EventEffect
  <2>3. CASE g = h
    BY <2>1, <2>3
  <2>4. CASE g # h
    <3>1. HostAfter(i, g) = h => running[i].host = h
      BY <2>4 DEF HostAfter
    <3>2. RunningOn(h)' \in SUBSET RunningOn(h)
      BY <1>3, <2>2, <3>1 DEF Moves, StartsNone, RunningOn, RunningItems, TypeInv, TypeOK
    <3> QED BY <1>c, <3>2
  <2> QED BY <2>3, <2>4
<1> QED BY <1>1, <1>2, <1>3, StepStarts

(* No run is ever put on a full host: a host is filled beyond              *)
(* worker.max_concurrent_agents_per_host only by an event of a stopped run *)
(* that moves an entry.                                                    *)
THEOREM HostsFilledByEventsOnly == Spec => HostFilledByEventsOnly
<1> DEFINE Filled == \A h \in HostSet :
       /\ MaxPerHost # Unlimited
       /\ Cardinality(RunningOn(h)') > Cardinality(RunningOn(h))
       /\ Cardinality(RunningOn(h)') > MaxPerHost
       => \E i \in Item : RunProgress(i, h)
<1>1. TypeInv /\ TypeInv' /\ [Next]_vars => [Filled]_vars
  BY HostFilledStep
<1> QED BY <1>1, TypeCorrect, PTL DEF Spec, HostFilledByEventsOnly

-----------------------------------------------------------------------------
(* close waits for the mutex, so no poll cycle is under way once it is done. *)
ClosedIsIdle == closed => stage = "idle"

LEMMA ClosedStep == ClosedIsIdle /\ [Next]_vars => ClosedIsIdle'
BY DEF ClosedIsIdle, Next, CycleStep, vars, BeginCycle, ReconcileStalled,
       ReconcileRunning, ReconcileRefreshFails, ListCandidates, DispatchCandidate,
       SkipCandidate, EndCycle, RunProgress, RunCompleted, RunFailed, RunUnknown,
       RetryTimerFires, RetryTick, GoesQuiet, Close

(* A closed service starts no worker.                                      *)
THEOREM ClosedStartsNothingHolds == Spec => ClosedStartsNothing
<1>1. Init => ClosedIsIdle
  BY DEF Init, ClosedIsIdle
<1>2. TypeInv /\ WorkersAreTracked /\ WorkersAreTracked' /\ ClosedIsIdle /\ [Next]_vars
        => [closed => workers' \subseteq workers]_vars
  <2> SUFFICES ASSUME TypeInv, WorkersAreTracked, WorkersAreTracked', ClosedIsIdle,
                      [Next]_vars, closed
               PROVE  workers' \subseteq workers
    OBVIOUS
  <2>1. StartsNone
    BY StepStartsOne DEF StartsOne, ClosedIsIdle
  <2> QED BY <2>1 DEF StartsNone, WorkersAreTracked
<1> QED
  BY <1>1, <1>2, ClosedStep, TypeCorrect, MapsCorrect, PTL DEF Spec, ClosedStartsNothing, MapsAgree

-----------------------------------------------------------------------------
(* Retries: none is lost, none is served early, and none forgets how often *)
(* the item failed before.  The map of timer handles lies between the      *)
(* retry entries and the timers: the invariant ties it to both, at all     *)
(* times to the timers and between handlers to the entries.                *)

(* An armed timer is in the map under its nonce.                           *)
ArmedInMap ==
  \A i \in Item, n \in Nonce : <<i, n>> \in armed => retryTimers[i] = n

(* In an open service every handle of the map is an armed timer or one     *)
(* whose callback waits for the mutex.                                     *)
MapPending ==
  ~closed => \A i \in Item : retryTimers[i] # NoTimer =>
               <<i, retryTimers[i]>> \in armed \cup fired

(* Between handlers, a handle is that of the current entry ...             *)
MapCurrent ==
  stage = "idle" => \A i \in Item : retryTimers[i] # NoTimer =>
                      IsRetrying(i) /\ retrying[i].nonce = retryTimers[i]

(* ... and in an open service every entry has one.                         *)
MapComplete ==
  stage = "idle" /\ ~closed =>
    \A i \in Item : IsRetrying(i) => retryTimers[i] = retrying[i].nonce

TimerInv == ArmedInMap /\ MapPending /\ MapCurrent /\ MapComplete

(* syncRetryTimersLocked restores the invariant from handles that are old  *)
(* ones or removed; a handle that it keeps was there before.               *)
LEMMA SyncRestores ==
  ASSUME TypeInv, TypeInv', ArmedInMap, NEW timers \in [Item -> Nonce \cup {NoTimer}],
         \A i \in Item : timers[i] = retryTimers[i] \/ timers[i] = NoTimer,
         SyncRetryTimers(timers)
  PROVE  /\ ArmedInMap' /\ MapCurrent' /\ MapComplete'
         /\ \A i \in Item : retryTimers'[i] # NoTimer =>
              \/ <<i, retryTimers'[i]>> \in armed'
              \/ /\ timers[i] # NoTimer /\ retryTimers'[i] = retryTimers[i]
                 /\ <<i, retryTimers[i]>> \notin armed
<1>1. \A i \in Item : /\ retrying'[i] # NoRetry => retrying'[i].nonce \in Nonce
                      /\ retryTimers'[i] = IF retrying'[i] = NoRetry
                                           THEN NoTimer ELSE retrying'[i].nonce
  BY DEF TypeInv, TypeOK, RetryType, SyncRetryTimers
<1>2. \A i \in Item : /\ retrying'[i] = NoRetry => retryTimers'[i] = NoTimer
                      /\ retrying'[i] # NoRetry => retryTimers'[i] # NoTimer
  BY <1>1, SchedulerAssumption
<1>3. armed' = {a \in armed : a[1] \in Kept(timers)} \cup
               {<<i, retrying'[i].nonce>> :
                  i \in {j \in Item \ Kept(timers) : retrying'[j] # NoRetry}}
  BY DEF SyncRetryTimers
<1>4. \A i \in Kept(timers) : /\ i \in Item
                              /\ retrying'[i] # NoRetry
                              /\ timers[i] = retrying'[i].nonce
                              /\ timers[i] # NoTimer
                              /\ timers[i] = retryTimers[i]
  <2> TAKE i \in Kept(timers)
  <2>1. i \in Item /\ retrying'[i] # NoRetry /\ timers[i] = retrying'[i].nonce
    BY DEF Kept
  <2>2. timers[i] \in Nonce
    BY <1>1, <2>1
  <2> QED BY <2>1, <2>2, SchedulerAssumption
<1>5. ArmedInMap'
  <2> SUFFICES ASSUME NEW i \in Item, NEW n \in Nonce, <<i, n>> \in armed'
               PROVE  retryTimers'[i] = n
    BY DEF ArmedInMap
  <2>1. CASE <<i, n>> \in armed /\ i \in Kept(timers)
    BY <1>1, <1>4, <2>1 DEF ArmedInMap
  <2>2. CASE retrying'[i] # NoRetry /\ n = retrying'[i].nonce
    BY <1>1, <2>2
  <2> QED BY <1>3, <2>1, <2>2
<1>6. MapCurrent' /\ MapComplete'
  BY <1>1, <1>2 DEF MapCurrent, MapComplete, IsRetrying
<1>7. \A i \in Item : retryTimers'[i] # NoTimer =>
              \/ <<i, retryTimers'[i]>> \in armed'
              \/ /\ timers[i] # NoTimer /\ retryTimers'[i] = retryTimers[i]
                 /\ <<i, retryTimers[i]>> \notin armed
  <2> SUFFICES ASSUME NEW i \in Item, retryTimers'[i] # NoTimer,
                      <<i, retryTimers'[i]>> \notin armed'
               PROVE  /\ timers[i] # NoTimer /\ retryTimers'[i] = retryTimers[i]
                      /\ <<i, retryTimers[i]>> \notin armed
    OBVIOUS
  <2>1. retrying'[i] # NoRetry /\ retryTimers'[i] = retrying'[i].nonce
    BY <1>1, <1>2
  <2>2. i \in Kept(timers)
    BY <1>3, <2>1
  <2>3. timers[i] # NoTimer /\ retryTimers'[i] = retryTimers[i]
    BY <1>4, <2>1, <2>2
  <2>4. <<i, retryTimers[i]>> \notin armed
    BY <1>3, <2>2, <2>3
  <2> QED BY <2>3, <2>4
<1> QED BY <1>5, <1>6, <1>7

(* A handler that ends in syncRetryTimersLocked and consumes no callback.  *)
LEMMA SyncKeepsInv ==
  ASSUME TypeInv, TypeInv', TimerInv, SyncRetryTimers(retryTimers),
         UNCHANGED <<fired, closed>>
  PROVE  TimerInv'
<1>1. retryTimers \in [Item -> Nonce \cup {NoTimer}]
  BY DEF TypeInv, TypeOK
<1>2. /\ ArmedInMap' /\ MapCurrent' /\ MapComplete'
      /\ \A i \in Item : retryTimers'[i] # NoTimer =>
           \/ <<i, retryTimers'[i]>> \in armed'
           \/ /\ retryTimers[i] # NoTimer /\ retryTimers'[i] = retryTimers[i]
              /\ <<i, retryTimers[i]>> \notin armed
  BY <1>1, SyncRestores DEF TimerInv
<1>3. MapPending'
  BY <1>2 DEF TimerInv, MapPending
<1> QED BY <1>2, <1>3 DEF TimerInv

(* A step inside a cycle, or one that leaves the timers and entries alone. *)
LEMMA QuietKeepsInv ==
  ASSUME TimerInv, UNCHANGED <<retryTimers, armed, fired, closed>>,
         stage' # "idle" \/ UNCHANGED <<stage, retrying>>
  PROVE  TimerInv'
BY DEF TimerInv, ArmedInMap, MapPending, MapCurrent, MapComplete, IsRetrying

LEMMA TimerStep == TypeInv /\ TypeInv' /\ TimerInv /\ [Next]_vars => TimerInv'
<1> SUFFICES ASSUME TypeInv, TypeInv', TimerInv, [Next]_vars PROVE TimerInv'
  OBVIOUS
<1>1. CASE BeginCycle \/ CycleStep
  BY <1>1, QuietKeepsInv
  DEF BeginCycle, CycleStep, ReconcileStalled, ReconcileRunning,
      ReconcileRefreshFails, ListCandidates, DispatchCandidate, SkipCandidate
<1>2. CASE EndCycle
  BY <1>2, SyncKeepsInv DEF EndCycle
<1>3. ASSUME NEW i \in Item, NEW h \in HostName,
             RunProgress(i, h) \/ RunCompleted(i, h) \/ RunFailed(i, h) \/ RunUnknown(i)
      PROVE  TimerInv'
  BY <1>3, SyncKeepsInv DEF RunProgress, RunCompleted, RunFailed, RunUnknown
<1>4. ASSUME NEW i \in Item, RetryTimerFires(i) PROVE TimerInv'
  BY <1>4
  DEF RetryTimerFires, TimerInv, ArmedInMap, MapPending, MapCurrent, MapComplete,
      IsRetrying
<1>5. ASSUME NEW i \in Item, NEW n \in Nonce, RetryTick(i, n) PROVE TimerInv'
  <2>1. CASE closed
    BY <1>5, <2>1
    DEF RetryTick, TimerInv, ArmedInMap, MapPending, MapCurrent, MapComplete,
        IsRetrying
  <2>2. CASE ~closed
    <3> DEFINE timers == [retryTimers EXCEPT ![i] = IF @ = n THEN NoTimer ELSE @]
    <3>1. retryTimers \in [Item -> Nonce \cup {NoTimer}]
      BY DEF TypeInv, TypeOK
    <3>2. /\ timers \in [Item -> Nonce \cup {NoTimer}]
          /\ \A j \in Item : timers[j] = retryTimers[j] \/ timers[j] = NoTimer
          /\ retryTimers[i] = n => timers[i] = NoTimer
      BY <3>1
    <3>3. SyncRetryTimers(timers)
      BY <1>5, <2>2 DEF RetryTick
    <3> HIDE DEF timers
    <3>4. /\ ArmedInMap' /\ MapCurrent' /\ MapComplete'
          /\ \A j \in Item : retryTimers'[j] # NoTimer =>
               \/ <<j, retryTimers'[j]>> \in armed'
               \/ /\ timers[j] # NoTimer /\ retryTimers'[j] = retryTimers[j]
                  /\ <<j, retryTimers[j]>> \notin armed
      BY <3>2, <3>3, SyncRestores DEF TimerInv
    <3>5. MapPending'
      <4> SUFFICES ASSUME NEW j \in Item, retryTimers'[j] # NoTimer,
                          <<j, retryTimers'[j]>> \notin armed'
                   PROVE  <<j, retryTimers'[j]>> \in fired'
        BY DEF MapPending
      <4>1. /\ timers[j] # NoTimer /\ retryTimers'[j] = retryTimers[j]
            /\ <<j, retryTimers[j]>> \notin armed
        BY <3>4
      <4>2. <<j, retryTimers[j]>> \in fired
        BY <2>2, <4>1 DEF TimerInv, MapPending
      <4>3. <<j, retryTimers[j]>> # <<i, n>>
        BY <3>2, <4>1
      <4>4. fired' = fired \ {<<i, n>>}
        BY <1>5 DEF RetryTick
      <4> QED BY <4>1, <4>2, <4>3, <4>4
    <3> QED BY <3>4, <3>5 DEF TimerInv
  <2> QED BY <2>1, <2>2
<1>6. ASSUME NEW i \in Item, GoesQuiet(i) PROVE TimerInv'
  BY <1>6, QuietKeepsInv DEF GoesQuiet
<1>7. CASE Close
  BY <1>7
  DEF Close, TimerInv, ArmedInMap, MapPending, MapCurrent, MapComplete
<1>8. CASE UNCHANGED vars
  BY <1>8, QuietKeepsInv DEF vars
<1>9. Local \in HostName
  BY DEF HostName
<1> QED BY <1>1, <1>2, <1>3, <1>4, <1>5, <1>6, <1>7, <1>8, <1>9 DEF Next

LEMMA TimersCorrect == Spec => []TimerInv
<1>1. Init => TimerInv
  BY DEF Init, TimerInv, ArmedInMap, MapPending, MapCurrent, MapComplete, IsRetrying
<1> QED BY <1>1, TimerStep, TypeCorrect, PTL DEF Spec

(* Every retry entry of an open service will be served: between handlers   *)
(* its own timer is armed or its own callback waits for the mutex.         *)
THEOREM RetriesNeverLost == Spec => []RetryNeverLost
<1>1. TypeInv /\ TimerInv => RetryNeverLost
  <2> SUFFICES ASSUME TypeInv, TimerInv, stage = "idle", ~closed,
                      NEW i \in Item, IsRetrying(i)
               PROVE  <<i, retrying[i].nonce>> \in armed \cup fired
    BY DEF RetryNeverLost
  <2>1. retrying[i].nonce \in Nonce
    BY DEF IsRetrying, TypeInv, TypeOK, RetryType
  <2>2. retryTimers[i] = retrying[i].nonce /\ retryTimers[i] # NoTimer
    BY <2>1, SchedulerAssumption DEF TimerInv, MapComplete
  <2> QED BY <2>2 DEF TimerInv, MapPending
<1> QED BY <1>1, TypeCorrect, TimersCorrect, PTL

(* Every timer that is armed between handlers is that of a current entry,  *)
(* in a closed service too.                                                *)
THEOREM ArmedTimersCurrent == Spec => []ArmedTimersAreCurrent
<1>1. TypeInv /\ TimerInv => ArmedTimersAreCurrent
  BY SchedulerAssumption
  DEF TimerInv, ArmedInMap, MapCurrent, ArmedTimersAreCurrent
<1> QED BY <1>1, TypeCorrect, TimersCorrect, PTL

-----------------------------------------------------------------------------

(* A dispatch touches the retry entry of its own item only.                *)
LEMMA DispatchElsewhere ==
  ASSUME TypeInv, NEW i, NEW view, NEW attempt, NEW preferred,
         Dispatch(i, view, attempt, preferred)
  PROVE  \A j \in Item \ {i} : retrying'[j] = retrying[j]
BY DEF Dispatch, Start, StartFails, TypeInv, TypeOK

(* The retry entry of a claimed item goes only through its own callback:   *)
(* the backoff is served in full.                                          *)
THEOREM BackoffRespectedHolds == Spec => BackoffRespected
<1> DEFINE Own(i) == <<i, retrying[i].nonce>>
           OwnCallbackOnly ==
             \A i \in claimed :
               IsRetrying(i) /\ retrying'[i] # retrying[i] =>
                 Own(i) \in fired /\ Own(i) \notin fired'
<1>1. TypeInv /\ MapsAgree /\ [Next]_vars => [OwnCallbackOnly]_vars
  <2> SUFFICES ASSUME TypeInv, MapsAgree, Next, NEW i \in claimed, IsRetrying(i),
                      retrying'[i] # retrying[i]
               PROVE  Own(i) \in fired /\ Own(i) \notin fired'
    OBVIOUS
  <2>a. i \in Item /\ ~IsRunning(i)
    BY DEF TypeInv, TypeOK, MapsAgree, RunsAreClaimed
  <2>1. ~ReconcileStalled
    BY <2>a DEF ReconcileStalled, Stalled, RunningItems
  <2>2. ~ReconcileRunning
    BY <2>a DEF ReconcileRunning, Invalid, RunningItems
  <2>3. \A j \in Item : ~DispatchCandidate(j)
    <3> SUFFICES ASSUME NEW j \in Item, DispatchCandidate(j) PROVE FALSE
      OBVIOUS
    <3>1. j # i
      BY DEF DispatchCandidate, ShouldDispatch
    <3> QED BY <2>a, <3>1, DispatchElsewhere DEF DispatchCandidate
  <2>4. \A j \in Item, h \in HostName : ~(RunCompleted(j, h) \/ RunFailed(j, h))
    BY <2>a DEF RunCompleted, RunFailed, TypeInv, TypeOK
  <2>5. ASSUME NEW j \in Item, NEW n \in Nonce, RetryTick(j, n)
        PROVE  Own(i) \in fired /\ Own(i) \notin fired'
    <3>1. IsRetrying(j) /\ retrying[j].nonce = n
          /\ (ReleaseClaim(j) \/ Postpone(j) \/ Redispatch(j))
      BY <2>5 DEF RetryTick, DueRetry
    <3>2. \A k \in Item \ {j} : retrying'[k] = retrying[k]
      BY <3>1, DispatchElsewhere
      DEF ReleaseClaim, Postpone, Redispatch, TypeInv, TypeOK
    <3>3. i = j
      BY <2>a, <3>2
    <3> QED BY <2>5, <3>1, <3>3 DEF RetryTick
  <2> QED
    BY <2>1, <2>2, <2>3, <2>4, <2>5
    DEF Next, CycleStep, BeginCycle, ReconcileRefreshFails, ListCandidates,
        SkipCandidate, EndCycle, RunProgress, RunUnknown, RetryTimerFires,
        GoesQuiet, Close
<1> QED BY <1>1, TypeCorrect, MapsCorrect, PTL DEF Spec, BackoffRespected
-----------------------------------------------------------------------------
(* The attempt number.                                                     *)

(* A retry entry counts at least as many attempts as what it continues.    *)
LEMMA FailureRetryGrows ==
  ASSUME NEW i, NEW a \in 0..MaxAttempt, NEW host
  PROVE  /\ FailureRetry(i, NextFailureAttempt(a), host).attempt >= a
         /\ FailureRetry(i, a + 1, host).attempt >= a
BY SchedulerAssumption DEF FailureRetry, NextFailureAttempt, RetryEntry, Capped

(* An item under claim is running or waiting, so it has an attempt number. *)
LEMMA AttemptType ==
  ASSUME TypeInv, MapsAgree, NEW i \in claimed
  PROVE  AttemptOf(i) \in 0..MaxAttempt
<1>1. i \in Item /\ (IsRunning(i) \/ IsRetrying(i))
  BY DEF TypeInv, TypeOK, MapsAgree, NoLeakedClaim
<1>2. CASE IsRunning(i)
  BY <1>1, <1>2 DEF AttemptOf, IsRunning, TypeInv, TypeOK, RunType
<1>3. CASE ~IsRunning(i)
  <2>1. retrying[i].attempt \in 1..MaxAttempt
    BY <1>1, <1>3 DEF IsRetrying, TypeInv, TypeOK, RetryType
  <2> QED BY <1>3, <2>1, SchedulerAssumption DEF AttemptOf
<1> QED BY <1>2, <1>3

(* The two ways to keep the attempt number of an item: what runs or waits  *)
(* goes on with the same number, or a retry entry continues it.            *)
Continues(i) ==
  \/ /\ IsRunning(i)' <=> IsRunning(i)
     /\ IsRunning(i) => running'[i].attempt = running[i].attempt
     /\ ~IsRunning(i) => retrying'[i] = retrying[i]
  \/ ~IsRunning(i)' /\ retrying'[i].attempt >= AttemptOf(i)
  \/ IsRunning(i)' /\ running'[i].attempt = AttemptOf(i)

(* An update of a run that concerns neither its attempt nor its existence. *)
LEMMA UpdateContinues ==
  ASSUME TypeInv, NEW i \in Item, IsRunning(i), NEW run \in RunType,
         run.attempt = running[i].attempt, running'[i] = run
  PROVE  Continues(i)
<1>1. run # NoRun
  BY SchedulerAssumption
<1> QED BY <1>1 DEF Continues, IsRunning

LEMMA StepContinues ==
  ASSUME TypeInv, MapsAgree, Next, NEW i \in claimed, i \in claimed',
         \A h \in HostName : ~RunCompleted(i, h)
  PROVE  Continues(i)
<1>a. i \in Item /\ (IsRunning(i) \/ IsRetrying(i)) /\ AttemptOf(i) \in 0..MaxAttempt
  BY AttemptType DEF TypeInv, TypeOK, MapsAgree, NoLeakedClaim
<1>b. ASSUME running'[i] = running[i], retrying'[i] = retrying[i]
      PROVE  Continues(i)
  BY <1>b DEF Continues, IsRunning
<1>c. IsRunning(i) => /\ running[i] \in RunType
                      /\ running[i].attempt = AttemptOf(i)
  BY <1>a DEF IsRunning, AttemptOf, TypeInv, TypeOK
<1>1. CASE ReconcileStalled
  <2>1. CASE i \in Stalled
    <3>1. IsRunning(i)
      BY <2>1 DEF Stalled, RunningItems
    <3>2. ~IsRunning(i)'
      BY <1>1, <1>a, <2>1 DEF ReconcileStalled, IsRunning
    <3>3. retrying'[i] = FailureRetry(i, NextFailureAttempt(AttemptOf(i)),
                                      running[i].host)
      BY <1>1, <1>a, <1>c, <2>1, <3>1 DEF ReconcileStalled
    <3> QED BY <1>a, <3>2, <3>3, FailureRetryGrows DEF Continues
  <2>2. CASE i \notin Stalled
    BY <1>1, <1>a, <1>b, <2>2 DEF ReconcileStalled
  <2> QED BY <2>1, <2>2
<1>2. CASE ReconcileRunning
  <2>1. PICK seen \in [RunningItems -> View \cup {Missing}] :
          /\ running' = [j \in Item |->
               IF j \in RunningItems \ Invalid(seen)
                 THEN [running[j] EXCEPT !.state = seen[j].state]
                 ELSE NoRun]
          /\ claimed' = claimed \ Invalid(seen)
          /\ retrying' = [j \in Item |-> IF j \in Invalid(seen) THEN NoRetry
                                                        ELSE retrying[j]]
    BY <1>2 DEF ReconcileRunning
  <2>2. i \notin Invalid(seen)
    BY <2>1
  <2>3. CASE IsRunning(i)
    <3>1. i \in RunningItems \ Invalid(seen)
      BY <1>a, <2>2, <2>3 DEF RunningItems
    <3>2. seen[i] \in View
      BY <3>1 DEF Invalid
    <3>3. seen[i].state \in State
      BY <3>2, SchedulerAssumption DEF ViewType
    <3> DEFINE run == [running[i] EXCEPT !.state = seen[i].state]
    <3>4. run \in RunType /\ run.attempt = running[i].attempt
      BY <1>c, <2>3, <3>3 DEF RunType
    <3>5. running'[i] = run
      BY <1>a, <2>1, <3>1
    <3> HIDE DEF run
    <3> QED BY <1>a, <2>3, <3>4, <3>5, UpdateContinues
  <2>4. CASE ~IsRunning(i)
    <3>1. i \notin RunningItems
      BY <2>4 DEF RunningItems
    <3> QED BY <1>a, <1>b, <2>1, <2>2, <2>4, <3>1 DEF IsRunning
  <2> QED BY <2>3, <2>4
<1>3. ASSUME NEW j \in Item, DispatchCandidate(j) PROVE Continues(i)
  <2>1. j # i
    BY <1>3 DEF DispatchCandidate, ShouldDispatch
  <2>2. running'[i] = running[i] /\ retrying'[i] = retrying[i]
    BY <1>3, <1>a, <2>1 DEF DispatchCandidate, Dispatch, Start, StartFails, TypeInv, TypeOK
  <2> QED BY <1>b, <2>2
<1>4. ASSUME NEW j \in Item, NEW h \in HostName, RunProgress(j, h) \/ GoesQuiet(j)
      PROVE  Continues(i)
  <2>1. PICK run \in RunType : /\ run.attempt = running[j].attempt
                              /\ running' = [running EXCEPT ![j] = run]
    BY <1>4, EventEffect, QuietEffect
  <2>2. CASE j = i
    <3>1. IsRunning(i)
      BY <1>4, <2>2 DEF RunProgress, GoesQuiet
    <3>2. running'[i] = run
      BY <1>a, <2>1, <2>2 DEF TypeInv, TypeOK
    <3> QED BY <1>a, <2>1, <2>2, <3>1, <3>2, UpdateContinues
  <2>3. CASE j # i
    BY <1>4, <1>a, <1>b, <2>1, <2>3 DEF RunProgress, GoesQuiet, TypeInv, TypeOK
  <2> QED BY <2>2, <2>3
<1>5. ASSUME NEW j \in Item, NEW h \in HostName, RunCompleted(j, h) \/ RunFailed(j, h)
      PROVE  Continues(i)
  <2>1. CASE j = i
    <3>1. RunFailed(i, h) /\ IsRunning(i)
      BY <1>5, <2>1 DEF RunFailed
    <3>2. /\ ~IsRunning(i)'
          /\ retrying'[i] = FailureRetry(i, NextFailureAttempt(AttemptOf(i)),
                                         HostAfter(i, h))
      BY <1>a, <1>c, <3>1 DEF RunFailed, IsRunning, TypeInv, TypeOK
    <3> QED BY <1>a, <3>2, FailureRetryGrows DEF Continues
  <2>2. CASE j # i
    BY <1>5, <1>a, <1>b, <2>2 DEF RunCompleted, RunFailed, TypeInv, TypeOK
  <2> QED BY <2>1, <2>2
<1>6. ASSUME NEW j \in Item, NEW n \in Nonce, RetryTick(j, n) PROVE Continues(i)
  <2>1. CASE UNCHANGED <<running, retrying>>
    BY <1>b, <2>1
  <2>2. CASE IsRetrying(j) /\ (ReleaseClaim(j) \/ Postpone(j) \/ Redispatch(j))
    <3>1. CASE j # i
      BY <1>a, <1>b, <2>2, <3>1
      DEF ReleaseClaim, Postpone, Redispatch, Dispatch, Start, StartFails, TypeInv, TypeOK
    <3>2. CASE j = i
      <4>1. ~IsRunning(i) /\ AttemptOf(i) = retrying[i].attempt
        BY <1>a, <2>2, <3>2 DEF MapsAgree, RunsAreClaimed, AttemptOf
      <4>2. CASE ReleaseClaim(i)
        BY <4>2 DEF ReleaseClaim
      <4>3. CASE Postpone(i)
        <5>1. /\ ~IsRunning(i)'
              /\ retrying'[i] = FailureRetry(i, AttemptOf(i) + 1, retrying[i].host)
          BY <1>a, <4>1, <4>3 DEF Postpone, IsRunning, TypeInv, TypeOK
        <5> QED BY <1>a, <5>1, FailureRetryGrows DEF Continues
      <4>4. CASE Redispatch(i)
        <5>1. PICK seen \in View :
                Dispatch(i, seen, AttemptOf(i), retrying[i].host)
          BY <4>1, <4>4 DEF Redispatch
        <5> DEFINE host == Select(retrying[i].host, Load)
        <5>2. CASE Start(i, seen, AttemptOf(i), host) /\ running'[i] \in RunType
          <6>1. running'[i].attempt = AttemptOf(i)
            BY <1>a, <5>2 DEF Start, TypeInv, TypeOK
          <6>2. IsRunning(i)'
            BY <5>2, SchedulerAssumption DEF IsRunning
          <6> QED BY <6>1, <6>2 DEF Continues
        <5>3. CASE StartFails(i, AttemptOf(i), host)
          <6>1. /\ ~IsRunning(i)'
                /\ retrying'[i] = FailureRetry(i, NextFailureAttempt(AttemptOf(i)), host)
            BY <1>a, <4>1, <5>3 DEF StartFails, IsRunning, TypeInv, TypeOK
          <6> QED BY <1>a, <6>1, FailureRetryGrows DEF Continues
        <5> QED BY <1>a, <5>1, <5>2, <5>3, DispatchEffect
      <4> QED BY <2>2, <3>2, <4>2, <4>3, <4>4
    <3> QED BY <3>1, <3>2
  <2> QED BY <1>6, <2>1, <2>2 DEF RetryTick, DueRetry
<1>7. Local \in HostName
  BY DEF HostName
<1> QED
  BY <1>b, <1>1, <1>2, <1>3, <1>4, <1>5, <1>6, <1>7
  DEF Next, CycleStep, BeginCycle, ReconcileRefreshFails, ListCandidates,
      SkipCandidate, EndCycle, RunUnknown, RetryTimerFires, Close

(* The attempt number of an item under claim falls only when a run of it   *)
(* completes.                                                              *)
THEOREM LineageHolds == Spec => LineageKept
<1> DEFINE NoDrop == \A i \in claimed \cap claimed' :
                       AttemptOf(i)' < AttemptOf(i) => \E h \in HostName : RunCompleted(i, h)
<1>1. TypeInv /\ MapsAgree /\ TypeInv' /\ MapsAgree' /\ [Next]_vars => [NoDrop]_vars
  <2> SUFFICES ASSUME TypeInv, MapsAgree, TypeInv', MapsAgree', Next,
                      NEW i \in claimed, i \in claimed',
                      \A h \in HostName : ~RunCompleted(i, h)
               PROVE  ~(AttemptOf(i)' < AttemptOf(i))
    OBVIOUS
  <2>1. Continues(i)
    BY StepContinues
  <2>2. AttemptOf(i) \in Nat
    BY AttemptType, SchedulerAssumption
  <2>3. CASE AttemptOf(i)' = AttemptOf(i)
    BY <2>2, <2>3
  <2>4. CASE ~IsRunning(i)' /\ retrying'[i].attempt >= AttemptOf(i)
    <3>1. i \in Item /\ retrying'[i] # NoRetry
      BY <2>4 DEF TypeInv, TypeOK, MapsAgree, NoLeakedClaim, IsRunning, IsRetrying
    <3>2. retrying'[i].attempt \in Nat
      BY <3>1 DEF TypeInv, TypeOK, RetryType
    <3> QED BY <2>2, <2>4, <3>2 DEF AttemptOf
  <2> QED BY <2>1, <2>3, <2>4 DEF Continues, AttemptOf
<1> QED BY <1>1, TypeCorrect, MapsCorrect, PTL DEF Spec, LineageKept
=============================================================================
