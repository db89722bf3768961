------------------------------- MODULE Runtime -------------------------------
(***************************************************************************)
(* internal/cli/runtime.go: the worker manager, the goroutine of every     *)
(* run, and the start and the shutdown of the process, around the          *)
(* scheduler.  A run has an identity here: the scheduler finds the run of  *)
(* an event by its item alone, StopRun does not wait for the worker, and   *)
(* the worker looks at its context only at its end, so an item may have    *)
(* several runs at work, of which at most one is tracked.                  *)
(***************************************************************************)
EXTENDS Scheduler

CONSTANTS
  Run,        (* bound: names for the runs alive or tracked at one time     *)
  MaxTurns,   (* agent.max_turns                                            *)
  NoHandle,   (* no run                                                     *)
  Ended       (* the goroutine of the run has returned, or never began      *)

(* Where the goroutine of a run is.  "reporting" has checked the context   *)
(* and waits to deliver the last event; failed is what that event will     *)
(* say, or whether the body of the run failed.                             *)
Phase == {"creating", "preparing", "session", "turn", "refreshing", "leaving",
          "reporting", "exiting"}
WorkType == [item : Item, host : HostName, phase : Phase, turn : 0..MaxTurns,
             failed : BOOLEAN]

ASSUME RuntimeAssumption ==
  /\ MaxTurns \in Nat \ {0}
  /\ NoHandle \notin Run
  /\ Ended \notin WorkType

VARIABLES
  handle,     (* runningEntry.Handle of the item, NoHandle if not running   *)
  handles,    (* workerManager.handles                                      *)
  work,       (* the goroutine of each run                                  *)
  cancelled,  (* runs at work whose handle was stopped                      *)
  root,       (* the root context of the workers is cancelled               *)
  life,       (* the process: start-up, service, shutdown                   *)
  open,       (* what else the process has running: "store", "http"         *)
  lost        (* history: tracked runs whose last event met a nil emit      *)

workerVars == <<handle, handles, work, cancelled, root, life, open, lost>>
processVars == <<vars, workerVars>>

AtWork(r) == work[r] # Ended
Phased(r, p) == AtWork(r) /\ work[r].phase = p
(* Altered: stopping a handle leaves the context of the run alone.         *)
RootCancelled(r) == root

Cancelled(r) == root \/ r \in cancelled
Move(r, p) == work' = [work EXCEPT ![r].phase = p]

(* What is not needed any more is forgotten: the turns when the body of    *)
(* the run is left, its outcome when it has been reported.                 *)
LeaveBody(r, failed) ==
  work' = [work EXCEPT ![r].phase = "leaving", ![r].turn = 0, ![r].failed = failed]
Return(r) == work' = [work EXCEPT ![r].phase = "exiting", ![r].failed = FALSE]

(* A name that neither a goroutine nor a map refers to.                    *)
FreeRuns == {r \in Run : /\ ~AtWork(r)
                         /\ \A i \in Item : r \notin {handle[i], handles[i]}}

RuntimeInit ==
  /\ Init
  /\ handle = [i \in Item |-> NoHandle]
  /\ handles = [i \in Item |-> NoHandle]
  /\ work = [r \in Run |-> Ended]
  /\ cancelled = {}
  /\ root = FALSE
  /\ life = "starting"
  /\ open = {}
  /\ lost = {}

-----------------------------------------------------------------------------
(* Start and shutdown of the process.                                      *)

(* One step of StartRuntime or Runtime.Close that leaves the runs alone.   *)
Lives(from, to) ==
  /\ life \in from
  /\ life' = to
  /\ UNCHANGED <<vars, handle, handles, work, cancelled, lost>>

(* NewStore has read the workflow file and polls it from now on.           *)
StoreOpens ==
  /\ Lives({"starting"}, "reading")
  /\ open' = {"store"}
  /\ UNCHANGED root

StoreFails == Lives({"starting"}, "failed") /\ UNCHANGED <<open, root>>

(* The settings and the workflow are read and the tracker's reader made.   *)
SettingsRead == Lives({"reading"}, "cleaning") /\ UNCHANGED <<open, root>>

(* Altered: the store stays open when the clean-up fails.                  *)
StartUpFailsOpen ==
  /\ Lives({"reading", "cleaning"}, "failed")
  /\ open' = IF life = "reading" THEN {} ELSE open
  /\ UNCHANGED root

(* Either of them, or startupCleanup, fails: the store is closed.          *)
StartUpFails ==
  /\ Lives({"reading", "cleaning"}, "failed")
  /\ open' = {}
  /\ UNCHANGED root

(* startupCleanup returned: the worker manager is made and the service     *)
(* started; workers.emit is still nil.                                     *)
CleanupDone == Lives({"cleaning"}, "assembling") /\ UNCHANGED <<open, root>>

(* The runtime is complete but for the HTTP server, which opens if a port  *)
(* is set; if it cannot listen, StartRuntime calls Close itself.           *)
SetEmit ==
  /\ Lives({"assembling"}, "up")
  /\ open' = open \cup {"http"}
  /\ UNCHANGED root

(* A signal cancels the context the runtime was started with, from which   *)
(* the root context of the workers descends.                               *)
Interrupt ==
  /\ life \in {"assembling", "up"}
  /\ ~root
  /\ root' = TRUE
  /\ UNCHANGED <<vars, handle, handles, work, cancelled, life, open, lost>>

(* Runtime.Close: first the HTTP server, which gets a second to finish its *)
(* requests, and the service ...                                           *)
CloseService ==
  /\ life = "up"
  /\ Close
  /\ life' = "closing"
  /\ open' = open \ {"http"}
  /\ UNCHANGED <<handle, handles, work, cancelled, root, lost>>

(* Altered: the handles are stopped, the root context is not cancelled.    *)
CloseHandlesOnly ==
  /\ life = "closing"
  /\ life' = "stopping"
  /\ cancelled' = cancelled \cup {handles[i] : i \in {j \in Item :
                                                        handles[j] # NoHandle}}
  /\ UNCHANGED <<vars, handle, handles, work, root, open, lost>>

(* ... then the workers: no run starts any more, all contexts end, the     *)
(* registered handles are stopped ...                                      *)
CloseWorkers ==
  /\ life = "closing"
  /\ life' = "stopping"
  /\ root' = TRUE
  /\ cancelled' = cancelled \cup {handles[i] : i \in {j \in Item :
                                                        handles[j] # NoHandle}}
  /\ UNCHANGED <<vars, handle, handles, work, open, lost>>

(* ... and, once every goroutine has returned, the config store.           *)
CloseStore ==
  /\ \A r \in Run : ~AtWork(r)
  /\ Lives({"stopping"}, "stopped")
  /\ open' = open \ {"store"}
  /\ UNCHANGED root

-----------------------------------------------------------------------------
(* What the scheduler asks of the worker manager, within its own step.     *)

(* StartRun: unless the manager is closed, register a handle under the     *)
(* item and start the goroutine, which has the host it was admitted to.    *)
StartRun(i) ==
  \E r \in FreeRuns :
    /\ life \in {"assembling", "up", "closing"}
    /\ handle' = [handle EXCEPT ![i] = r]
    /\ handles' = [handles EXCEPT ![i] = r]
    /\ work' = [work EXCEPT ![r] =
         [item |-> i, host |-> running'[i].host, phase |-> "creating",
          turn |-> 0, failed |-> FALSE]]
    /\ UNCHANGED cancelled

(* StopRun: cancel the context of the handle and close its session, but    *)
(* wait for nothing.  The stopped runs are those the step has untracked.   *)
StopRuns(stopped) ==
  /\ handle' = [i \in Item |-> IF i \in stopped THEN NoHandle ELSE handle[i]]
  /\ cancelled' = cancelled \cup {r \in {handle[i] : i \in stopped} : AtWork(r)}
  /\ UNCHANGED <<handles, work>>

StartAndStop ==
  LET started == {i \in Item : ~IsRunning(i) /\ IsRunning(i)'}
      stopped == {i \in Item : IsRunning(i) /\ ~IsRunning(i)'}
  IN  /\ IF started = {} THEN StopRuns(stopped)
                         ELSE \A i \in started : StartRun(i)
      /\ lost' = {r \in lost : \E i \in Item : handle'[i] = r}
      /\ UNCHANGED <<root, life, open>>

(* This worker manager refuses a run only when it is closed, which is      *)
(* after the service is: dispatchItem leaves no retry entry unclaimed.     *)
StartsSucceed == \A i \in Item : IsRetrying(i)' => i \in claimed'

(* The scheduler's own steps, all but the events of workers and Close.     *)
Schedules ==
  /\ life \in {"assembling", "up", "closing", "stopping"}
  /\ \/ BeginCycle
     \/ CycleStep
     \/ EndCycle
     \/ \E i \in Item : RetryTimerFires(i)
     \/ \E i \in Item, n \in Nonce : RetryTick(i, n)
     \/ \E i \in Item : GoesQuiet(i)
  /\ StartsSucceed
  /\ StartAndStop

-----------------------------------------------------------------------------
(* The goroutine of a run, runWorker.  Hooks and the creation of the       *)
(* workspace do not see the context.                                       *)

Working(r, from, to) ==
  /\ Phased(r, from)
  /\ Move(r, to)
  /\ UNCHANGED <<vars, handle, handles, cancelled, root, life, open, lost>>

(* workspace.Create, after_create included.                                *)
Created(r) == Working(r, "creating", "preparing")

(* Altered: a run whose workspace could not be created says nothing.       *)
CreateFailsSilently(r) == Working(r, "creating", "exiting")

(* It failed: the failure is reported without a look at the context.       *)
CreateFails(r) ==
  /\ Phased(r, "creating")
  /\ work' = [work EXCEPT ![r].phase = "reporting", ![r].failed = TRUE]
  /\ UNCHANGED <<vars, handle, handles, cancelled, root, life, open, lost>>

(* The before_run hook of RunWithHooks.                                    *)
Prepared(r) == Working(r, "preparing", "session")

(* StartSession: a process, initialize, thread/start.  It takes one life   *)
(* of the context to start a process.                                      *)
SessionStarted(r) == ~Cancelled(r) /\ Working(r, "session", "turn")

(* RunTurn completed: the item is refreshed before anything else.          *)
TurnCompleted(r) ==
  /\ Phased(r, "turn")
  /\ work' = [work EXCEPT ![r].phase = "refreshing", ![r].turn = @ + 1]
  /\ UNCHANGED <<vars, handle, handles, cancelled, root, life, open, lost>>

(* The item is still active and there are turns left.                      *)
NextTurn(r) == AtWork(r) /\ work[r].turn < MaxTurns /\ Working(r, "refreshing", "turn")

(* The item is not active any more, or the turns are used up.              *)
BodyEnds(r) ==
  /\ Phased(r, "refreshing")
  /\ LeaveBody(r, FALSE)
  /\ UNCHANGED <<vars, handle, handles, cancelled, root, life, open, lost>>

(* The hook, the session, the turn or the refresh failed, as all but the   *)
(* hook do when the context ends or the session is closed.                 *)
BodyFails(r) ==
  /\ AtWork(r)
  /\ work[r].phase \in {"preparing", "session", "turn", "refreshing"}
  /\ LeaveBody(r, TRUE)
  /\ UNCHANGED <<vars, handle, handles, cancelled, root, life, open, lost>>

(* The after_run hook has run; a cancelled run returns without a word.     *)
Leave(r) ==
  /\ Phased(r, "leaving")
  /\ IF Cancelled(r) THEN Return(r) ELSE Move(r, "reporting")
  /\ UNCHANGED <<vars, handle, handles, cancelled, root, life, open, lost>>

(* The deferred calls of StartRun's goroutine; unregister deletes whatever *)
(* handle the item has.                                                    *)
Exit(r) ==
  /\ Phased(r, "exiting")
  /\ work' = [work EXCEPT ![r] = Ended]
  /\ handles' = [handles EXCEPT ![work[r].item] = NoHandle]
  /\ cancelled' = cancelled \ {r}
  /\ UNCHANGED <<vars, handle, root, life, open, lost>>

WorkerStep(r) ==
  \/ Created(r) \/ CreateFails(r) \/ Prepared(r) \/ SessionStarted(r)
  \/ TurnCompleted(r) \/ NextTurn(r) \/ BodyEnds(r) \/ BodyFails(r)
  \/ Leave(r) \/ Exit(r)

-----------------------------------------------------------------------------
(* Events: emitEvent calls ApplyRunEvent, which waits for the mutex.       *)

(* A run emits while it creates the workspace and while its session works, *)
(* whether it is stopped or not; the event finds the entry of the item and *)
(* moves it to the host of the run that emits.                             *)
Progress(r) ==
  /\ AtWork(r)
  /\ work[r].phase \in {"creating", "preparing", "session", "turn", "refreshing"}
  /\ life # "assembling"
  /\ RunProgress(work[r].item, work[r].host)
  /\ UNCHANGED workerVars

(* RunCompleted or RunFailed, on whatever run of the item is tracked.      *)
Report(r) ==
  LET i == work[r].item
  IN  /\ Phased(r, "reporting")
      /\ life # "assembling"
      /\ IF ~IsRunning(i) THEN RunUnknown(i)
           ELSE IF work[r].failed THEN RunFailed(i, work[r].host)
           ELSE RunCompleted(i, work[r].host)
      /\ handle' = [handle EXCEPT ![i] = NoHandle]
      /\ Return(r)
      /\ lost' = lost \ {handle[i]}
      /\ UNCHANGED <<handles, cancelled, root, life, open>>

(* emit is still nil: the event goes nowhere.                              *)
ReportDropped(r) ==
  /\ Phased(r, "reporting")
  /\ life = "assembling"
  /\ Return(r)
  /\ lost' = IF handle[work[r].item] = r THEN lost \cup {r} ELSE lost
  /\ UNCHANGED <<vars, handle, handles, cancelled, root, life, open>>

Process ==
  \/ StoreOpens \/ StoreFails \/ SettingsRead \/ StartUpFails \/ CleanupDone
  \/ SetEmit \/ Interrupt \/ CloseService \/ CloseWorkers \/ CloseStore

(* The process is gone.                                                    *)
Over == life \in {"stopped", "failed"} /\ UNCHANGED processVars

RuntimeNext ==
  \/ Process
  \/ Schedules
  \/ \E r \in Run : WorkerStep(r) \/ Progress(r) \/ Report(r) \/ ReportDropped(r)
  \/ Over

(* The scheduler's timers fire and its cycles run, time passes; the        *)
(* goroutine of a run goes on (hooks have timeouts; a session whose        *)
(* context ended fails), and one that waits for the mutex gets it.  A      *)
(* healthy session may work for ever.                                      *)
Ends(r) ==
  \/ Created(r)
  \/ CreateFails(r)
  \/ Prepared(r)
  \/ (Phased(r, "preparing") \/ Cancelled(r)) /\ BodyFails(r)
  \/ Leave(r)
  \/ Exit(r)

RuntimeFairness ==
  /\ WF_processVars(SetEmit \/ CloseWorkers \/ CloseStore)
  /\ WF_processVars((BeginCycle \/ CycleStep \/ EndCycle) /\ StartsSucceed /\ StartAndStop)
  /\ \A i \in Item : WF_processVars(GoesQuiet(i) /\ StartAndStop)
  /\ \A r \in Run : /\ WF_processVars(Ends(r))
                    /\ SF_processVars(Report(r))
                    /\ WF_processVars(ReportDropped(r))

RuntimeSpec == RuntimeInit /\ [][RuntimeNext]_processVars
FairRuntime == RuntimeSpec /\ RuntimeFairness

-----------------------------------------------------------------------------

(* No run is left behind: while the process serves, a tracked run is at    *)
(* work on its item, not stopped, and has its last event still to deliver, *)
(* unless that event was lost in the start window (runtime.go:125).  A     *)
(* path through runWorker (runtime.go:445) that returned without an event  *)
(* would leave a running entry for ever.                                   *)
NoRunLeftBehind ==
  ~root => \A i \in Item : IsRunning(i) =>
    \/ handle[i] \in lost
    \/ /\ handle[i] \in Run \ cancelled
       /\ AtWork(handle[i])
       /\ work[handle[i]].item = i
       /\ work[handle[i]].phase # "exiting"

(* After Runtime.Close has returned no goroutine of a run is left and no   *)
(* scheduler step can start one (runtime.go:421), even though unregister   *)
(* (runtime.go:439) may have dropped the handle of a later run of the item *)
(* and Close stops only the handles it finds; nor is the store or the HTTP *)
(* server left open, whichever step of StartRuntime failed.                *)
NothingOutlivesClose ==
  life \in {"stopped", "failed"} =>
    /\ open = {}
    /\ \A r \in Run : ~AtWork(r)
    /\ life = "stopped" => closed /\ root

(* Close always comes to an end.                                           *)
CloseFinishes == life = "closing" ~> life = "stopped"

(* A stopped run ends, wherever it was when it was stopped.                *)
StoppedRunsEnd == \A r \in Run : r \in cancelled ~> r \notin cancelled

(* "Symphony turns project work into isolated, autonomous implementation   *)
(* runs" (README.md:5): no two runs that nobody stopped work on one item,  *)
(* hence in one workspace.  The failure of a stopped run that was still    *)
(* creating the workspace (runtime.go:462) ends the entry of its           *)
(* successor, which works on while a third run is started.                 *)
RunsIsolated ==
  \A r, s \in Run \ cancelled :
    AtWork(r) /\ AtWork(s) /\ r # s
      /\ {work[r].phase, work[s].phase} \subseteq {"session", "turn", "refreshing"}
      => work[r].item # work[s].item
=============================================================================
