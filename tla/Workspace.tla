----------------------------- MODULE Workspace ------------------------------
(***************************************************************************)
(* internal/workspace/manager.go: the directories of runs.  A run creates  *)
(* or finds its directory and goes through its hooks, each access to the   *)
(* disk and each hook a step; the clean-up of the start-up and of StopRun  *)
(* removes directories.  Stopped runs go on until they end by themselves,  *)
(* and so do runs whose entry the report of another run of the item has    *)
(* ended (see RunsIsolated of Runtime): several runs, stopped or not, may  *)
(* be at one directory, and the scheduler tracks one of them at most.      *)
(* What runs on a worker host may outlive the call that started it.  All   *)
(* four hooks are taken to be configured.                                  *)
(***************************************************************************)
EXTENDS FiniteSets

CONSTANTS
  Item,      (* identifiers                                                 *)
  Wanted,    (* bound: items that runs are started for                      *)
  Name,      (* names of directories below the root                         *)
  SafeName,  (* safeIdentifier                                              *)
  Host,      (* machines, this one included                                 *)
  Local,     (* this machine                                                *)
  Fleet,     (* configurations: the worker hosts, or Local if there is none *)
  Run,       (* bound: runs at work at one time                             *)
  Stale      (* paths where there is something that is not a directory      *)

ASSUME WorkspaceAssumption ==
  /\ Wanted \subseteq Item
  /\ SafeName \in [Item -> Name]
  /\ Fleet \subseteq SUBSET Host \ {{}}
  /\ \A hosts \in Fleet : Local \in hosts => hosts = {Local}
  /\ Stale \subseteq Host \X Name

(* A path holds "none", a "file" (anything that is no directory), or a     *)
(* directory, "raw" until its after_create hook succeeds, then "ready".    *)
Place == Host \X Name
IsDir(d) == d \in {"raw", "ready"}

VARIABLES
  hosts,    (* where runs work: the worker hosts, or Local                  *)
  disk,     (* what is at each path                                         *)
  pc,       (* of each run                                                  *)
  item,     (* of each run                                                  *)
  host,     (* of each run                                                  *)
  tracked,  (* runs that have the running entry of their item               *)
  stopped,  (* runs at work that the scheduler has stopped                  *)
  detached, (* only the command of these runs goes on, on the worker host   *)
  sweep,    (* terminal items the start-up has still to clean up            *)
  aborted,  (* the start-up failed                                          *)
  clean,    (* the clean-up under way                                       *)
  late,     (* paths where a removal goes on that has failed for its caller *)
  swept     (* history: items the start-up did, and not started since       *)

runs == <<pc, item, host, tracked, stopped, detached>>
vars == <<hosts, disk, runs, sweep, aborted, clean, late, swept>>

SomeItem == CHOOSE i \in Item : TRUE
SomeHost == CHOOSE h \in Host : TRUE
Idle == [pc |-> "none", item |-> SomeItem, host |-> SomeHost, todo |-> {},
         failed |-> FALSE]
Path(h, i) == <<h, SafeName[i]>>
Dir(r) == Path(host[r], item[r])

(* Earlier processes may have left a directory where runs work.            *)
Init ==
  /\ hosts \in Fleet
  /\ \E left \in SUBSET ((hosts \X Name) \ Stale) :
       disk = [p \in Place |-> CASE p \in Stale -> "file"
                                 [] p \in left  -> "ready"
                                 [] OTHER       -> "none"]
  /\ pc = [r \in Run |-> "idle"]
  /\ item = [r \in Run |-> SomeItem]
  /\ host = [r \in Run |-> SomeHost]
  /\ tracked = {} /\ stopped = {} /\ detached = {}
  /\ sweep \in SUBSET Item
  /\ aborted = FALSE
  /\ clean = Idle
  /\ late = {}
  /\ swept = {}

-----------------------------------------------------------------------------
(* A run: Create, then RunWithHooks.                                       *)

Started(r, i, h) ==
  /\ sweep = {} /\ ~aborted
  /\ pc[r] = "idle"
  /\ \A s \in tracked : item[s] # i
  /\ pc' = [pc EXCEPT ![r] = "look"]
  /\ item' = [item EXCEPT ![r] = i]
  /\ host' = [host EXCEPT ![r] = h]
  /\ tracked' = tracked \cup {r}
  /\ swept' = swept \ {i}
  /\ UNCHANGED <<hosts, disk, stopped, detached, sweep, aborted, clean, late>>

(* Altered: the clean-up goes on without the mutex.                        *)
StartWhileCleaning(r, i, h) == Started(r, i, h)

(* The scheduler starts a run of an item of which it tracks none; it holds *)
(* the mutex while it cleans up.                                           *)
Start(r, i, h) == clean.pc = "none" /\ Started(r, i, h)

At(r, step) ==
  /\ pc[r] = step
  /\ UNCHANGED <<hosts, sweep, aborted, clean, late, swept>>

Go(r, from, to) ==
  /\ At(r, from)
  /\ pc' = [pc EXCEPT ![r] = to]
  /\ UNCHANGED <<item, host, tracked, stopped, detached>>

End(r, from) ==
  /\ At(r, from)
  /\ pc' = [pc EXCEPT ![r] = "idle"]
  /\ item' = [item EXCEPT ![r] = SomeItem]
  /\ host' = [host EXCEPT ![r] = SomeHost]
  /\ stopped' = stopped \ {r}
  /\ detached' = detached \ {r}

(* A step of Create.  On a worker host look, clear and mkdir are one       *)
(* command; one whose caller is gone ends with itself.                     *)
Creates(r, from, to) ==
  IF r \in detached /\ to \notin {"clear", "mkdir"}
  THEN End(r, from) /\ UNCHANGED tracked
  ELSE Go(r, from, to)

(* Altered: whatever is at the path is replaced.                           *)
LookAndReplace(r) ==
  /\ Creates(r, "look", IF disk[Dir(r)] = "none" THEN "mkdir" ELSE "clear")
  /\ UNCHANGED disk

(* EnsureWorkspace: a directory is reused, anything else is removed ...    *)
Look(r) ==
  /\ Creates(r, "look", CASE IsDir(disk[Dir(r)]) -> "before"
                          [] disk[Dir(r)] = "file" -> "clear"
                          [] disk[Dir(r)] = "none" -> "mkdir")
  /\ UNCHANGED disk

Clear(r) ==
  /\ Creates(r, "clear", "mkdir")
  /\ disk' = [disk EXCEPT ![Dir(r)] = "none"]

(* ... and MkdirAll makes the directory, or finds it made.                 *)
Mkdir(r) ==
  /\ disk[Dir(r)] # "file"
  /\ Creates(r, "mkdir", "hook")
  /\ disk' = [disk EXCEPT ![Dir(r)] = IF @ = "none" THEN "raw" ELSE @]

(* after_create succeeds in an existing directory.                         *)
AfterCreate(r) ==
  /\ IsDir(disk[Dir(r)])
  /\ Creates(r, "hook", "before")
  /\ disk' = [disk EXCEPT ![Dir(r)] = "ready"]

Creating == {"look", "clear", "mkdir", "hook"}

(* Create fails: an access to the disk, or the hook, which leaves the      *)
(* directory as it is.  The context is not looked at.                      *)
CreateFails(r) ==
  /\ \E from \in Creating : Creates(r, from, "report")
  /\ UNCHANGED disk

(* The report of a run ends the entry of its item, whichever run that is.  *)
Untrack(i) == tracked' = {s \in tracked : item[s] # i}

(* Create fails on a worker host by its timeout or with the connection,    *)
(* which is reported, and the command goes on there.                       *)
CreateTimesOut(r) ==
  /\ clean.pc = "none"
  /\ r \notin detached
  /\ host[r] # Local
  /\ \E step \in Creating : At(r, step)
  /\ detached' = detached \cup {r}
  /\ stopped' = stopped \ {r}
  /\ Untrack(item[r])
  /\ UNCHANGED <<disk, pc, item, host>>

(* before_run, run in the directory.                                       *)
BeforeRun(r) ==
  /\ IsDir(disk[Dir(r)])
  /\ Go(r, "before", "body")
  /\ UNCHANGED disk

BeforeRunFails(r) == Go(r, "before", "after") /\ UNCHANGED disk

BodyEnds(r) == Go(r, "body", "after") /\ UNCHANGED disk

(* The after_run hook, whose failure is ignored.  A stopped run returns    *)
(* without a word.                                                         *)
AfterRun(r) ==
  /\ IF r \in stopped THEN End(r, "after") /\ UNCHANGED tracked
                       ELSE Go(r, "after", "report")
  /\ UNCHANGED disk

(* RunCompleted or RunFailed waits for the mutex and is delivered, even if *)
(* the run is stopped meanwhile.                                           *)
Report(r) ==
  /\ clean.pc = "none"
  /\ End(r, "report")
  /\ Untrack(item[r])
  /\ UNCHANGED disk

-----------------------------------------------------------------------------
(* Clean-up: Remove at one host after the other.                           *)

(* startupCleanup calls RemoveIssueWorkspaces without a host: all hosts.   *)
SweepItem(i) ==
  /\ ~aborted
  /\ clean.pc = "none"
  /\ i \in sweep
  /\ clean' = [Idle EXCEPT !.pc = "begin", !.item = i, !.todo = hosts]
  /\ UNCHANGED <<hosts, disk, runs, sweep, aborted, late, swept>>

(* The scheduler stops the run it tracks, because its item is done or for  *)
(* another reason.                                                         *)
StopRun(r, cleanup) ==
  /\ clean.pc = "none"
  /\ r \in tracked
  /\ tracked' = tracked \ {r}
  /\ stopped' = stopped \cup {r}
  /\ clean' = IF cleanup THEN [Idle EXCEPT !.pc = "begin", !.item = item[r],
                                           !.todo = {host[r]}]
                         ELSE clean
  /\ UNCHANGED <<hosts, disk, pc, item, host, detached, sweep, aborted, late, swept>>

(* A due retry finds its item done: no run of it is tracked, and there is  *)
(* no handle, so all hosts.                                                *)
CleanRetry(i) ==
  /\ sweep = {} /\ ~aborted
  /\ clean.pc = "none"
  /\ \A r \in tracked : item[r] # i
  /\ clean' = [Idle EXCEPT !.pc = "begin", !.item = i, !.todo = hosts]
  /\ UNCHANGED <<hosts, disk, runs, sweep, aborted, late, swept>>

Cleaning(s) ==
  /\ clean.pc = s
  /\ UNCHANGED <<hosts, runs, sweep, aborted, swept>>

(* The next host, in any order.  Locally the path is looked at first.      *)
CleanHost ==
  /\ Cleaning("begin")
  /\ \E h \in clean.todo :
       clean' = [clean EXCEPT !.pc = IF h = Local THEN "look" ELSE "hook",
                              !.host = h, !.todo = @ \ {h}]
  /\ UNCHANGED <<disk, late>>

Target == Path(clean.host, clean.item)

HostDone(failed) ==
  clean' = [clean EXCEPT !.pc = "begin", !.host = SomeHost, !.failed = @ \/ failed]

CleanLook ==
  /\ Cleaning("look")
  /\ \/ /\ disk[Target] = "none"
        /\ HostDone(FALSE)
     \/ /\ disk[Target] # "none"
        /\ clean' = [clean EXCEPT !.pc = IF IsDir(disk[Target]) THEN "hook" ELSE "remove"]
     \/ HostDone(TRUE)
  /\ UNCHANGED <<disk, late>>

(* before_remove succeeds or not.                                          *)
BeforeRemove ==
  /\ Cleaning("hook")
  /\ clean' = [clean EXCEPT !.pc = "remove"]
  /\ UNCHANGED <<disk, late>>

(* A removal that fails may have removed a part.                           *)
Parts(p) == {disk[p]} \cup IF IsDir(disk[p]) THEN {"raw"} ELSE {}

(* On a worker host the timeout, or the end of the connection, ends the    *)
(* call and not the removal, which may go on there.                        *)
Remove ==
  /\ Cleaning("remove")
  /\ \/ /\ disk' = [disk EXCEPT ![Target] = "none"]
        /\ HostDone(FALSE)
        /\ UNCHANGED late
     \/ /\ \E d \in Parts(Target) : disk' = [disk EXCEPT ![Target] = d]
        /\ HostDone(TRUE)
        /\ late' \in {late} \cup IF clean.host = Local THEN {} ELSE {late \cup {Target}}

(* A removal that has outlived its call removes more, ...                  *)
LateRemove(p) ==
  /\ p \in late
  /\ \E d \in Parts(p) \cup {"none"} : disk' = [disk EXCEPT ![p] = d]
  /\ UNCHANGED <<hosts, runs, sweep, aborted, clean, late, swept>>

(* ... until the last of them at the path ends.                            *)
LateRemoveEnds(p) ==
  /\ p \in late
  /\ late' = late \ {p}
  /\ UNCHANGED <<hosts, disk, runs, sweep, aborted, clean, swept>>

(* Altered: the error of the clean-up is dropped.                          *)
CleanIgnoringErrors ==
  /\ clean.pc = "begin"
  /\ clean.todo = {}
  /\ clean' = Idle
  /\ sweep' = sweep \ {clean.item}
  /\ swept' = swept \cup (sweep \cap {clean.item})
  /\ UNCHANGED <<hosts, disk, runs, aborted, late>>

(* All hosts done.  The start-up ends at the first item that fails; the    *)
(* scheduler ignores the error.                                            *)
CleanDone ==
  /\ clean.pc = "begin"
  /\ clean.todo = {}
  /\ clean' = Idle
  /\ IF clean.failed
     THEN /\ aborted' = (aborted \/ clean.item \in sweep)
          /\ UNCHANGED <<sweep, swept>>
     ELSE /\ sweep' = sweep \ {clean.item}
          /\ swept' = swept \cup (sweep \cap {clean.item})
          /\ UNCHANGED aborted
  /\ UNCHANGED <<hosts, disk, runs, late>>

-----------------------------------------------------------------------------

RunStep(r) ==
  \/ \E i \in Wanted, h \in hosts : Start(r, i, h)
  \/ Look(r) \/ Clear(r) \/ Mkdir(r) \/ AfterCreate(r) \/ CreateFails(r)
  \/ CreateTimesOut(r)
  \/ BeforeRun(r) \/ BeforeRunFails(r) \/ BodyEnds(r) \/ AfterRun(r) \/ Report(r)
  \/ \E cleanup \in BOOLEAN : StopRun(r, cleanup)

CleanStep ==
  \/ \E i \in Item : SweepItem(i)
  \/ \E i \in Wanted : CleanRetry(i)
  \/ CleanHost \/ CleanLook \/ BeforeRemove \/ Remove \/ CleanDone

LateStep == \E p \in late : LateRemove(p) \/ LateRemoveEnds(p)

(* The process gives up.                                                   *)
Aborted == aborted /\ UNCHANGED vars

Next == (\E r \in Run : RunStep(r)) \/ CleanStep \/ LateStep \/ Aborted

Spec == Init /\ [][Next]_vars

-----------------------------------------------------------------------------

(* Whatever stopped runs, untracked runs and clean-ups do meanwhile        *)
(* (manager.go:202, 518), the run that the scheduler tracks keeps the      *)
(* directory it works in.  Two exceptions are the code's: a removal that   *)
(* has outlived its timeout on a worker host hits a run started since      *)
(* (manager.go:503), and at a stale path another run may clear late.  An   *)
(* untracked run that nobody stopped is not protected: the clean-up of a   *)
(* due retry takes its directory away (runtime.go:404).                    *)
TrackedRunKeepsWorkspace ==
  [][\A r \in tracked :
       pc[r] = "body" /\ IsDir(disk[Dir(r)]) /\ ~IsDir(disk'[Dir(r)])
         => Dir(r) \in Stale \cup late]_vars

(* "reuse an existing directory without deleting its contents" (openspec   *)
(* workspace-lifecycle, 34): only a clean-up, be it a late one, takes a    *)
(* prepared directory away, except at a stale path.                        *)
ContentsKept ==
  [][\A p \in Place \ Stale : disk[p] = "ready" /\ disk'[p] # "ready"
       => p \in late \/ (clean.pc = "remove" /\ Target = p)]_vars

(* What the start-up has swept is gone on every host until it is wanted    *)
(* again: one host that fails neither hides the others nor goes unnoticed  *)
(* (manager.go:238).                                                       *)
SweepComplete == \A i \in swept, h \in hosts : disk[Path(h, i)] = "none"

(* "The system MUST treat `after_create` and `before_run` as blocking and  *)
(* fatal" (openspec workspace-lifecycle, 38): no run works in a directory  *)
(* whose after_create has not succeeded.                                   *)
PreparedBeforeRun == \A r \in Run : pc[r] = "body" => disk[Dir(r)] = "ready"
=============================================================================
