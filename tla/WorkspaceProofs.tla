---------------------------- MODULE WorkspaceProofs ----------------------------
(***************************************************************************)
(* Proofs about the directories of runs, for every set of items, runs,     *)
(* hosts and configurations.  Two facts carry them: at most one run of an  *)
(* item is tracked, and none while the item is being cleaned up; and only  *)
(* a path that was stale from the start is ever cleared by a run.          *)
(***************************************************************************)
EXTENDS Workspace, TLAPS

(* Items have directories of their own: identifiers of one tracker that    *)
(* differ do so in characters that safeIdentifier keeps.                   *)
OwnNames == \A i, j \in Item : SafeName[i] = SafeName[j] => i = j

RunPC == {"idle", "look", "clear", "mkdir", "hook", "before", "body", "after", "report"}
CleanType == [pc : {"none", "begin", "look", "hook", "remove"}, item : Item \cup {SomeItem},
              host : Host \cup {SomeHost}, todo : SUBSET Host, failed : BOOLEAN]

Busy(r) == pc[r] # "idle"

TypeInv ==
  /\ hosts \subseteq Host
  /\ disk \in [Place -> {"none", "file", "raw", "ready"}]
  /\ pc \in [Run -> RunPC]
  /\ item \in [Run -> Item \cup {SomeItem}]
  /\ host \in [Run -> Host \cup {SomeHost}]
  /\ \A r \in Run : Busy(r) => item[r] \in Item /\ host[r] \in hosts
  /\ tracked \subseteq Run /\ stopped \subseteq Run /\ detached \subseteq Run
  /\ late \subseteq Place
  /\ sweep \subseteq Item /\ swept \subseteq Item
  /\ clean \in CleanType
  /\ clean.pc # "none" => clean.item \in Item /\ clean.todo \subseteq hosts
  /\ clean.pc \in {"look", "hook", "remove"} => clean.host \in hosts

(* What is no directory was there from the start, and only such a path is  *)
(* cleared by a run.                                                       *)
ClearsOnlyStale ==
  /\ \A p \in Place : disk[p] = "file" => p \in Stale
  /\ \A r \in Run : pc[r] = "clear" => Dir(r) \in Stale

(* A run is tracked, stopped or detached, or none of these, while it is at *)
(* work.                                                                   *)
OneStatus ==
  /\ \A r \in tracked \cup stopped \cup detached : Busy(r)
  /\ tracked \cap stopped = {} /\ tracked \cap detached = {}

(* At most one run of an item is tracked, none during its clean-up.        *)
OneAtAnItem == \A r, s \in tracked : item[r] = item[s] => r = s
CleansAlone == clean.pc # "none" => \A r \in tracked : item[r] # clean.item

(* The start-up cleans before any run starts ...                           *)
SweepsFirst == sweep # {} => \A r \in Run : ~Busy(r)
(* ... a run takes its item off the swept ones, ...                        *)
WantedAgain == \A r \in Run : Busy(r) => item[r] \notin swept
(* ... and the hosts that the clean-up of an item has done without failure *)
(* are clean.                                                              *)
DoneIsClean ==
  clean.pc # "none" /\ clean.item \in sweep /\ ~clean.failed =>
    \A h \in hosts \ clean.todo :
      clean.pc = "begin" \/ h # clean.host => disk[Path(h, clean.item)] = "none"

-----------------------------------------------------------------------------

LEMMA PathIsPlace ==
  ASSUME NEW h \in Host, NEW i \in Item
  PROVE  Path(h, i) \in Place
BY WorkspaceAssumption DEF Path, Place

LEMMA TypeStart == Init => TypeInv
<1> SUFFICES ASSUME Init PROVE TypeInv
  OBVIOUS
<1>1. hosts \subseteq Host
  BY WorkspaceAssumption DEF Init
<1>2. disk \in [Place -> {"none", "file", "raw", "ready"}]
  BY DEF Init
<1>3. clean \in CleanType /\ clean.pc = "none"
  BY DEF Init, CleanType, Idle
<1> QED BY <1>1, <1>2, <1>3 DEF Init, TypeInv, RunPC, Busy

(* The directory of a run at work, and the target of a clean-up, are       *)
(* places.                                                                 *)
LEMMA DirIsPlace ==
  ASSUME TypeInv, NEW r \in Run, Busy(r)
  PROVE  Dir(r) \in Place
BY PathIsPlace DEF TypeInv, Dir

LEMMA TargetIsPlace ==
  ASSUME TypeInv, clean.pc \in {"look", "hook", "remove"}
  PROVE  Target \in Place
BY PathIsPlace DEF TypeInv, Target

(* What a step of Create does to the run, ...                              *)
LEMMA CreatesRun ==
  ASSUME TypeInv, NEW r \in Run, NEW from \in RunPC \ {"idle"}, NEW to \in RunPC \ {"idle"},
         Creates(r, from, to)
  PROVE  /\ pc[r] = from /\ UNCHANGED <<hosts, sweep, aborted, clean, late, swept, tracked>>
         /\ \/ /\ pc' = [pc EXCEPT ![r] = to] /\ UNCHANGED <<item, host, stopped, detached>>
            \/ /\ r \in detached /\ pc' = [pc EXCEPT ![r] = "idle"]
               /\ item' = [item EXCEPT ![r] = SomeItem] /\ host' = [host EXCEPT ![r] = SomeHost]
               /\ stopped' = stopped \ {r} /\ detached' = detached \ {r}
BY DEF Creates, Go, End, At

(* ... and every step of a run but its start and its stop.                 *)
Works(r) ==
  \/ Look(r) \/ Clear(r) \/ Mkdir(r) \/ AfterCreate(r) \/ CreateFails(r) \/ CreateTimesOut(r)
  \/ BeforeRun(r) \/ BeforeRunFails(r) \/ BodyEnds(r) \/ AfterRun(r) \/ Report(r)

Stays(r) == item'[r] = item[r] /\ host'[r] = host[r]

LEMMA WorksRun ==
  ASSUME TypeInv, OneStatus, NEW r \in Run, Works(r)
  PROVE  /\ Busy(r) /\ UNCHANGED <<hosts, sweep, aborted, clean, late, swept>>
         /\ pc' \in [Run -> RunPC] /\ item' \in [Run -> Item \cup {SomeItem}]
         /\ host' \in [Run -> Host \cup {SomeHost}]
         /\ \A s \in Run \ {r} : pc'[s] = pc[s] /\ item'[s] = item[s] /\ host'[s] = host[s]
         /\ Busy(r)' => Stays(r)
         /\ tracked' \subseteq tracked /\ stopped' \subseteq stopped
         /\ detached' \subseteq detached \cup {r}
         /\ Busy(r)' => r \notin tracked' \/ r \notin detached'
         /\ ~Busy(r)' => r \notin tracked' \cup stopped' \cup detached'
<1> DEFINE Result ==
         /\ Busy(r) /\ UNCHANGED <<hosts, sweep, aborted, clean, late, swept>>
         /\ pc' \in [Run -> RunPC] /\ item' \in [Run -> Item \cup {SomeItem}]
         /\ host' \in [Run -> Host \cup {SomeHost}]
         /\ \A s \in Run \ {r} : pc'[s] = pc[s] /\ item'[s] = item[s] /\ host'[s] = host[s]
         /\ Busy(r)' => Stays(r)
         /\ tracked' \subseteq tracked /\ stopped' \subseteq stopped
         /\ detached' \subseteq detached \cup {r}
         /\ Busy(r)' => r \notin tracked' \/ r \notin detached'
         /\ ~Busy(r)' => r \notin tracked' \cup stopped' \cup detached'
<1>1. ASSUME NEW from \in RunPC \ {"idle"}, NEW to \in RunPC \ {"idle"}, Creates(r, from, to)
      PROVE  Result
  BY <1>1, CreatesRun DEF TypeInv, OneStatus, Busy, Stays, RunPC
<1>2. CASE Look(r)
  <2>1. Busy(r)
    BY <1>2 DEF Look, Creates, Go, End, At, Busy
  <2>2. disk[Dir(r)] \in {"none", "file", "raw", "ready"}
    BY <2>1, DirIsPlace DEF TypeInv
  <2>3. PICK to \in {"before", "clear", "mkdir"} : Creates(r, "look", to)
    BY <1>2, <2>2 DEF Look, IsDir
  <2> QED BY <1>1, <2>3 DEF RunPC
<1>3. CASE Clear(r) \/ Mkdir(r) \/ AfterCreate(r) \/ CreateFails(r)
  BY <1>1, <1>3 DEF Clear, Mkdir, AfterCreate, CreateFails, Creating, RunPC
<1>4. CASE CreateTimesOut(r)
  BY <1>4 DEF CreateTimesOut, At, Creating, Untrack, TypeInv, OneStatus, Busy, Stays
<1>5. CASE BeforeRun(r) \/ BeforeRunFails(r) \/ BodyEnds(r)
  BY <1>5 DEF BeforeRun, BeforeRunFails, BodyEnds, Go, At, TypeInv, OneStatus, Busy, Stays, RunPC
<1>6. CASE AfterRun(r)
  BY <1>6 DEF AfterRun, Go, End, At, TypeInv, OneStatus, Busy, Stays, RunPC
<1>7. CASE Report(r)
  BY <1>7 DEF Report, End, At, Untrack, TypeInv, OneStatus, Busy, Stays, RunPC
<1> QED BY <1>2, <1>3, <1>4, <1>5, <1>6, <1>7 DEF Works

(* What such a step does to the disk: it touches the run's path only, ...  *)
LEMMA WorksDisk ==
  ASSUME TypeInv, NEW r \in Run, Works(r)
  PROVE  /\ disk' \in [Place -> {"none", "file", "raw", "ready"}]
         /\ \A p \in Place : p # Dir(r) => disk'[p] = disk[p]
         /\ \A p \in Place : disk'[p] = "file" => disk[p] = "file"
         /\ \A p \in Place : IsDir(disk[p]) /\ ~IsDir(disk'[p]) => pc[r] = "clear" /\ p = Dir(r)
         /\ \A p \in Place : disk[p] = "ready" /\ disk'[p] # "ready" =>
              pc[r] = "clear" /\ p = Dir(r)
<1>1. CASE Clear(r)
  <2>1. pc[r] = "clear"
    BY <1>1 DEF Clear, Creates, Go, End, At
  <2> QED BY <1>1, <2>1 DEF Clear, TypeInv, IsDir
<1>2. CASE Mkdir(r) \/ AfterCreate(r)
  BY <1>2 DEF Mkdir, AfterCreate, TypeInv, IsDir
<1>3. CASE UNCHANGED disk
  BY <1>3 DEF TypeInv
<1> QED
  BY <1>1, <1>2, <1>3
  DEF Works, Look, CreateFails, CreateTimesOut, BeforeRun, BeforeRunFails, BodyEnds, AfterRun, Report

LEMMA RunTypeStep ==
  ASSUME TypeInv, OneStatus, NEW r \in Run, RunStep(r)
  PROVE  TypeInv' /\ OneStatus'
<1>1. ASSUME NEW i \in Wanted, NEW h \in hosts, Start(r, i, h) PROVE TypeInv' /\ OneStatus'
  BY <1>1, WorkspaceAssumption DEF Start, Started, TypeInv, OneStatus, RunPC, Busy
<1>2. CASE Works(r)
  <2>1. TypeInv'
    <3>1. disk' \in [Place -> {"none", "file", "raw", "ready"}]
      BY <1>2, WorksDisk
    <3>2. \A s \in Run : Busy(s)' => Busy(s) /\ item'[s] = item[s] /\ host'[s] = host[s]
      BY <1>2, WorksRun DEF Busy, Stays
    <3>3. /\ UNCHANGED <<hosts, sweep, clean, late, swept>>
          /\ pc' \in [Run -> RunPC] /\ item' \in [Run -> Item \cup {SomeItem}]
          /\ host' \in [Run -> Host \cup {SomeHost}]
      BY <1>2, WorksRun
    <3>4. tracked' \subseteq Run /\ stopped' \subseteq Run /\ detached' \subseteq Run
      BY <1>2, WorksRun DEF TypeInv
    <3> QED BY <3>1, <3>2, <3>3, <3>4 DEF TypeInv
  <2>2. OneStatus'
    <3>1. \A s \in Run \ {r} : Busy(s)' <=> Busy(s)
      BY <1>2, WorksRun DEF Busy
    <3>2. /\ tracked' \subseteq tracked /\ stopped' \subseteq stopped
          /\ detached' \subseteq detached \cup {r}
          /\ r \notin tracked' \/ r \notin detached'
          /\ ~Busy(r)' => r \notin tracked' \cup stopped' \cup detached'
      BY <1>2, WorksRun
    <3> QED BY <2>1, <3>1, <3>2 DEF OneStatus, TypeInv
  <2> QED BY <2>1, <2>2
<1>3. ASSUME NEW cleanup \in BOOLEAN, StopRun(r, cleanup) PROVE TypeInv' /\ OneStatus'
  <2>1. item[r] \in Item /\ host[r] \in hosts /\ Busy(r)
    BY <1>3 DEF StopRun, TypeInv, OneStatus
  <2>2. /\ clean' \in CleanType
        /\ clean'.pc # "none" => clean'.item \in Item /\ clean'.todo \subseteq hosts
        /\ clean'.pc \notin {"look", "hook", "remove"}
    <3>1. hosts \subseteq Host /\ clean \in CleanType /\ clean.pc = "none"
      BY <1>3 DEF StopRun, TypeInv
    <3>2. CASE clean' = clean
      BY <3>1, <3>2
    <3>3. CASE clean' = [Idle EXCEPT !.pc = "begin", !.item = item[r], !.todo = {host[r]}]
      BY <2>1, <3>1, <3>3 DEF CleanType, Idle
    <3> QED BY <1>3, <3>2, <3>3 DEF StopRun
  <2>3. TypeInv'
    BY <1>3, <2>2 DEF StopRun, TypeInv, Busy
  <2>4. OneStatus'
    BY <1>3, <2>1 DEF StopRun, OneStatus, Busy
  <2> QED BY <2>3, <2>4
<1> QED BY <1>1, <1>2, <1>3 DEF RunStep, Works

LEMMA CleanTypeStep ==
  ASSUME TypeInv, CleanStep
  PROVE  TypeInv'
<1>1. ASSUME NEW i \in Item, SweepItem(i) \/ CleanRetry(i) PROVE TypeInv'
  BY <1>1 DEF SweepItem, CleanRetry, TypeInv, CleanType, Busy, Idle, runs
<1>2. CASE CleanHost
  <2>1. PICK h \in clean.todo :
          clean' = [clean EXCEPT !.pc = IF h = Local THEN "look" ELSE "hook",
                                 !.host = h, !.todo = @ \ {h}]
    BY <1>2 DEF CleanHost
  <2>2. h \in hosts /\ h \in Host /\ clean.item \in Item /\ clean.todo \subseteq hosts
    BY <1>2, <2>1 DEF CleanHost, Cleaning, TypeInv
  <2>3. /\ clean' \in CleanType
        /\ clean'.item = clean.item /\ clean'.host = h /\ clean'.todo \subseteq hosts
    BY <2>1, <2>2 DEF TypeInv, CleanType
  <2> QED BY <1>2, <2>2, <2>3 DEF CleanHost, Cleaning, TypeInv, Busy, runs
<1>3. CASE CleanLook
  <2>1. clean' \in CleanType /\ clean'.item = clean.item /\ clean'.todo = clean.todo
        /\ clean.pc = "look"
        /\ (clean'.pc \in {"look", "hook", "remove"} => clean'.host = clean.host)
    BY <1>3 DEF CleanLook, Cleaning, HostDone, TypeInv, CleanType
  <2> QED BY <1>3, <2>1 DEF CleanLook, Cleaning, TypeInv, Busy, runs
<1>4. CASE BeforeRemove
  BY <1>4 DEF BeforeRemove, Cleaning, TypeInv, CleanType, Busy, runs
<1>5. CASE Remove
  <2>1. /\ UNCHANGED <<hosts, runs, sweep, aborted, swept>>
        /\ clean' \in CleanType /\ clean'.item = clean.item /\ clean'.todo = clean.todo
        /\ clean.pc = "remove" /\ clean'.pc = "begin"
    BY <1>5 DEF Remove, Cleaning, HostDone, TypeInv, CleanType
  <2>2. disk' \in [Place -> {"none", "file", "raw", "ready"}]
    BY <1>5 DEF Remove, Parts, TypeInv
  <2>3. late' \subseteq Place
    BY <1>5, <2>1, TargetIsPlace DEF Remove, TypeInv
  <2> QED BY <2>1, <2>2, <2>3 DEF TypeInv, Busy, runs
<1>6. CASE CleanDone
  BY <1>6 DEF CleanDone, TypeInv, CleanType, Busy, Idle, runs
<1> QED BY <1>1, <1>2, <1>3, <1>4, <1>5, <1>6, WorkspaceAssumption DEF CleanStep

(* A late removal brings nothing into being.                               *)
LEMMA LateDisk ==
  ASSUME TypeInv, LateStep
  PROVE  /\ UNCHANGED <<hosts, runs, sweep, aborted, clean, swept>> /\ late' \subseteq late
         /\ disk' \in [Place -> {"none", "file", "raw", "ready"}]
         /\ \A p \in Place : p \notin late => disk'[p] = disk[p]
         /\ \A p \in Place : disk'[p] = "file" => disk[p] = "file"
         /\ \A p \in Place : disk[p] = "none" => disk'[p] = "none"
<1>1. ASSUME NEW p \in late, LateRemove(p) \/ LateRemoveEnds(p)
      PROVE  /\ UNCHANGED <<hosts, runs, sweep, aborted, clean, swept>> /\ late' \subseteq late
             /\ disk' \in [Place -> {"none", "file", "raw", "ready"}]
             /\ \A q \in Place : q \notin late => disk'[q] = disk[q]
             /\ \A q \in Place : disk'[q] = "file" => disk[q] = "file"
             /\ \A q \in Place : disk[q] = "none" => disk'[q] = "none"
  BY <1>1 DEF LateRemove, LateRemoveEnds, Parts, IsDir, TypeInv
<1> QED BY <1>1 DEF LateStep

LEMMA LateTypeStep ==
  ASSUME TypeInv, LateStep
  PROVE  TypeInv'
BY LateDisk DEF TypeInv, Busy, runs

LEMMA TypeStep == TypeInv /\ OneStatus /\ [Next]_vars => TypeInv' /\ OneStatus'
<1> SUFFICES ASSUME TypeInv, OneStatus, [Next]_vars PROVE TypeInv' /\ OneStatus'
  OBVIOUS
<1>1. CASE Aborted \/ UNCHANGED vars
  BY <1>1 DEF Aborted, vars, runs, TypeInv, OneStatus, Busy
<1>2. CASE CleanStep
  <2>1. UNCHANGED runs
    BY <1>2 DEF CleanStep, SweepItem, CleanRetry, CleanHost, CleanLook, BeforeRemove, Remove,
       CleanDone, Cleaning
  <2> QED BY <1>2, <2>1, CleanTypeStep DEF OneStatus, runs, Busy
<1>3. CASE LateStep
  BY <1>3, LateTypeStep, LateDisk DEF OneStatus, runs, Busy
<1> QED BY <1>1, <1>2, <1>3, RunTypeStep DEF Next

LEMMA StatusStart == Init => OneStatus
BY DEF Init, OneStatus

-----------------------------------------------------------------------------

LEMMA ClearsStart == Init => ClearsOnlyStale
BY DEF Init, ClearsOnlyStale

LEMMA ClearsStep ==
  TypeInv /\ OneStatus /\ ClearsOnlyStale /\ [Next]_vars => ClearsOnlyStale'
<1> SUFFICES ASSUME TypeInv, OneStatus, ClearsOnlyStale, [Next]_vars PROVE ClearsOnlyStale'
  OBVIOUS
<1>1. ASSUME NEW r \in Run, NEW i \in Wanted, NEW h \in hosts, Start(r, i, h)
      PROVE  ClearsOnlyStale'
  BY <1>1 DEF Start, Started, ClearsOnlyStale, TypeInv, Dir
<1>2. ASSUME NEW r \in Run, Works(r) PROVE ClearsOnlyStale'
  <2>1. \A p \in Place : disk'[p] = "file" => p \in Stale
    BY <1>2, WorksDisk DEF ClearsOnlyStale
  <2>2. \A s \in Run \ {r} : pc'[s] = "clear" => Dir(s)' \in Stale
    BY <1>2, WorksRun DEF ClearsOnlyStale, Dir
  <2>3. ASSUME pc'[r] = "clear" PROVE Look(r) \/ pc[r] = "clear"
    <3>1. CASE Clear(r) \/ Mkdir(r) \/ AfterCreate(r) \/ CreateFails(r)
      BY <2>3, <3>1 DEF Clear, Mkdir, AfterCreate, CreateFails, Creates, Go, End, At, TypeInv
    <3>2. CASE CreateTimesOut(r)
      BY <2>3, <3>2 DEF CreateTimesOut
    <3>3. CASE \/ BeforeRun(r) \/ BeforeRunFails(r) \/ BodyEnds(r) \/ AfterRun(r) \/ Report(r)
      BY <2>3, <3>3 DEF BeforeRun, BeforeRunFails, BodyEnds, AfterRun, Report, Go, End, At, TypeInv
    <3> QED BY <1>2, <3>1, <3>2, <3>3 DEF Works
  <2>4. pc'[r] = "clear" => Dir(r)' = Dir(r) /\ Dir(r) \in Place
    BY <1>2, WorksRun, DirIsPlace DEF Busy, Stays, Dir
  <2>5. Look(r) /\ pc'[r] = "clear" => disk[Dir(r)] = "file"
    <3> SUFFICES ASSUME Look(r), pc'[r] = "clear" PROVE disk[Dir(r)] = "file"
      OBVIOUS
    <3>1. disk[Dir(r)] \in {"none", "file", "raw", "ready"}
      BY <2>4 DEF TypeInv
    <3> QED BY <3>1 DEF Look, Creates, Go, End, At, TypeInv, IsDir
  <2> QED BY <2>1, <2>2, <2>3, <2>4, <2>5 DEF ClearsOnlyStale
<1>3. CASE Remove
  <2>1. \A p \in Place : disk'[p] = "file" => disk[p] = "file"
    BY <1>3, TargetIsPlace DEF Remove, Cleaning, Parts, TypeInv
  <2> QED BY <1>3, <2>1 DEF Remove, Cleaning, runs, ClearsOnlyStale, Dir
<1>4. CASE LateStep
  BY <1>4, LateDisk DEF runs, ClearsOnlyStale, Dir
<1>5. CASE UNCHANGED <<disk, pc, item, host>>
  BY <1>5 DEF ClearsOnlyStale, Dir
<1> QED
  BY <1>1, <1>2, <1>3, <1>4, <1>5
  DEF Next, RunStep, Works, CleanStep, StopRun, SweepItem, CleanRetry, CleanHost, CleanLook,
      BeforeRemove, CleanDone, Cleaning, Aborted, vars, runs

-----------------------------------------------------------------------------
(* The runs of an item, and the order of clean-ups and runs.               *)

RunsInv == OneAtAnItem /\ CleansAlone /\ SweepsFirst

LEMMA RunsStep == TypeInv /\ OneStatus /\ RunsInv /\ [Next]_vars => RunsInv'
<1> SUFFICES ASSUME TypeInv, OneStatus, RunsInv, [Next]_vars PROVE RunsInv'
  OBVIOUS
<1> USE DEF RunsInv, OneAtAnItem, CleansAlone, SweepsFirst
<1>1. ASSUME NEW r \in Run, NEW i \in Wanted, NEW h \in hosts, Start(r, i, h) PROVE RunsInv'
  BY <1>1, WorkspaceAssumption DEF Start, Started, TypeInv, OneStatus, Busy
<1>2. ASSUME NEW r \in Run, Works(r) PROVE RunsInv'
  <2>1. \A s \in tracked' : s \in tracked /\ item'[s] = item[s]
    BY <1>2, WorksRun DEF TypeInv, Stays
  <2>2. UNCHANGED <<sweep, clean>> /\ \A s \in Run : Busy(s)' => Busy(s)
    BY <1>2, WorksRun DEF Busy
  <2> QED BY <2>1, <2>2
<1>3. ASSUME NEW r \in Run, NEW cleanup \in BOOLEAN, StopRun(r, cleanup) PROVE RunsInv'
  <2>1. clean'.pc # "none" => clean'.item = item[r]
    BY <1>3 DEF StopRun, Idle
  <2> QED BY <1>3, <2>1 DEF StopRun, Busy, TypeInv
<1>4. ASSUME NEW i \in Item, SweepItem(i) \/ CleanRetry(i) PROVE RunsInv'
  <2>1. clean' = [Idle EXCEPT !.pc = "begin", !.item = i, !.todo = hosts] /\ UNCHANGED runs
    BY <1>4 DEF SweepItem, CleanRetry
  <2>2. clean'.item = i
    BY <2>1 DEF Idle
  <2>3. sweep' = sweep /\ \A r \in tracked : item[r] # i
    BY <1>4 DEF SweepItem, CleanRetry, OneStatus, TypeInv
  <2> QED BY <2>1, <2>2, <2>3 DEF Busy, runs
<1>5. CASE CleanHost \/ CleanLook \/ BeforeRemove \/ Remove
  <2>1. clean'.item = clean.item /\ clean.pc # "none" /\ UNCHANGED <<runs, sweep>>
    BY <1>5 DEF CleanHost, CleanLook, BeforeRemove, Remove, Cleaning, HostDone, TypeInv,
       CleanType
  <2> QED BY <2>1 DEF runs, Busy
<1>6. CASE CleanDone
  BY <1>6 DEF CleanDone, runs, Busy, Idle
<1>7. CASE LateStep
  BY <1>7, LateDisk DEF runs, Busy
<1>8. CASE Aborted \/ UNCHANGED vars
  BY <1>8 DEF Aborted, vars, runs, Busy
<1> QED BY <1>1, <1>2, <1>3, <1>4, <1>5, <1>6, <1>7, <1>8, WorkspaceAssumption
        DEF Next, RunStep, Works, CleanStep

LEMMA RunsStart == Init => RunsInv
BY DEF Init, RunsInv, OneAtAnItem, CleansAlone, SweepsFirst, Busy, Idle

-----------------------------------------------------------------------------
(* Nobody takes its directory away from the run the scheduler tracks.      *)

(* Every step of anybody keeps the directory of the run, unless a removal  *)
(* goes on there that has outlived its call, or the path is stale.         *)
THEOREM WorkKeepsItsWorkspace == OwnNames => (Spec => TrackedRunKeepsWorkspace)
<1> SUFFICES ASSUME OwnNames PROVE Spec => TrackedRunKeepsWorkspace
  OBVIOUS
<1>1. TypeInv /\ OneStatus /\ ClearsOnlyStale /\ RunsInv /\ [Next]_vars
        => [\A r \in tracked :
              pc[r] = "body" /\ IsDir(disk[Dir(r)]) /\ ~IsDir(disk'[Dir(r)])
                => Dir(r) \in Stale \cup late]_vars
  <2> SUFFICES ASSUME TypeInv, OneStatus, ClearsOnlyStale, RunsInv, [Next]_vars,
                      NEW r \in tracked, pc[r] = "body",
                      IsDir(disk[Dir(r)]), ~IsDir(disk'[Dir(r)])
               PROVE  Dir(r) \in Stale \cup late
    OBVIOUS
  <2>1. Busy(r) /\ r \in Run /\ Dir(r) \in Place /\ item[r] \in Item /\ disk # disk'
    BY DirIsPlace DEF TypeInv, Busy
  <2>2. ASSUME NEW s \in Run, Works(s) PROVE Dir(r) \in Stale
    BY <2>1, <2>2, WorksDisk DEF ClearsOnlyStale
  <2>3. CASE Remove
    <3>1. clean.pc = "remove" /\ Target = Dir(r)
      BY <2>1, <2>3 DEF Remove, Cleaning, TypeInv
    <3>2. item[r] = clean.item /\ clean.item \in Item
      BY <2>1, <3>1 DEF OwnNames, Target, Dir, Path, TypeInv
    <3> QED BY <3>1, <3>2 DEF RunsInv, CleansAlone
  <2>4. CASE LateStep
    BY <2>1, <2>4, LateDisk
  <2> QED
    BY <2>1, <2>2, <2>3, <2>4
    DEF Next, RunStep, Works, CleanStep, Start, Started, StopRun, SweepItem, CleanRetry,
        CleanHost, CleanLook, BeforeRemove, CleanDone, Cleaning, Aborted, vars
<1>2. TypeInv /\ OneStatus /\ ClearsOnlyStale /\ RunsInv /\ [Next]_vars
        => TypeInv' /\ OneStatus' /\ ClearsOnlyStale' /\ RunsInv'
  BY TypeStep, ClearsStep, RunsStep
<1> QED BY <1>1, <1>2, TypeStart, StatusStart, ClearsStart, RunsStart, PTL
        DEF Spec, TrackedRunKeepsWorkspace

-----------------------------------------------------------------------------
(* A prepared directory is kept until it is cleaned up.                    *)

THEOREM ContentsAreKept == Spec => ContentsKept
<1>1. TypeInv /\ OneStatus /\ ClearsOnlyStale /\ [Next]_vars
        => [\A p \in Place \ Stale : disk[p] = "ready" /\ disk'[p] # "ready"
              => p \in late \/ (clean.pc = "remove" /\ Target = p)]_vars
  <2> SUFFICES ASSUME TypeInv, ClearsOnlyStale, [Next]_vars, NEW p \in Place \ Stale,
                      disk[p] = "ready", disk'[p] # "ready"
               PROVE  p \in late \/ (clean.pc = "remove" /\ Target = p)
    OBVIOUS
  <2>1. disk # disk'
    OBVIOUS
  <2>2. ASSUME NEW r \in Run, Works(r) PROVE FALSE
    BY <2>2, WorksDisk DEF ClearsOnlyStale
  <2>3. CASE Remove
    BY <2>3 DEF Remove, Cleaning, TypeInv
  <2>4. CASE LateStep
    BY <2>4, LateDisk
  <2> QED
    BY <2>1, <2>2, <2>3, <2>4
    DEF Next, RunStep, Works, CleanStep, Start, Started, StopRun, SweepItem, CleanRetry,
        CleanHost, CleanLook, BeforeRemove, CleanDone, Cleaning, Aborted, vars
<1>2. TypeInv /\ OneStatus /\ ClearsOnlyStale /\ [Next]_vars
        => TypeInv' /\ OneStatus' /\ ClearsOnlyStale'
  BY TypeStep, ClearsStep
<1> QED BY <1>1, <1>2, TypeStart, StatusStart, ClearsStart, PTL DEF Spec, ContentsKept

-----------------------------------------------------------------------------
(* What the start-up has swept stays away until it is wanted again.        *)

SweepInv == SweepsFirst /\ WantedAgain /\ DoneIsClean /\ SweepComplete

(* A run touches no swept directory: its item is not swept, and names are  *)
(* the items' own.                                                         *)
LEMMA RunsTouchNothingSwept ==
  ASSUME OwnNames, TypeInv, SweepInv, NEW r \in Run, Busy(r), NEW i \in swept, NEW h \in hosts
  PROVE  Dir(r) # Path(h, i)
BY DEF OwnNames, TypeInv, SweepInv, WantedAgain, Dir, Path

LEMMA RunSweepStep ==
  ASSUME OwnNames, TypeInv, OneStatus, SweepInv, NEW r \in Run, RunStep(r)
  PROVE  SweepInv'
<1>1. ASSUME NEW i \in Wanted, NEW h \in hosts, Start(r, i, h) PROVE SweepInv'
  BY <1>1 DEF Start, Started, SweepInv, SweepsFirst, WantedAgain, DoneIsClean, SweepComplete,
     TypeInv, Busy
<1>2. ASSUME NEW cleanup \in BOOLEAN, StopRun(r, cleanup) PROVE SweepInv'
  <2>1. sweep = {} /\ sweep' = sweep
    BY <1>2 DEF StopRun, SweepInv, SweepsFirst, OneStatus, TypeInv
  <2>2. UNCHANGED <<hosts, disk, pc, item, swept>>
    BY <1>2 DEF StopRun
  <2> QED BY <2>1, <2>2 DEF SweepInv, SweepsFirst, WantedAgain, DoneIsClean, SweepComplete, Busy,
             Path
<1>3. CASE Works(r)
  <2>1. Busy(r) /\ sweep = {} /\ UNCHANGED <<hosts, sweep, clean, swept>>
    BY <1>3, WorksRun DEF SweepInv, SweepsFirst
  <2>2. \A s \in Run : Busy(s)' => Busy(s) /\ item'[s] = item[s]
    BY <1>3, WorksRun DEF Busy, Stays
  <2>3. \A p \in Place : p # Dir(r) => disk'[p] = disk[p]
    BY <1>3, WorksDisk
  <2>4. SweepComplete'
    <3> SUFFICES ASSUME NEW i \in swept, NEW h \in hosts PROVE disk'[Path(h, i)] = "none"
      BY <2>1 DEF SweepComplete, Path
    <3>1. Path(h, i) \in Place /\ Path(h, i) # Dir(r)
      BY <2>1, PathIsPlace, RunsTouchNothingSwept DEF TypeInv
    <3> QED BY <2>3, <3>1 DEF SweepInv, SweepComplete
  <2> QED BY <2>1, <2>2, <2>4 DEF SweepInv, SweepsFirst, WantedAgain, DoneIsClean
<1> QED BY <1>1, <1>2, <1>3 DEF RunStep, Works

LEMMA CleanSweepStep ==
  ASSUME TypeInv, SweepInv, CleanStep
  PROVE  SweepInv'
<1> USE DEF SweepInv, SweepsFirst, WantedAgain, SweepComplete
<1>1. ASSUME NEW i \in Item, SweepItem(i) \/ CleanRetry(i) PROVE SweepInv'
  <2>1. clean'.todo = hosts
    BY <1>1 DEF SweepItem, CleanRetry, Idle
  <2> QED BY <1>1, <2>1 DEF SweepItem, CleanRetry, DoneIsClean, runs, Busy
<1>2. CASE CleanHost
  <2>1. PICK h \in clean.todo :
          clean' = [clean EXCEPT !.pc = IF h = Local THEN "look" ELSE "hook",
                                 !.host = h, !.todo = @ \ {h}]
    BY <1>2 DEF CleanHost
  <2>2. /\ clean'.host = h /\ clean'.todo = clean.todo \ {h} /\ clean'.item = clean.item
        /\ clean'.failed = clean.failed /\ clean.pc = "begin"
    BY <1>2, <2>1 DEF CleanHost, Cleaning, TypeInv, CleanType
  <2> QED BY <1>2, <2>2 DEF CleanHost, Cleaning, DoneIsClean, runs, Busy, Path
<1>3. CASE CleanLook \/ BeforeRemove \/ Remove
  <2>1. /\ clean.pc \in {"look", "hook", "remove"} /\ UNCHANGED <<hosts, runs, sweep, swept>>
        /\ clean'.item = clean.item /\ clean'.todo = clean.todo
        /\ clean'.pc # "begin" => clean'.host = clean.host /\ clean'.failed = clean.failed
        /\ clean'.pc = "begin" /\ ~clean'.failed =>
             ~clean.failed /\ disk'[Target] = "none"
    <3>1. CASE CleanLook
      BY <1>3, <3>1 DEF CleanLook, Cleaning, HostDone, TypeInv, CleanType
    <3>2. CASE BeforeRemove
      BY <1>3, <3>2 DEF BeforeRemove, Cleaning, TypeInv, CleanType
    <3>3. CASE Remove
      BY <1>3, <3>3, TargetIsPlace DEF Remove, Cleaning, HostDone, TypeInv, CleanType
    <3> QED BY <1>3, <3>1, <3>2, <3>3
  <2>2. \A p \in Place : disk[p] = "none" => disk'[p] = "none"
    BY <1>3 DEF CleanLook, BeforeRemove, Remove, Parts, TypeInv, IsDir
  <2>3. SweepComplete'
    <3> SUFFICES ASSUME NEW i \in swept, NEW h \in hosts PROVE disk'[Path(h, i)] = "none"
      BY <2>1 DEF Path
    <3>1. Path(h, i) \in Place
      BY PathIsPlace DEF TypeInv
    <3> QED BY <2>2, <3>1
  <2>4. DoneIsClean'
    <3> SUFFICES ASSUME clean'.pc # "none", clean.item \in sweep, ~clean'.failed,
                        NEW h \in hosts \ clean.todo, clean'.pc = "begin" \/ h # clean'.host
                 PROVE  disk'[Path(h, clean.item)] = "none"
      BY <2>1 DEF DoneIsClean, Path
    <3>1. Path(h, clean.item) \in Place /\ ~clean.failed
      BY <2>1, PathIsPlace DEF TypeInv
    <3>2. CASE h = clean.host
      BY <2>1, <3>2 DEF Target
    <3>3. CASE h # clean.host
      BY <2>1, <2>2, <3>1, <3>3 DEF DoneIsClean
    <3> QED BY <3>2, <3>3
  <2> QED BY <2>1, <2>3, <2>4 DEF runs, Busy
<1>4. CASE CleanDone
  <2>1. clean.pc = "begin" /\ clean.todo = {} /\ clean'.pc = "none"
        /\ UNCHANGED <<hosts, disk, runs>>
    BY <1>4 DEF CleanDone, Idle
  <2>2. sweep' \subseteq sweep /\ DoneIsClean'
    BY <1>4, <2>1 DEF CleanDone, DoneIsClean
  <2>3. \A i \in swept' \ swept : i = clean.item /\ i \in sweep /\ ~clean.failed
    BY <1>4 DEF CleanDone
  <2>4. SweepComplete'
    BY <2>1, <2>3 DEF DoneIsClean, Path
  <2>5. WantedAgain'
    BY <2>1, <2>3 DEF runs, Busy
  <2> QED BY <2>1, <2>2, <2>4, <2>5 DEF runs, Busy
<1> QED BY <1>1, <1>2, <1>3, <1>4, WorkspaceAssumption DEF CleanStep

LEMMA LateSweepStep ==
  ASSUME TypeInv, SweepInv, LateStep
  PROVE  SweepInv'
<1>1. /\ UNCHANGED <<hosts, runs, sweep, clean, swept>>
      /\ \A p \in Place : disk[p] = "none" => disk'[p] = "none"
  BY LateDisk
<1>2. \A i \in Item, h \in hosts : Path(h, i) \in Place
  BY PathIsPlace DEF TypeInv
<1>3. SweepComplete'
  BY <1>1, <1>2 DEF SweepInv, SweepComplete, TypeInv, Path
<1>4. DoneIsClean'
  BY <1>1, <1>2 DEF SweepInv, DoneIsClean, TypeInv, Path
<1> QED BY <1>1, <1>3, <1>4 DEF SweepInv, SweepsFirst, WantedAgain, runs, Busy

(* One host that fails neither hides the others nor goes unnoticed, and a  *)
(* late step of a run or of a removal brings nothing back.                 *)
THEOREM SweptStaysAway == OwnNames => (Spec => []SweepComplete)
<1> SUFFICES ASSUME OwnNames PROVE Spec => []SweepComplete
  OBVIOUS
<1>1. Init => SweepInv
  BY DEF Init, SweepInv, SweepsFirst, WantedAgain, DoneIsClean, SweepComplete, Busy, Idle
<1>2. TypeInv /\ OneStatus /\ SweepInv /\ [Next]_vars => SweepInv'
  <2> SUFFICES ASSUME TypeInv, OneStatus, SweepInv, [Next]_vars PROVE SweepInv'
    OBVIOUS
  <2>1. CASE Aborted \/ UNCHANGED vars
    BY <2>1 DEF Aborted, vars, runs, SweepInv, SweepsFirst, WantedAgain, DoneIsClean,
       SweepComplete, Busy, Path
  <2> QED BY <2>1, RunSweepStep, CleanSweepStep, LateSweepStep DEF Next
<1>3. SweepInv => SweepComplete
  BY DEF SweepInv
<1> QED BY <1>1, <1>2, <1>3, TypeStart, StatusStart, TypeStep, PTL DEF Spec
=============================================================================
