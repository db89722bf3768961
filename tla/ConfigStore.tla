---------------------------- MODULE ConfigStore -----------------------------
(***************************************************************************)
(* internal/config/store.go: the last known good workflow, reloaded by a   *)
(* ticker, by every reader and by changes of the path.  A reload holds the *)
(* mutex, but the file belongs to others: it may change between the read   *)
(* of its content and the look at its stamp.  A write gives the file a new *)
(* version, with any document (a torn write is one of its own) and any     *)
(* stamp; Settings says what a document means.                             *)
(***************************************************************************)
EXTENDS Integers, FiniteSets, Settings, DispatchPolicy

CONSTANTS
  Path,        (* workflow files                                            *)
  Caller,      (* goroutines that use the store                             *)
  Loop,        (* the goroutine of run()                                    *)
  Document,    (* what is written to workflow files, see Settings           *)
  MaxVersion,  (* bound: writes                                             *)
  Time, Size,  (* what the file system says of a file, besides its content  *)
  Absent,      (* no file                                                   *)
  Nobody       (* the mutex is free                                         *)

ASSUME StoreAssumption ==
  /\ Loop \notin Caller
  /\ Nobody \notin Caller \cup {Loop}
  /\ MaxVersion \in Nat
  /\ Absent \notin [version : Nat, doc : Document, time : Time, size : Size]
  /\ \E doc \in Document : ~NeverAccepted(doc)

(* What a document gives as a number decodes as an integer, is null or     *)
(* does not decode; limits per state decode as integers (settings.go:129). *)
ASSUME DocumentAssumption ==
  /\ Unset \notin Int
  /\ \A doc \in Document :
       /\ \A f \in DOMAIN doc.numbers : doc.numbers[f] \in Int \cup {Null, NotANumber}
       /\ \A l \in doc.limits : l.limit \in Int

Thread == Caller \cup {Loop}
Version == 1..MaxVersion

VARIABLES
  file,      (* what is on disk                                             *)
  writes,    (* versions written so far                                     *)
  desired,   (* desiredPath                                                 *)
  snapshot,  (* the snapshot: loadedPath, stamp, the workflow as version,   *)
             (* and its settings                                            *)
  pc,        (* of each thread                                              *)
  force,     (* threads that reload without comparing stamps                *)
  holder,    (* of the mutex                                                *)
  stage,     (* of the reload under way                                     *)
  got,       (* the content it has read                                     *)
  calm,      (* callers during whose call nothing has changed               *)
  result,    (* what a call of Current returned                             *)
  stopping   (* stop is closed                                              *)

disk == <<file, writes>>
reload == <<holder, stage, got>>
vars == <<disk, desired, snapshot, pc, force, reload, calm, result, stopping>>

(* contentHash is taken to tell versions apart.                            *)
StampOf(content, stat) ==
  [time |-> stat.time, size |-> stat.size, hash |-> content.version]

(* Altered: the stamp knows nothing of the content.                        *)
SameTimeAndSize(a, b) == a.time = b.time /\ a.size = b.size

SameStamp(a, b) == a = b

(* NewStore: the first load succeeded, or there is no store.               *)
Init ==
  /\ \E p \in Path, doc \in Document, t \in Time, s \in Size :
       LET first == [version |-> 1, doc |-> doc, time |-> t, size |-> s]
       IN  /\ file = [q \in Path |-> IF q = p THEN first ELSE Absent]
           /\ desired = p
           /\ snapshot \in {[path |-> p, version |-> 1, stamp |-> StampOf(first, first), settings |-> set] :
                              set \in Outcomes(doc) \ {Rejected}}
  /\ writes = 1
  /\ pc = [t \in Thread |-> "idle"]
  /\ force = {}
  /\ holder = Nobody /\ stage = "none" /\ got = Absent
  /\ calm = {}
  /\ result = [c \in Caller |-> 1]
  /\ stopping = FALSE

-----------------------------------------------------------------------------
(* The file system.                                                        *)

Write(p) ==
  /\ writes < MaxVersion
  /\ writes' = writes + 1
  /\ \E doc \in Document, t \in Time, s \in Size :
       file' = [file EXCEPT ![p] =
                  [version |-> writes + 1, doc |-> doc, time |-> t, size |-> s]]
  /\ calm' = {}
  /\ UNCHANGED <<desired, snapshot, pc, force, reload, result, stopping>>

Delete(p) ==
  /\ file[p] # Absent
  /\ file' = [file EXCEPT ![p] = Absent]
  /\ calm' = {}
  /\ UNCHANGED <<writes, desired, snapshot, pc, force, reload, result, stopping>>

-----------------------------------------------------------------------------
(* Calls.                                                                  *)

(* Current and CurrentSettings.                                            *)
CallCurrent(c) ==
  /\ pc[c] = "idle"
  /\ pc' = [pc EXCEPT ![c] = "reading"]
  /\ calm' = calm \cup {c}
  /\ UNCHANGED <<disk, desired, snapshot, force, reload, result, stopping>>

(* Altered: the path is set without the mutex.                             *)
SetPathUnlocked(c, p) ==
  /\ pc[c] = "idle"
  /\ desired' = p
  /\ pc' = [pc EXCEPT ![c] = "changing"]
  /\ force' = force \cup {c}
  /\ calm' = {}
  /\ UNCHANGED <<disk, snapshot, reload, result, stopping>>

(* SetWorkflowPath and ClearWorkflowPath take the mutex twice: first for   *)
(* the path, then for a forced reload.  ForceReload is the case of the     *)
(* path that is set already.                                               *)
CallSetPath(c, p) ==
  /\ pc[c] = "idle"
  /\ holder = Nobody
  /\ desired' = p
  /\ pc' = [pc EXCEPT ![c] = "changing"]
  /\ force' = force \cup {c}
  /\ calm' = {}
  /\ UNCHANGED <<disk, snapshot, reload, result, stopping>>

Tick ==
  /\ pc[Loop] = "idle"
  /\ ~stopping
  /\ pc' = [pc EXCEPT ![Loop] = "ticking"]
  /\ UNCHANGED <<disk, desired, snapshot, force, reload, calm, result, stopping>>

(* Current returns the snapshot of the moment, whether the reload failed   *)
(* or another one has replaced it since.                                   *)
Return(c) ==
  /\ pc[c] = "returning"
  /\ holder = Nobody
  /\ pc' = [pc EXCEPT ![c] = "idle"]
  /\ result' = [result EXCEPT ![c] = snapshot.version]
  /\ UNCHANGED <<disk, desired, snapshot, force, reload, calm, stopping>>

(* Close stops the ticker and waits for the loop.                          *)
Close ==
  /\ ~stopping
  /\ stopping' = TRUE
  /\ UNCHANGED <<disk, desired, snapshot, pc, force, reload, calm, result>>

LoopEnds ==
  /\ pc[Loop] = "idle"
  /\ stopping
  /\ pc' = [pc EXCEPT ![Loop] = "ended"]
  /\ UNCHANGED <<disk, desired, snapshot, force, reload, calm, result, stopping>>

-----------------------------------------------------------------------------
(* attemptReload, one access to the file per step.                         *)

Begin(t) ==
  /\ pc[t] \in {"reading", "changing", "ticking"}
  /\ holder = Nobody
  /\ holder' = t
  /\ stage' = IF t \in force \/ desired # snapshot.path THEN "read" ELSE "compare"
  /\ got' = Absent
  /\ UNCHANGED <<disk, desired, snapshot, pc, force, calm, result, stopping>>

(* The mutex is released, with the snapshot as it is now.                  *)
Done ==
  /\ pc' = [pc EXCEPT ![holder] =
              IF pc[holder] = "reading" THEN "returning" ELSE "idle"]
  /\ force' = force \ {holder}
  /\ holder' = Nobody
  /\ stage' = "none"
  /\ got' = Absent

OnDisk == file[desired]

Step(s) ==
  /\ holder # Nobody
  /\ stage = s
  /\ UNCHANGED <<disk, desired, calm, result, stopping>>

Goto(s, content) ==
  stage' = s /\ got' = content /\ UNCHANGED <<pc, force, holder, snapshot>>

(* currentStamp: content, then stat.                                       *)
Compare ==
  /\ Step("compare")
  /\ IF OnDisk = Absent THEN Goto("read", Absent) ELSE Goto("compareStat", OnDisk)

CompareStat ==
  /\ Step("compareStat")
  /\ IF OnDisk # Absent /\ SameStamp(StampOf(got, OnDisk), snapshot.stamp)
       THEN Done /\ UNCHANGED snapshot
       ELSE Goto("read", Absent)

(* loadState: content, then stat; the content is parsed and validated.     *)
Read ==
  /\ Step("read")
  /\ IF OnDisk = Absent THEN Done /\ UNCHANGED snapshot ELSE Goto("stat", OnDisk)

(* The new snapshot, with one of the readings of the document.             *)
Replace(outcomes) ==
  \E set \in outcomes :
    snapshot' = [path |-> desired, version |-> got.version,
                 stamp |-> StampOf(got, OnDisk), settings |-> set]

Load ==
  /\ Step("stat")
  /\ \/ OnDisk # Absent /\ Replace(Outcomes(got.doc) \ {Rejected})
     \/ (OnDisk = Absent \/ Rejected \in Outcomes(got.doc)) /\ UNCHANGED snapshot
  /\ Done

Reload == Compare \/ CompareStat \/ Read \/ Load

Next ==
  \/ \E p \in Path : Write(p) \/ Delete(p)
  \/ \E c \in Caller : CallCurrent(c) \/ Return(c) \/ (\E p \in Path : CallSetPath(c, p))
  \/ Tick \/ Close \/ LoopEnds
  \/ \E t \in Thread : Begin(t)
  \/ Reload

Spec == Init /\ [][Next]_vars

(* The ticker ticks, of the goroutines that wait for the mutex some get it *)
(* and accesses to the file return.  Nobody has to call.                   *)
Fairness ==
  /\ WF_vars(Tick)
  /\ WF_vars(LoopEnds)
  /\ WF_vars(Reload)
  /\ SF_vars(\E t \in Thread : Begin(t))

FairSpec == Spec /\ Fairness

-----------------------------------------------------------------------------

(* A call of Current during which nothing changed returns what is on disk, *)
(* if that is valid, however time and size of its file were set            *)
(* (store.go:186): only the hash tells two writes of one size in one tick  *)
(* of the file system's clock apart.                                       *)
CurrentIsFresh ==
  \A c \in calm : pc[c] = "idle" /\ OnDisk # Absent /\ AlwaysAccepted(OnDisk.doc)
    => result[c] = OnDisk.version

(* The snapshot of a path never goes back to an older version, though      *)
(* reloads of several goroutines take several accesses each                *)
(* (store.go:178).                                                         *)
NeverGoesBack ==
  [][snapshot'.path = snapshot.path => snapshot'.version >= snapshot.version]_vars

(* What is served meets the assumptions of its readers, whichever reading  *)
(* of an ambiguous document was taken: slots, limits and delays of at      *)
(* least one, and a Linear provider with a key and a project               *)
(* (settings.go:302; Scheduler's SchedulerAssumption).                     *)
Served == snapshot.settings
ServedSettingsAreSafe ==
  /\ \A f \in Field \ (Optional \cup MayBeZero) : Served.numbers[f] >= 1
  /\ \A s \in DOMAIN Served.limits : s # "" /\ Served.limits[s] >= 1
  /\ Served.kind = "linear" => "" \notin {Served.key, Served.project}

(* With the settings served a failed run is retried after base *           *)
(* 2^(attempt - 1), up to the limit, however often it has failed and also  *)
(* when the limit is less than the base: doubling never wraps to a short   *)
(* or negative delay (state.go:739).  A limit beyond half the largest      *)
(* duration is accepted and not covered.                                   *)
RetryDelayIsCapped ==
  LET limit == Served.numbers["max_retry_backoff_ms"] * Millisecond
  IN  limit <= TwoTo(Width - 2) => \A attempt \in 1 .. Attempts :
        LET exact == BaseDelay * TwoTo(attempt - 1)
        IN  FailureRetryDelay(attempt, Wrap(limit)) = IF exact < limit THEN exact ELSE limit

(* Once the file at the desired path stays as it is and is valid, the      *)
(* store comes to serve it, a path that failed to load before included     *)
(* (store.go:185).                                                         *)
Settled(p, v) == /\ desired = p
                 /\ file[p] # Absent
                 /\ file[p].version = v
                 /\ AlwaysAccepted(file[p].doc)
                 /\ ~stopping
CatchesUp ==
  \A p \in Path, v \in Version :
    <>[]Settled(p, v) => <>[](snapshot.path = p /\ snapshot.version = v)
=============================================================================
