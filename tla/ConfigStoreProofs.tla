-------------------------- MODULE ConfigStoreProofs --------------------------
(***************************************************************************)
(* Proofs about the last known good workflow, for every set of paths,      *)
(* documents and callers and any number of writes, about the delay of a    *)
(* retry, and about the order of candidates.  Under the mutex the desired  *)
(* path stays, so that a reload under way has what was on disk when it     *)
(* read it, and the writes since then are younger; if there were none      *)
(* since a call began, it has what is on disk.                             *)
(***************************************************************************)
EXTENDS ConfigStore, LoopTheorems, TLAPS

Content == [version : Nat, doc : Document, time : Time, size : Size]
ThreadPC == {"idle", "reading", "returning", "changing", "ticking", "ended"}
Calling == {"reading", "changing", "ticking"}

TypeInv ==
  /\ file \in [Path -> Content \cup {Absent}]
  /\ writes \in Nat
  /\ desired \in Path
  /\ snapshot.path \in Path /\ snapshot.version \in Nat
  /\ snapshot.stamp.hash = snapshot.version
  /\ pc \in [Thread -> ThreadPC]
  /\ holder \in Thread \cup {Nobody}
  /\ got \in Content \cup {Absent}
  /\ calm \subseteq Caller
  /\ result \in [Caller -> Nat]

(* Between two accesses to the file the reload has the mutex.              *)
ReloadInv ==
  /\ holder = Nobody <=> stage = "none"
  /\ holder # Nobody => pc[holder] \in Calling
  /\ stage \in {"compare", "compareStat"} => snapshot.path = desired
  /\ stage \in {"compareStat", "stat"} => got # Absent

(* The versions that a path goes through: the snapshot of it, what a       *)
(* reload has read of it, what is on disk, the last write.                 *)
OrderInv ==
  /\ snapshot.version <= writes
  /\ \A p \in Path : file[p] # Absent => file[p].version <= writes
  /\ file[snapshot.path] # Absent => snapshot.version <= file[snapshot.path].version
  /\ stage = "stat" =>
       /\ got.version <= writes
       /\ snapshot.path = desired => snapshot.version <= got.version
       /\ OnDisk # Absent => got.version <= OnDisk.version

StoreInv == TypeInv /\ ReloadInv /\ OrderInv

(* From the reload of a call on, as long as nothing changes, what any      *)
(* reload has read is what is on disk, and after it so is the snapshot.    *)
Acceptable == OnDisk # Absent /\ AlwaysAccepted(OnDisk.doc)
HasRead(c) == pc[c] = "returning" \/ holder = c
CalmInv ==
  \A c \in calm :
    /\ pc[c] \in {"idle", "reading", "returning"}
    /\ HasRead(c) /\ stage \in {"compareStat", "stat"} => got = OnDisk
    /\ pc[c] = "returning" /\ Acceptable => snapshot.version = OnDisk.version

-----------------------------------------------------------------------------

LEMMA StoreStart == Init => StoreInv
<1> SUFFICES ASSUME Init PROVE StoreInv
  OBVIOUS
<1>1. PICK p \in Path, doc \in Document, t \in Time, s \in Size :
        LET first == [version |-> 1, doc |-> doc, time |-> t, size |-> s]
        IN  /\ file = [q \in Path |-> IF q = p THEN first ELSE Absent]
            /\ desired = p
            /\ snapshot \in {[path |-> p, version |-> 1, stamp |-> StampOf(first, first), settings |-> set] :
                               set \in Outcomes(doc) \ {Rejected}}
  BY DEF Init
<1> DEFINE first == [version |-> 1, doc |-> doc, time |-> t, size |-> s]
<1>2. PICK set : snapshot = [path |-> p, version |-> 1, stamp |-> StampOf(first, first), settings |-> set]
  BY <1>1
<1>3. first \in Content
  BY DEF Content
<1>4. snapshot.path = p /\ snapshot.version = 1 /\ snapshot.stamp.hash = 1
  BY <1>2 DEF StampOf
<1>5. file \in [Path -> Content \cup {Absent}] /\ desired \in Path
  BY <1>1, <1>3
<1>6. \A q \in Path : file[q] # Absent => file[q].version = 1
  BY <1>1
<1>7. TypeInv
  BY <1>4, <1>5 DEF Init, TypeInv, Thread, ThreadPC
<1>8. ReloadInv
  BY DEF Init, ReloadInv
<1>9. OrderInv
  BY <1>4, <1>6 DEF Init, OrderInv
<1> QED BY <1>7, <1>8, <1>9 DEF StoreInv

(* A write is younger than all before it.                                  *)
LEMMA WriteKeeps ==
  ASSUME StoreInv, NEW p \in Path, Write(p)
  PROVE  StoreInv'
<1>1. PICK doc \in Document, t \in Time, s \in Size :
        file' = [file EXCEPT ![p] = [version |-> writes + 1, doc |-> doc, time |-> t, size |-> s]]
  BY DEF Write
<1> DEFINE new == [version |-> writes + 1, doc |-> doc, time |-> t, size |-> s]
<1>2. new \in Content /\ new.version = writes + 1
  BY DEF Content, StoreInv, TypeInv
<1>3. new # Absent
  BY <1>2, StoreAssumption DEF Content
<1> HIDE DEF new
<1>4. UNCHANGED <<desired, snapshot, pc, holder, stage, got, result>> /\ calm' = {} /\ writes' = writes + 1
  BY DEF Write, reload
<1>5. TypeInv'
  BY <1>1, <1>2, <1>4 DEF StoreInv, TypeInv, new
<1>6. ReloadInv'
  BY <1>4 DEF StoreInv, ReloadInv
<1>7. \A q \in Path : file'[q] = IF q = p THEN new ELSE file[q]
  BY <1>1 DEF StoreInv, TypeInv, new
<1>8. \A q \in Path : file[q] # Absent => file[q].version \in Nat
  BY DEF StoreInv, TypeInv, Content
<1>9. stage = "stat" => got.version \in Nat
  BY DEF StoreInv, TypeInv, ReloadInv, Content
<1>10. OrderInv'
  BY <1>2, <1>4, <1>7, <1>8, <1>9 DEF StoreInv, TypeInv, OrderInv, OnDisk
<1> QED BY <1>5, <1>6, <1>10 DEF StoreInv

LEMMA DeleteKeeps ==
  ASSUME StoreInv, NEW p \in Path, Delete(p)
  PROVE  StoreInv'
<1>1. UNCHANGED <<writes, desired, snapshot, pc, holder, stage, got, result>> /\ calm' = {}
  BY DEF Delete, reload
<1>2. \A q \in Path : file'[q] = IF q = p THEN Absent ELSE file[q]
  BY DEF Delete, StoreInv, TypeInv
<1>3. TypeInv'
  BY <1>1 DEF Delete, StoreInv, TypeInv
<1>4. ReloadInv'
  BY <1>1 DEF StoreInv, ReloadInv
<1>5. OrderInv'
  BY <1>1, <1>2 DEF StoreInv, TypeInv, OrderInv, OnDisk
<1> QED BY <1>3, <1>4, <1>5 DEF StoreInv

(* The calls but for the new path touch neither the file nor the reload.   *)
LEMMA CallKeeps ==
  ASSUME StoreInv,
         \/ \E c \in Caller : CallCurrent(c) \/ Return(c) \/ (\E p \in Path : CallSetPath(c, p))
         \/ Tick \/ Close \/ LoopEnds
  PROVE  StoreInv'
<1>1. UNCHANGED <<file, writes, snapshot, holder, stage, got>>
  BY DEF CallCurrent, Return, CallSetPath, Tick, Close, LoopEnds, disk, reload
<1>2. holder # Nobody => desired' = desired /\ pc'[holder] = pc[holder]
  BY DEF StoreInv, TypeInv, ReloadInv, Calling, CallCurrent, Return, CallSetPath, Tick, Close, LoopEnds
<1>3. desired' \in Path /\ pc' \in [Thread -> ThreadPC] /\ calm' \subseteq Caller
      /\ result' \in [Caller -> Nat]
  BY DEF StoreInv, TypeInv, ThreadPC, CallCurrent, Return, CallSetPath, Tick, Close, LoopEnds
<1>4. TypeInv'
  BY <1>1, <1>3 DEF StoreInv, TypeInv
<1>5. ReloadInv'
  BY <1>1, <1>2 DEF StoreInv, ReloadInv
<1>6. OrderInv'
  BY <1>1, <1>2 DEF StoreInv, ReloadInv, OrderInv, OnDisk
<1> QED BY <1>4, <1>5, <1>6 DEF StoreInv

LEMMA BeginKeeps ==
  ASSUME StoreInv, NEW t \in Thread, Begin(t)
  PROVE  StoreInv'
<1>1. UNCHANGED <<file, writes, snapshot, desired, pc, calm, result>>
      /\ holder' = t /\ stage' \in {"read", "compare"} /\ got' = Absent
      /\ (stage' = "compare" => snapshot.path = desired)
  BY DEF Begin, disk
<1>2. t # Nobody /\ pc[t] \in Calling
  BY StoreAssumption DEF Begin, Thread, Calling
<1>3. TypeInv'
  BY <1>1 DEF StoreInv, TypeInv
<1>4. ReloadInv'
  BY <1>1, <1>2 DEF StoreInv, ReloadInv
<1>5. OrderInv'
  BY <1>1 DEF StoreInv, OrderInv
<1> QED BY <1>3, <1>4, <1>5 DEF StoreInv

(* What a step of a reload leaves alone, and what the end of a reload does.*)
LEMMA StepsUnderMutex ==
  ASSUME StoreInv, Reload
  PROVE  /\ UNCHANGED <<file, writes, desired, calm, result>>
         /\ holder \in Thread /\ holder # Nobody /\ pc[holder] \in Calling
BY DEF StoreInv, TypeInv, ReloadInv, Reload, Compare, CompareStat, Read, Load, Step, disk

LEMMA DoneReleases ==
  ASSUME StoreInv, holder # Nobody, Done
  PROVE  /\ holder' = Nobody /\ stage' = "none" /\ got' = Absent
         /\ pc' \in [Thread -> ThreadPC]
         /\ pc'[holder] = IF pc[holder] = "reading" THEN "returning" ELSE "idle"
         /\ \A t \in Thread \ {holder} : pc'[t] = pc[t]
BY DEF StoreInv, TypeInv, Done, ThreadPC

(* A step that goes on to another access, and one that keeps the snapshot  *)
(* and is done.                                                            *)
LEMMA GotoKeeps ==
  ASSUME StoreInv, Reload, NEW s, NEW content, Goto(s, content),
         \/ s = "read" /\ content = Absent
         \/ s = "compareStat" /\ stage = "compare" /\ content = OnDisk /\ OnDisk # Absent
         \/ s = "stat" /\ content = OnDisk /\ OnDisk # Absent
  PROVE  StoreInv'
<1>1. UNCHANGED <<file, writes, desired, calm, result, pc, holder, snapshot>>
      /\ holder \in Thread /\ holder # Nobody /\ pc[holder] \in Calling
      /\ stage' = s /\ got' = content
  BY StepsUnderMutex DEF Goto
<1>2. OnDisk \in Content \cup {Absent}
  BY DEF StoreInv, TypeInv, OnDisk
<1>3. TypeInv'
  BY <1>1, <1>2 DEF StoreInv, TypeInv
<1>4. ReloadInv'
  BY <1>1 DEF StoreInv, ReloadInv
<1>5. OnDisk # Absent => OnDisk.version \in Nat
  BY <1>2 DEF Content
<1>6. OrderInv'
  BY <1>1, <1>5 DEF StoreInv, TypeInv, OrderInv, OnDisk
<1> QED BY <1>3, <1>4, <1>6 DEF StoreInv

LEMMA DoneKeeps ==
  ASSUME StoreInv, Reload, Done,
         \/ snapshot' = snapshot
         \/ /\ stage = "stat" /\ OnDisk # Absent
            /\ Replace(Outcomes(got.doc) \ {Rejected})
  PROVE  StoreInv' /\ (snapshot'.path = snapshot.path => snapshot'.version >= snapshot.version)
<1>1. UNCHANGED <<file, writes, desired, calm, result>> /\ holder \in Thread /\ holder # Nobody
  BY StepsUnderMutex
<1>2. holder' = Nobody /\ stage' = "none" /\ got' = Absent /\ pc' \in [Thread -> ThreadPC]
  BY <1>1, DoneReleases
<1>3. \/ snapshot' = snapshot
      \/ /\ stage = "stat" /\ got \in Content /\ OnDisk # Absent
         /\ snapshot'.path = desired /\ snapshot'.version = got.version
         /\ snapshot'.stamp.hash = got.version
  BY DEF StoreInv, TypeInv, ReloadInv, Replace, StampOf
<1>4. got \in Content => got.version \in Nat
  BY DEF Content
<1>5. TypeInv'
  BY <1>1, <1>2, <1>3, <1>4 DEF StoreInv, TypeInv
<1>6. ReloadInv'
  BY <1>2 DEF StoreInv, ReloadInv
<1>7. OrderInv'
  BY <1>1, <1>2, <1>3 DEF StoreInv, OrderInv, OnDisk
<1>8. snapshot'.path = snapshot.path => snapshot'.version >= snapshot.version
  BY <1>3, <1>4 DEF StoreInv, TypeInv, OrderInv
<1> QED BY <1>5, <1>6, <1>7, <1>8 DEF StoreInv

(* A reload goes on to the next access or is done.                         *)
LEMMA ReloadGoesOnOrIsDone ==
  ASSUME StoreInv, Reload
  PROVE  \/ Goto("read", Absent)
         \/ stage = "compare" /\ OnDisk # Absent /\ Goto("compareStat", OnDisk)
         \/ stage = "read" /\ OnDisk # Absent /\ Goto("stat", OnDisk)
         \/ stage = "compareStat" /\ Done /\ snapshot' = snapshot
              /\ OnDisk # Absent /\ SameStamp(StampOf(got, OnDisk), snapshot.stamp)
         \/ stage = "read" /\ Done /\ snapshot' = snapshot /\ OnDisk = Absent
         \/ stage = "stat" /\ Done /\ snapshot' = snapshot
              /\ (OnDisk = Absent \/ Rejected \in Outcomes(got.doc))
         \/ /\ stage = "stat" /\ Done /\ OnDisk # Absent
            /\ Replace(Outcomes(got.doc) \ {Rejected})
<1> DEFINE Went == \/ Goto("read", Absent)
                   \/ stage = "compare" /\ OnDisk # Absent /\ Goto("compareStat", OnDisk)
                   \/ stage = "read" /\ OnDisk # Absent /\ Goto("stat", OnDisk)
<1>1. CASE Compare
  BY <1>1 DEF Compare, Step
<1>2. CASE CompareStat
  BY <1>2 DEF CompareStat, Step
<1>3. CASE Read
  BY <1>3 DEF Read, Step
<1>4. CASE Load
  BY <1>4 DEF Load, Step
<1> QED BY <1>1, <1>2, <1>3, <1>4 DEF Reload

LEMMA ReloadKeeps ==
  ASSUME StoreInv, Reload
  PROVE  StoreInv' /\ (snapshot'.path = snapshot.path => snapshot'.version >= snapshot.version)
<1>1. \A s, content : Goto(s, content) => snapshot' = snapshot
  BY DEF Goto
<1>2. snapshot.version >= snapshot.version
  BY DEF StoreInv, TypeInv
<1>3. CASE Goto("read", Absent)
  BY <1>1, <1>2, <1>3, GotoKeeps
<1>4. CASE stage = "compare" /\ OnDisk # Absent /\ Goto("compareStat", OnDisk)
  BY <1>1, <1>2, <1>4, GotoKeeps
<1>5. CASE stage = "read" /\ OnDisk # Absent /\ Goto("stat", OnDisk)
  BY <1>1, <1>2, <1>5, GotoKeeps
<1>6. CASE Done /\ snapshot' = snapshot
  BY <1>6, DoneKeeps
<1>7. CASE /\ stage = "stat" /\ Done /\ OnDisk # Absent
           /\ Replace(Outcomes(got.doc) \ {Rejected})
  BY <1>7, DoneKeeps
<1> QED BY <1>3, <1>4, <1>5, <1>6, <1>7, ReloadGoesOnOrIsDone

LEMMA StoreStep == StoreInv /\ [Next]_vars => StoreInv'
<1> SUFFICES ASSUME StoreInv, [Next]_vars PROVE StoreInv'
  OBVIOUS
<1>1. CASE \E p \in Path : Write(p) \/ Delete(p)
  BY <1>1, WriteKeeps, DeleteKeeps
<1>2. CASE \/ \E c \in Caller : CallCurrent(c) \/ Return(c) \/ (\E p \in Path : CallSetPath(c, p))
           \/ Tick \/ Close \/ LoopEnds
  BY <1>2, CallKeeps
<1>3. CASE \E t \in Thread : Begin(t)
  BY <1>3, BeginKeeps
<1>4. CASE Reload
  BY <1>4, ReloadKeeps
<1>5. CASE UNCHANGED vars
  <2>1. UNCHANGED <<file, writes, desired, snapshot, pc, holder, stage, got, calm, result>>
    BY <1>5 DEF vars, disk, reload
  <2>2. TypeInv' /\ ReloadInv' /\ OrderInv'
    BY <2>1 DEF StoreInv, TypeInv, ReloadInv, OrderInv, OnDisk
  <2> QED BY <2>2 DEF StoreInv
<1> QED BY <1>1, <1>2, <1>3, <1>4, <1>5 DEF Next

LEMMA StoreCorrect == Spec => []StoreInv
BY StoreStart, StoreStep, PTL DEF Spec

(* However the reloads of several goroutines interleave with writes,       *)
(* deletions and changes of the path, the snapshot of a path never goes    *)
(* back to an older version of it (store.go:178).                          *)
THEOREM OlderContentNeverReturns == Spec => NeverGoesBack
<1> DEFINE Forward == snapshot'.path = snapshot.path => snapshot'.version >= snapshot.version
<1>1. StoreInv /\ [Next]_vars => [Forward]_vars
  <2> SUFFICES ASSUME StoreInv, Next PROVE Forward
    OBVIOUS
  <2>1. CASE Reload
    BY <2>1, ReloadKeeps
  <2>2. CASE ~Reload
    <3>1. snapshot' = snapshot
      BY <2>2 DEF Next, Write, Delete, CallCurrent, Return, CallSetPath, Tick, Close, LoopEnds, Begin
    <3> QED BY <3>1 DEF StoreInv, TypeInv
  <2> QED BY <2>1, <2>2
<1> QED BY <1>1, StoreCorrect, PTL DEF Spec, NeverGoesBack

-----------------------------------------------------------------------------

(* What ParseSettings accepts is in range, whichever reading of the        *)
(* document it takes.                                                      *)
LEMMA AcceptedIsSafe ==
  ASSUME NEW doc \in Document, NEW set \in Outcomes(doc) \ {Rejected}
  PROVE  /\ \A f \in Field \ (Optional \cup MayBeZero) : set.numbers[f] \in Nat \ {0}
         /\ \A s \in DOMAIN set.limits : s # "" /\ set.limits[s] >= 1
         /\ set.kind = "linear" => "" \notin {set.key, set.project}
<1>1. Decodes(doc) /\ set \in Readings(doc) /\ Valid(set)
  BY DEF Outcomes
<1>2. PICK limits \in LimitReadings(doc.limits) :
        set = [kind |-> doc.kind,
               key |-> ResolveSecret(doc.key, "LINEAR_API_KEY"),
               project |-> ResolveReference(doc.project),
               command |-> Given(doc.command, "codex app-server"),
               policy |-> Given(doc.policy, "map"),
               numbers |-> [f \in Field |-> Number(doc, f)],
               limits |-> limits]
  BY <1>1 DEF Readings
<1>3. ASSUME NEW f \in Field \ (Optional \cup MayBeZero)
      PROVE  set.numbers[f] \in Nat \ {0}
  <2>1. set.numbers[f] = Number(doc, f) /\ Number(doc, f) # NotANumber
    BY <1>1, <1>2 DEF Decodes
  <2>2. Number(doc, f) \in Int
    BY <2>1, DocumentAssumption DEF Number, Default
  <2>3. InRange(f, set.numbers[f])
    BY <1>1 DEF Valid
  <2> QED BY <2>1, <2>2, <2>3, DocumentAssumption DEF InRange
<1>4. ASSUME NEW s \in DOMAIN set.limits
      PROVE  s # "" /\ set.limits[s] >= 1
  <2>1. set.limits = limits
    BY <1>2
  <2>2. \E l \in doc.limits : l.limit = limits[s]
    BY <2>1 DEF LimitReadings
  <2>3. set.limits[s] \in Int
    BY <2>1, <2>2, DocumentAssumption
  <2>4. s # ""
    BY <1>1 DEF Valid
  <2>5. set.limits[s] > 0
    BY <1>1 DEF Valid
  <2>6. set.limits[s] >= 1
    BY <2>3, <2>5
  <2> QED BY <2>4, <2>6
<1> QED BY <1>1, <1>3, <1>4 DEF Valid

(* Whatever is served came out of ParseSettings.                           *)
SettingsAccepted == \E doc \in Document : snapshot.settings \in Outcomes(doc) \ {Rejected}

LEMMA SettingsStayAccepted == Spec => []SettingsAccepted
<1>1. Init => SettingsAccepted
  BY DEF Init, SettingsAccepted
<1>2. StoreInv /\ SettingsAccepted /\ [Next]_vars => SettingsAccepted'
  <2> SUFFICES ASSUME StoreInv, SettingsAccepted, [Next]_vars
               PROVE  SettingsAccepted'
    OBVIOUS
  <2>1. CASE snapshot' = snapshot
    BY <2>1 DEF SettingsAccepted
  <2>2. CASE stage = "stat" /\ Replace(Outcomes(got.doc) \ {Rejected})
    <3>1. got.doc \in Document
      BY <2>2 DEF StoreInv, TypeInv, ReloadInv, Content
    <3>2. snapshot'.settings \in Outcomes(got.doc) \ {Rejected}
      BY <2>2 DEF Replace
    <3> QED BY <3>1, <3>2 DEF SettingsAccepted
  <2>3. snapshot' = snapshot \/ (stage = "stat" /\ Replace(Outcomes(got.doc) \ {Rejected}))
    <3>1. CASE Reload
      BY <3>1, ReloadGoesOnOrIsDone DEF Goto
    <3>2. CASE ~Reload
      BY <3>2 DEF Next, Write, Delete, CallCurrent, Return, CallSetPath, Tick, Close, LoopEnds,
                  Begin, vars
    <3> QED BY <3>1, <3>2
  <2> QED BY <2>1, <2>2, <2>3
<1> QED BY <1>1, <1>2, StoreCorrect, PTL DEF Spec

(* Settings that readers may rely on are served in every state, for every  *)
(* set of documents and every environment (settings.go:302).               *)
THEOREM ServedSettingsStaySafe == Spec => []ServedSettingsAreSafe
<1>1. SettingsAccepted => ServedSettingsAreSafe
  <2> SUFFICES ASSUME SettingsAccepted PROVE ServedSettingsAreSafe
    OBVIOUS
  <2>1. PICK doc \in Document : snapshot.settings \in Outcomes(doc) \ {Rejected}
    BY DEF SettingsAccepted
  <2> DEFINE set == snapshot.settings
  <2>2. /\ \A f \in Field \ (Optional \cup MayBeZero) : set.numbers[f] \in Nat \ {0}
        /\ \A s \in DOMAIN set.limits : s # "" /\ set.limits[s] >= 1
        /\ set.kind = "linear" => "" \notin {set.key, set.project}
    BY <2>1, AcceptedIsSafe
  <2>3. ASSUME NEW f \in Field \ (Optional \cup MayBeZero) PROVE set.numbers[f] >= 1
    <3>1. set.numbers[f] \in Nat \ {0}
      BY <2>2
    <3> QED BY <3>1
  <2> QED BY <2>2, <2>3 DEF ServedSettingsAreSafe, Served
<1> QED BY <1>1, SettingsStayAccepted, PTL

-----------------------------------------------------------------------------
(* The delay before a failed run is retried.                               *)

LEMMA PowerSteps ==
  ASSUME NEW N \in Nat
  PROVE  \E power : /\ TwoTo(N) = power[N] /\ power[0] = 1
                    /\ \A k \in 1 .. N : power[k] = 2 * power[k - 1]
<1> DEFINE Body(f) == [k \in 0 .. N |-> IF k = 0 THEN 1 ELSE 2 * f[k - 1]]
           step == [q \in (1 .. N) \X Nat |-> 2 * q[2]]
<1>1. step \in Steps(N, Nat) /\ 1 \in Nat
  BY DEF Steps
<1>2. PICK f : Follows(f, N, Nat, 1, step)
  <2> HIDE DEF step
  <2> QED BY <1>1, StepsDefine
<1>3. f \in [0 .. N -> Nat] /\ f[0] = 1 /\ \A k \in 1 .. N : f[k] = 2 * f[k - 1]
  <2>1. f \in [0 .. N -> Nat] /\ f[0] = 1 /\ \A k \in 1 .. N : f[k] = step[<<k, f[k - 1]>>]
    BY <1>2 DEF Follows
  <2>2. \A k \in 1 .. N : k - 1 \in 0 .. N /\ f[k - 1] \in Nat
    BY <2>1
  <2> QED BY <2>1, <2>2
<1>4. f = Body(f)
  <2>1. \A k \in 0 .. N : k # 0 => k \in 1 .. N
    OBVIOUS
  <2>2. \A k \in 0 .. N : f[k] = Body(f)[k]
    BY <1>3, <2>1
  <2>3. f = [k \in 0 .. N |-> f[k]] /\ Body(f) = [k \in 0 .. N |-> Body(f)[k]]
    BY <1>3
  <2> HIDE DEF Body
  <2> QED BY <2>2, <2>3
<1> DEFINE power == CHOOSE g : g = Body(g)
<1>5. power = Body(power)
  <2> HIDE DEF Body
  <2> QED BY <1>4
<1>6. TwoTo(N) = power[N]
  BY DEF TwoTo
<1> HIDE DEF power
<1>7. \A k \in 0 .. N : power[k] = IF k = 0 THEN 1 ELSE 2 * power[k - 1]
  BY <1>5
<1>8. 0 \in 0 .. N /\ \A k \in 1 .. N : k \in 0 .. N /\ k # 0
  OBVIOUS
<1> QED BY <1>6, <1>7, <1>8

LEMMA TwoToDoubles ==
  /\ TwoTo(0) = 1
  /\ \A n \in Nat : TwoTo(n) \in Nat \ {0} /\ TwoTo(n + 1) = 2 * TwoTo(n)
<1>1. TwoTo(0) = 1
  BY PowerSteps
<1>2. ASSUME NEW n \in Nat PROVE TwoTo(n) \in Nat \ {0} /\ TwoTo(n + 1) = 2 * TwoTo(n)
  <2>1. PICK a : /\ TwoTo(n) = a[n] /\ a[0] = 1
                 /\ \A k \in 1 .. n : a[k] = 2 * a[k - 1]
    BY PowerSteps
  <2>2. n + 1 \in Nat
    OBVIOUS
  <2>3. PICK b : /\ TwoTo(n + 1) = b[n + 1] /\ b[0] = 1
                 /\ \A k \in 1 .. n + 1 : b[k] = 2 * b[k - 1]
    BY <2>2, PowerSteps
  <2> DEFINE T == {k \in Nat : k <= n => a[k] \in Nat \ {0} /\ b[k] = a[k]}
  <2>4. 0 \in T
    BY <2>1, <2>3
  <2>5. ASSUME NEW k \in T PROVE k + 1 \in T
    <3> SUFFICES ASSUME k + 1 <= n PROVE a[k + 1] \in Nat \ {0} /\ b[k + 1] = a[k + 1]
      OBVIOUS
    <3>1. k + 1 \in 1 .. n /\ k + 1 \in 1 .. n + 1 /\ k + 1 - 1 = k
      OBVIOUS
    <3>2. a[k + 1] = 2 * a[k] /\ b[k + 1] = 2 * b[k]
      BY <2>1, <2>3, <3>1
    <3>3. a[k] \in Nat \ {0} /\ b[k] = a[k]
      OBVIOUS
    <3> QED BY <3>2, <3>3
  <2> HIDE DEF T
  <2>6. n \in T
    <3>1. T \in SUBSET Nat
      BY DEF T
    <3> QED BY <2>4, <2>5, <3>1, AllNaturals
  <2>7. a[n] \in Nat \ {0} /\ b[n] = a[n]
    BY <2>6 DEF T
  <2>8. n + 1 \in 1 .. n + 1 /\ n + 1 - 1 = n
    OBVIOUS
  <2>9. b[n + 1] = 2 * b[n]
    BY <2>3, <2>8
  <2> QED BY <2>1, <2>3, <2>7, <2>9
<1> QED BY <1>1, <1>2

(* Durations of Width bits: half is the first that does not fit.           *)
Half == TwoTo(Width - 1)

LEMMA Bounds ==
  /\ Half \in Nat \ {0} /\ TwoTo(Width) = 2 * Half /\ Half = 2 * TwoTo(Width - 2)
  /\ TwoTo(Width - 2) \in Nat /\ BaseDelay \in Nat \ {0} /\ BaseDelay < TwoTo(Width - 2)
  /\ Millisecond \in Nat \ {0}
<1>1. Width - 2 \in Nat /\ Width - 1 \in Nat /\ Width - 2 + 1 = Width - 1 /\ Width - 1 + 1 = Width
  BY PolicyAssumption
<1>2. TwoTo(Width - 2 + 1) = 2 * TwoTo(Width - 2) /\ TwoTo(Width - 1 + 1) = 2 * TwoTo(Width - 1)
  BY <1>1, TwoToDoubles
<1> QED BY <1>1, <1>2, TwoToDoubles, PolicyAssumption DEF Half

LEMMA WrapFits ==
  /\ \A d \in Int : Wrap(d) \in Int
  /\ \A d \in Nat : d < Half => Wrap(d) = d
<1> DEFINE h == Half
<1>1. h \in Nat \ {0} /\ \A d : Wrap(d) = ((d + h) % (2 * h)) - h
  BY Bounds DEF Wrap, Half
<1> HIDE DEF h
<1>2. \A d \in Int : (d + h) % (2 * h) \in Int
  BY <1>1
<1>3. \A d \in Nat : d < h => (d + h) % (2 * h) = d + h
  BY <1>1
<1> QED BY <1>1, <1>2, <1>3 DEF h

(* The delays of the loop, and its result after N rounds.                  *)
DelayLoop(delay, N, max) ==
  /\ FailureRetryDelay(N + 1, max)
       = IF max > 0 /\ ((\E i \in 1 .. N : delay[i] >= max) \/ delay[N] > max)
         THEN max ELSE delay[N]
  /\ delay[0] = BaseDelay
  /\ \A i \in 1 .. N : delay[i] = Wrap(2 * delay[i - 1])

LEMMA DelaySteps ==
  ASSUME NEW N \in Nat, NEW max
  PROVE  \E delay : DelayLoop(delay, N, max)
<1> DEFINE Body(f) == [i \in 0 .. N |-> IF i = 0 THEN BaseDelay ELSE Wrap(2 * f[i - 1])]
           step == [q \in (1 .. N) \X Int |-> Wrap(2 * q[2])]
<1>1. step \in Steps(N, Int) /\ BaseDelay \in Int
  BY WrapFits, Bounds DEF Steps
<1>2. PICK f : Follows(f, N, Int, BaseDelay, step)
  <2> HIDE DEF step
  <2> QED BY <1>1, StepsDefine
<1>3. f \in [0 .. N -> Int] /\ f[0] = BaseDelay /\ \A i \in 1 .. N : f[i] = Wrap(2 * f[i - 1])
  <2>1. f \in [0 .. N -> Int] /\ f[0] = BaseDelay /\ \A i \in 1 .. N : f[i] = step[<<i, f[i - 1]>>]
    BY <1>2 DEF Follows
  <2>2. \A i \in 1 .. N : i - 1 \in 0 .. N /\ f[i - 1] \in Int
    BY <2>1
  <2> QED BY <2>1, <2>2
<1>4. f = Body(f)
  <2>1. \A i \in 0 .. N : i # 0 => i \in 1 .. N
    OBVIOUS
  <2>2. \A i \in 0 .. N : f[i] = Body(f)[i]
    BY <1>3, <2>1
  <2>3. f = [i \in 0 .. N |-> f[i]] /\ Body(f) = [i \in 0 .. N |-> Body(f)[i]]
    BY <1>3
  <2> HIDE DEF Body
  <2> QED BY <2>2, <2>3
<1> DEFINE delay == CHOOSE g : g = Body(g)
<1>5. delay = Body(delay)
  <2> HIDE DEF Body
  <2> QED BY <1>4
<1>6. FailureRetryDelay(N + 1, max)
        = IF max > 0 /\ ((\E i \in 1 .. N : delay[i] >= max) \/ delay[N] > max)
          THEN max ELSE delay[N]
  <2>1. N + 1 - 1 = N
    OBVIOUS
  <2> QED BY <2>1 DEF FailureRetryDelay
<1> HIDE DEF delay
<1>7. \A i \in 0 .. N : delay[i] = IF i = 0 THEN BaseDelay ELSE Wrap(2 * delay[i - 1])
  BY <1>5
<1>8. 0 \in 0 .. N /\ \A i \in 1 .. N : i \in 0 .. N /\ i # 0
  OBVIOUS
<1> QED BY <1>6, <1>7, <1>8 DEF DelayLoop

(* As long as the limit has not been reached the delay is exact: it was    *)
(* less than a quarter of the range before it was doubled.                 *)
LEMMA DelayIsExact ==
  ASSUME NEW N \in Nat, NEW limit \in Nat \ {0}, limit <= TwoTo(Width - 2)
  PROVE  LET exact == BaseDelay * TwoTo(N)
         IN  FailureRetryDelay(N + 1, limit) = IF exact < limit THEN exact ELSE limit
<1>1. PICK delay :
        /\ FailureRetryDelay(N + 1, limit)
             = IF limit > 0 /\ ((\E i \in 1 .. N : delay[i] >= limit) \/ delay[N] > limit)
               THEN limit ELSE delay[N]
        /\ delay[0] = BaseDelay
        /\ \A i \in 1 .. N : delay[i] = Wrap(2 * delay[i - 1])
  <2>1. \E delay : DelayLoop(delay, N, limit)
    BY DelaySteps
  <2> QED BY <2>1 DEF DelayLoop
<1> DEFINE exact(i) == BaseDelay * TwoTo(i)
           reached(i) == \E j \in 1 .. i : delay[j] >= limit
           T == {i \in Nat : i <= N => /\ exact(i) \in Nat
                                       /\ reached(i) => exact(i) >= limit
                                       /\ ~reached(i) => delay[i] = exact(i)}
<1>2. exact(0) = BaseDelay /\ \A i \in Nat : exact(i) \in Nat /\ exact(i + 1) = 2 * exact(i)
  <2>1. BaseDelay * 1 = BaseDelay /\ BaseDelay \in Nat
    BY Bounds
  <2>2. ASSUME NEW i \in Nat PROVE exact(i) \in Nat /\ exact(i + 1) = 2 * exact(i)
    <3>1. TwoTo(i) \in Nat /\ TwoTo(i + 1) = 2 * TwoTo(i)
      BY TwoToDoubles
    <3> DEFINE t == TwoTo(i)
    <3> HIDE DEF t
    <3>2. t \in Nat => BaseDelay * t \in Nat /\ BaseDelay * (2 * t) = 2 * (BaseDelay * t)
      BY <2>1
    <3> QED BY <3>1, <3>2 DEF t
  <2> QED BY <2>1, <2>2, TwoToDoubles
<1> HIDE DEF exact
<1>3. 0 \in T
  BY <1>1, <1>2
<1>4. ASSUME NEW i \in T PROVE i + 1 \in T
  <2> SUFFICES ASSUME i + 1 <= N
               PROVE  /\ reached(i + 1) => exact(i + 1) >= limit
                      /\ ~reached(i + 1) => delay[i + 1] = exact(i + 1)
    BY <1>2
  <2>1. i \in Nat /\ i + 1 \in 1 .. N /\ i + 1 - 1 = i /\ i <= N
    OBVIOUS
  <2>2. exact(i) \in Nat /\ exact(i + 1) = 2 * exact(i)
    BY <1>2
  <2>3. delay[i + 1] = Wrap(2 * delay[i])
    BY <1>1, <2>1
  <2>4. CASE reached(i)
    <3>1. exact(i) >= limit
      BY <2>1, <2>4
    <3>2. reached(i + 1)
      BY <2>1, <2>4
    <3> QED BY <2>2, <3>1, <3>2
  <2>5. CASE ~reached(i)
    <3>1. delay[i] = exact(i)
      BY <2>1, <2>5
    <3>2. exact(i) < TwoTo(Width - 2)
      <4>1. CASE i = 0
        BY <1>2, <4>1, Bounds
      <4>2. CASE i # 0
        <5>1. i \in 1 .. i /\ ~(delay[i] >= limit)
          BY <2>1, <2>5, <4>2
        <5> QED BY <2>2, <3>1, <5>1, Bounds
      <4> QED BY <4>1, <4>2
    <3>3. 2 * exact(i) \in Nat /\ 2 * exact(i) < Half
      BY <2>2, <3>2, Bounds
    <3>4. delay[i + 1] = exact(i + 1)
      BY <2>2, <2>3, <3>1, <3>3, WrapFits
    <3>5. reached(i + 1) => delay[i + 1] >= limit
      <4>1. \A j \in 1 .. i + 1 : j \in 1 .. i \/ j = i + 1
        BY <2>1
      <4> QED BY <2>5, <4>1
    <3> QED BY <3>4, <3>5
  <2> QED BY <2>4, <2>5
<1> HIDE DEF T
<1>5. N \in T
  <2>1. T \in SUBSET Nat
    BY DEF T
  <2> QED BY <1>3, <1>4, <2>1, AllNaturals
<1>6. /\ exact(N) \in Nat
      /\ reached(N) => exact(N) >= limit
      /\ ~reached(N) => delay[N] = exact(N)
  BY <1>5 DEF T
<1>7. FailureRetryDelay(N + 1, limit)
        = IF limit > 0 /\ (reached(N) \/ delay[N] > limit) THEN limit ELSE delay[N]
  BY <1>1
<1> HIDE DEF reached
<1>8. FailureRetryDelay(N + 1, limit) = IF exact(N) < limit THEN exact(N) ELSE limit
  BY <1>6, <1>7
<1> QED BY <1>8 DEF exact

(* With the settings served, every failed run is retried after the exact   *)
(* exponential delay up to the limit, for every width of a duration, base  *)
(* delay, unit and number of failures (state.go:739).                      *)
THEOREM RetryDelayStaysCapped == Spec => []RetryDelayIsCapped
<1>1. SettingsAccepted => RetryDelayIsCapped
  <2> DEFINE n == Served.numbers["max_retry_backoff_ms"]
             limit == n * Millisecond
  <2> SUFFICES ASSUME SettingsAccepted, limit <= TwoTo(Width - 2), NEW attempt \in 1 .. Attempts
               PROVE  LET exact == BaseDelay * TwoTo(attempt - 1)
                      IN  FailureRetryDelay(attempt, Wrap(limit))
                            = IF exact < limit THEN exact ELSE limit
    BY DEF RetryDelayIsCapped
  <2>1. "max_retry_backoff_ms" \in Field \ (Optional \cup MayBeZero)
    BY DEF Field, Optional, MayBeZero
  <2>2. n \in Nat \ {0}
    BY <2>1, AcceptedIsSafe DEF SettingsAccepted, Served
  <2> HIDE DEF n
  <2>3. limit \in Nat \ {0}
    BY <2>2, Bounds
  <2> HIDE DEF limit
  <2>4. Wrap(limit) = limit
    BY <2>3, WrapFits, Bounds
  <2>5. attempt - 1 \in Nat /\ attempt - 1 + 1 = attempt
    BY PolicyAssumption
  <2> DEFINE N == attempt - 1
  <2>6. FailureRetryDelay(N + 1, limit)
          = IF BaseDelay * TwoTo(N) < limit THEN BaseDelay * TwoTo(N) ELSE limit
    <3> HIDE DEF N
    <3>1. N \in Nat
      BY <2>5 DEF N
    <3> QED BY <2>3, <3>1, DelayIsExact
  <2> QED BY <2>4, <2>5, <2>6
<1> QED BY <1>1, SettingsStayAccepted, PTL

-----------------------------------------------------------------------------

Fresh == CalmInv /\ CurrentIsFresh

(* A call that starts or returns, and the start of a reload.               *)
LEMMA CallKeepsFresh ==
  ASSUME StoreInv, Fresh, NEW c \in Caller, CallCurrent(c)
  PROVE  Fresh'
<1>1. UNCHANGED <<file, desired, snapshot, holder, stage, got, result>> /\ calm' = calm \cup {c}
      /\ pc[c] = "idle"
  BY DEF CallCurrent, disk, reload
<1>2. pc'[c] = "reading" /\ \A d \in Caller \ {c} : pc'[d] = pc[d]
  BY DEF CallCurrent, StoreInv, TypeInv, Thread
<1>3. holder # c
  BY <1>1, StoreAssumption DEF StoreInv, ReloadInv, Calling
<1>4. UNCHANGED <<OnDisk, Acceptable>>
  BY <1>1 DEF OnDisk, Acceptable
<1>5. CalmInv'
  BY <1>1, <1>2, <1>3, <1>4 DEF Fresh, CalmInv, HasRead, StoreInv, TypeInv
<1>6. CurrentIsFresh'
  BY <1>1, <1>2, <1>4 DEF Fresh, CurrentIsFresh, Acceptable, StoreInv, TypeInv
<1> QED BY <1>5, <1>6 DEF Fresh

LEMMA ReturnKeepsFresh ==
  ASSUME StoreInv, Fresh, NEW c \in Caller, Return(c)
  PROVE  Fresh'
<1>1. UNCHANGED <<file, desired, snapshot, holder, stage, got, calm>> /\ pc[c] = "returning"
  BY DEF Return, disk, reload
<1>2. pc'[c] = "idle" /\ result'[c] = snapshot.version
      /\ \A d \in Caller \ {c} : pc'[d] = pc[d] /\ result'[d] = result[d]
  BY DEF Return, StoreInv, TypeInv, Thread
<1>3. UNCHANGED <<OnDisk, Acceptable>>
  BY <1>1 DEF OnDisk, Acceptable
<1>4. CalmInv'
  BY <1>1, <1>2, <1>3 DEF Fresh, CalmInv, HasRead, StoreInv, TypeInv
<1>5. c \in calm /\ Acceptable => snapshot.version = OnDisk.version
  BY <1>1 DEF Fresh, CalmInv
<1>6. CurrentIsFresh'
  BY <1>1, <1>2, <1>3, <1>5 DEF Fresh, CurrentIsFresh, Acceptable, StoreInv, TypeInv
<1> QED BY <1>4, <1>6 DEF Fresh

LEMMA BeginKeepsFresh ==
  ASSUME StoreInv, Fresh, NEW t \in Thread, Begin(t)
  PROVE  Fresh'
<1>1. UNCHANGED <<file, desired, snapshot, pc, calm, result>> /\ stage' \in {"read", "compare"}
  BY DEF Begin, disk
<1>2. UNCHANGED <<OnDisk, Acceptable>>
  BY <1>1 DEF OnDisk, Acceptable
<1>3. CalmInv'
  BY <1>1, <1>2 DEF Fresh, CalmInv
<1>4. CurrentIsFresh'
  BY <1>1, <1>2 DEF Fresh, CurrentIsFresh, Acceptable
<1> QED BY <1>3, <1>4 DEF Fresh

(* A step that goes on to another access has read what is on disk ...      *)
LEMMA GotoKeepsFresh ==
  ASSUME StoreInv, Fresh, Reload, NEW s, NEW content, Goto(s, content),
         s = "read" \/ content = OnDisk
  PROVE  Fresh'
<1>1. UNCHANGED <<file, desired, snapshot, pc, holder, calm, result>> /\ stage' = s /\ got' = content
  BY StepsUnderMutex DEF Goto
<1>2. UNCHANGED <<OnDisk, Acceptable>>
  BY <1>1 DEF OnDisk, Acceptable
<1>3. CalmInv'
  BY <1>1, <1>2 DEF Fresh, CalmInv, HasRead
<1>4. CurrentIsFresh'
  BY <1>1, <1>2 DEF Fresh, CurrentIsFresh, Acceptable
<1> QED BY <1>3, <1>4 DEF Fresh

(* ... and a reload that is done serves it, if a call is waiting for it or *)
(* has returned from one and nothing has changed.                          *)
LEMMA DoneServes ==
  ASSUME StoreInv, Fresh, Reload, Done, NEW c \in calm, HasRead(c), Acceptable
  PROVE  snapshot'.version = OnDisk.version \/ (snapshot' = snapshot /\ pc[c] = "returning")
<1>1. CASE /\ stage = "compareStat" /\ snapshot' = snapshot
           /\ SameStamp(StampOf(got, OnDisk), snapshot.stamp)
  <2>1. got = OnDisk
    BY <1>1 DEF Fresh, CalmInv
  <2>2. snapshot.stamp.hash = got.version
    BY <1>1 DEF SameStamp, StampOf
  <2> QED BY <1>1, <2>1, <2>2 DEF StoreInv, TypeInv
<1>2. CASE stage = "stat" /\ (OnDisk = Absent \/ Rejected \in Outcomes(got.doc))
  <2>1. got = OnDisk
    BY <1>2 DEF Fresh, CalmInv
  <2> QED BY <1>2, <2>1 DEF Acceptable, AlwaysAccepted
<1>3. CASE stage = "stat" /\ Replace(Outcomes(got.doc) \ {Rejected})
  <2>1. got = OnDisk
    BY <1>3 DEF Fresh, CalmInv
  <2> QED BY <1>3, <2>1 DEF Replace
<1>4. holder' = Nobody /\ holder # Nobody
  BY StepsUnderMutex, DoneReleases
<1>5. \A s, content : ~Goto(s, content)
  BY <1>4 DEF Goto
<1> QED BY <1>1, <1>2, <1>3, <1>5, ReloadGoesOnOrIsDone DEF Acceptable

LEMMA DoneKeepsFresh ==
  ASSUME StoreInv, Fresh, Reload, Done
  PROVE  Fresh'
<1>1. UNCHANGED <<file, desired, calm, result>> /\ holder \in Thread /\ pc[holder] \in Calling
      /\ holder # Nobody
  BY StepsUnderMutex
<1>2. stage' = "none" /\ pc'[holder] = IF pc[holder] = "reading" THEN "returning" ELSE "idle"
  BY <1>1, DoneReleases
<1>3. \A t \in Thread \ {holder} : pc'[t] = pc[t]
  BY <1>1, DoneReleases
<1>4. UNCHANGED <<OnDisk, Acceptable>>
  BY <1>1 DEF OnDisk, Acceptable
<1>5. calm \subseteq Thread
  BY DEF StoreInv, TypeInv, Thread
<1>6. \A c \in calm : c = holder => pc[c] = "reading"
  BY <1>1 DEF Fresh, CalmInv, Calling
<1>7. ASSUME NEW c \in calm, pc'[c] = "returning", Acceptable
      PROVE  snapshot'.version = OnDisk.version
  <2>1. HasRead(c)
    BY <1>3, <1>5, <1>7 DEF HasRead
  <2>2. pc[c] = "returning" => snapshot.version = OnDisk.version
    BY <1>7 DEF Fresh, CalmInv
  <2> QED BY <1>7, <2>1, <2>2, DoneServes
<1>8. CalmInv'
  BY <1>1, <1>2, <1>3, <1>4, <1>5, <1>6, <1>7 DEF Fresh, CalmInv
<1>9. CurrentIsFresh'
  BY <1>1, <1>2, <1>3, <1>4, <1>5, <1>6 DEF Fresh, CurrentIsFresh, Acceptable
<1> QED BY <1>8, <1>9 DEF Fresh

LEMMA FreshStep == StoreInv /\ Fresh /\ [Next]_vars => Fresh'
<1> SUFFICES ASSUME StoreInv, Fresh, [Next]_vars PROVE Fresh'
  OBVIOUS
<1>1. CASE calm' = {}
  BY <1>1 DEF Fresh, CalmInv, CurrentIsFresh
<1>2. CASE \E c \in Caller : CallCurrent(c) \/ Return(c)
  BY <1>2, CallKeepsFresh, ReturnKeepsFresh
<1>3. CASE \E t \in Thread : Begin(t)
  BY <1>3, BeginKeepsFresh
<1>4. CASE Reload
  <2>1. CASE Done
    BY <1>4, <2>1, DoneKeepsFresh
  <2>2. CASE ~Done
    BY <1>4, <2>2, ReloadGoesOnOrIsDone, GotoKeepsFresh
  <2> QED BY <2>1, <2>2
<1>5. CASE Tick \/ LoopEnds \/ Close \/ UNCHANGED vars
  <2>1. UNCHANGED <<file, desired, snapshot, holder, stage, got, calm, result>>
    BY <1>5 DEF Tick, LoopEnds, Close, vars, disk, reload
  <2>2. \A c \in Caller : pc'[c] = pc[c]
    BY <1>5, StoreAssumption DEF Tick, LoopEnds, Close, vars, StoreInv, TypeInv, Thread
  <2>3. UNCHANGED <<OnDisk, Acceptable>>
    BY <2>1 DEF OnDisk, Acceptable
  <2>4. CalmInv'
    BY <2>1, <2>2, <2>3 DEF Fresh, CalmInv, HasRead, StoreInv, TypeInv
  <2>5. CurrentIsFresh'
    BY <2>1, <2>2, <2>3 DEF Fresh, CurrentIsFresh, Acceptable, StoreInv, TypeInv
  <2> QED BY <2>4, <2>5 DEF Fresh
<1>6. CASE \E p \in Path : Write(p) \/ Delete(p) \/ \E c \in Caller : CallSetPath(c, p)
  BY <1>1, <1>6 DEF Write, Delete, CallSetPath
<1> QED BY <1>2, <1>3, <1>4, <1>5, <1>6 DEF Next

(* A call of Current during which neither a file nor the path has changed  *)
(* returns what is on disk, if that is always accepted, whatever the       *)
(* ticker and the other callers do meanwhile (store.go:186).               *)
THEOREM CurrentStaysFresh == Spec => []CurrentIsFresh
<1>1. Init => Fresh
  BY DEF Init, Fresh, CalmInv, CurrentIsFresh
<1>2. Spec => []Fresh
  BY <1>1, FreshStep, StoreCorrect, PTL DEF Spec
<1> QED BY <1>2, PTL DEF Fresh

-----------------------------------------------------------------------------

(* What sortCandidates looks at; identifiers are compared like numbers.    *)
Candidate == [priority : Int, created : Nat, name : Int]

(* The keys of a candidate are numbers, whatever the item leaves out.      *)
LEMMA KeysAreNumbers ==
  ASSUME NEW a \in Candidate
  PROVE  /\ PriorityRank(a.priority) \in 1 .. 5
         /\ CreatedAtKey(a.created) \in Nat
BY DEF Candidate, PriorityRank, CreatedAtKey, Never

(* sortCandidates (state.go:671) orders any candidates with identifiers of *)
(* their own in one way only, so that a cycle offers them in an order that *)
(* does not depend on the answer of the tracker: the comparison is a       *)
(* strict total order.                                                     *)
THEOREM OrderIsTotal ==
  ASSUME NEW a \in Candidate, NEW b \in Candidate, NEW c \in Candidate
  PROVE  /\ ~Before(a, a)
         /\ Before(a, b) /\ Before(b, c) => Before(a, c)
         /\ a.name # b.name => Before(a, b) \/ Before(b, a)
<1>1. a.name \in Int /\ b.name \in Int /\ c.name \in Int
  BY DEF Candidate
<1>2. ~Before(a, a)
  BY <1>1, KeysAreNumbers DEF Before
<1>3. Before(a, b) /\ Before(b, c) => Before(a, c)
  BY <1>1, KeysAreNumbers DEF Before
<1>4. a.name # b.name => Before(a, b) \/ Before(b, a)
  BY <1>1, KeysAreNumbers DEF Before
<1> QED
  BY <1>2, <1>3, <1>4
=============================================================================
