------------------------- MODULE ObservationProofs -------------------------
(***************************************************************************)
(* The token ledger counts every run once, and a page shows no throughput  *)
(* after a lull, for every number of runs, requests and samples and every  *)
(* length of the window, the delay and the second.  What the loops of the  *)
(* code compute is found by induction over their steps.                    *)
(***************************************************************************)
EXTENDS Observation, LoopTheorems, SequenceTheorems, TLAPS

-----------------------------------------------------------------------------
(* The sum over all runs.                                                  *)

LEMMA SumSteps ==
  ASSUME NEW p \in [Runs -> Int]
  PROVE  \E upTo : /\ Sum(p) = upTo[MaxRuns] /\ upTo[0] = 0
                   /\ \A r \in Runs : upTo[r] = upTo[r - 1] + p[r]
<1> DEFINE N == MaxRuns
           Body(f) == [r \in 0 .. N |-> IF r = 0 THEN 0 ELSE f[r - 1] + p[r]]
           step == [q \in (1 .. N) \X Int |-> q[2] + p[q[1]]]
<1>1. N \in Nat /\ Runs = 1 .. N
  BY ObservationAssumption DEF Runs
<1>2. step \in Steps(N, Int) /\ 0 \in Int /\ N \in Nat
  BY <1>1 DEF Steps
<1>3. PICK f : Follows(f, N, Int, 0, step)
  <2> HIDE DEF step, N
  <2> QED BY <1>2, StepsDefine
<1> HIDE DEF N
<1>4. f \in [0 .. N -> Int] /\ f[0] = 0 /\ \A r \in 1 .. N : f[r] = f[r - 1] + p[r]
  <2>1. f \in [0 .. N -> Int] /\ f[0] = 0 /\ \A r \in 1 .. N : f[r] = step[<<r, f[r - 1]>>]
    BY <1>3 DEF Follows
  <2>2. \A r \in 1 .. N : r - 1 \in 0 .. N /\ f[r - 1] \in Int
    BY <1>1, <2>1
  <2> QED BY <2>1, <2>2
<1>5. f = Body(f)
  <2>1. \A r \in 0 .. N : r # 0 => r \in 1 .. N
    BY <1>1
  <2>2. \A r \in 0 .. N : f[r] = Body(f)[r]
    BY <1>4, <2>1
  <2>3. f = [r \in 0 .. N |-> f[r]] /\ Body(f) = [r \in 0 .. N |-> Body(f)[r]]
    BY <1>4
  <2> HIDE DEF Body
  <2> QED BY <2>2, <2>3
<1> DEFINE upTo == CHOOSE g : g = Body(g)
<1>6. upTo = Body(upTo)
  <2> HIDE DEF Body
  <2> QED BY <1>5
<1>7. Sum(p) = upTo[N]
  BY DEF Sum, N
<1> HIDE DEF upTo
<1>8. \A r \in 0 .. N : upTo[r] = IF r = 0 THEN 0 ELSE upTo[r - 1] + p[r]
  BY <1>6
<1>9. 0 \in 0 .. N /\ \A r \in 1 .. N : r \in 0 .. N /\ r # 0
  BY <1>1
<1> QED BY <1>1, <1>7, <1>8, <1>9 DEF N

(* A change of one run changes the sum by as much.                         *)
LEMMA SumChanges ==
  ASSUME NEW p \in [Runs -> Int], NEW r \in Runs, NEW v \in Int
  PROVE  Sum(p) \in Int /\ Sum([p EXCEPT ![r] = v]) = Sum(p) + v - p[r]
<1> DEFINE q == [p EXCEPT ![r] = v]
           N == MaxRuns
<1>1. N \in Nat /\ Runs = 1 .. N
  BY ObservationAssumption DEF Runs
<1>2. q \in [Runs -> Int] /\ q[r] = v /\ \A n \in Runs : n # r => q[n] = p[n]
  OBVIOUS
<1>3. PICK a : Sum(p) = a[N] /\ a[0] = 0 /\ \A n \in Runs : a[n] = a[n - 1] + p[n]
  BY SumSteps
<1>4. PICK b : Sum(q) = b[N] /\ b[0] = 0 /\ \A n \in Runs : b[n] = b[n - 1] + q[n]
  BY <1>2, SumSteps
<1> HIDE DEF q, N
<1> DEFINE Agree(n) == a[n] \in Int /\ b[n] = a[n] + (IF r <= n THEN v - p[r] ELSE 0)
           T == {n \in Nat : n <= N => Agree(n)}
<1>5. 0 \in T
  BY <1>1, <1>3, <1>4
<1>6. ASSUME NEW n \in T PROVE n + 1 \in T
  <2> SUFFICES ASSUME n + 1 <= N PROVE Agree(n + 1)
    OBVIOUS
  <2>1. n + 1 \in Runs /\ n + 1 - 1 = n /\ n \in Nat
    BY <1>1
  <2>2. Agree(n)
    BY <1>1, <2>1
  <2>3. a[n + 1] = a[n] + p[n + 1] /\ b[n + 1] = b[n] + q[n + 1]
    BY <1>3, <1>4, <2>1
  <2>4. p[n + 1] \in Int /\ q[n + 1] = IF n + 1 = r THEN v ELSE p[n + 1]
    BY <1>2, <2>1
  <2>5. r \in Nat /\ p[r] \in Int
    BY <1>1
  <2> QED BY <2>1, <2>2, <2>3, <2>4, <2>5
<1> HIDE DEF T
<1>7. N \in T
  <2>1. T \in SUBSET Nat
    BY DEF T
  <2> QED BY <1>1, <1>5, <1>6, <2>1, AllNaturals
<1>8. Agree(N)
  BY <1>1, <1>7 DEF T
<1>9. r <= N /\ p[r] \in Int
  BY <1>1
<1> QED BY <1>3, <1>4, <1>8, <1>9 DEF q

LEMMA SumOfNothing == Sum([r \in Runs |-> 0]) = 0
<1> DEFINE p == [r \in Runs |-> 0]
           N == MaxRuns
<1>1. N \in Nat /\ Runs = 1 .. N /\ p \in [Runs -> Int]
  BY ObservationAssumption DEF Runs
<1>2. PICK a : Sum(p) = a[N] /\ a[0] = 0 /\ \A n \in Runs : a[n] = a[n - 1] + p[n]
  BY <1>1, SumSteps
<1>3. \A n \in Runs : p[n] = 0
  OBVIOUS
<1> HIDE DEF p, N
<1> DEFINE T == {n \in Nat : n <= N => a[n] = 0}
<1>4. 0 \in T
  BY <1>2
<1>5. ASSUME NEW n \in T PROVE n + 1 \in T
  <2>1. n + 1 <= N => n + 1 \in Runs /\ n + 1 - 1 = n /\ n <= N
    BY <1>1
  <2> QED BY <1>2, <1>3, <2>1
<1> HIDE DEF T
<1>6. N \in T
  <2>1. T \in SUBSET Nat
    BY DEF T
  <2> QED BY <1>1, <1>4, <1>5, <2>1, AllNaturals
<1> QED BY <1>1, <1>2, <1>6 DEF T, p

-----------------------------------------------------------------------------
(* The ledger.                                                             *)

LedgerType ==
  /\ run \in 0 .. MaxRuns /\ started \in 0 .. MaxRuns
  /\ last \in Nat /\ total \in Nat
  /\ pending \in [Runs -> Nat \cup {NoReport}]
  /\ peak \in [Runs -> Nat]
  /\ dipped \in BOOLEAN /\ strayed \in BOOLEAN

(* Only runs that have started report.                                     *)
StartedOnly ==
  /\ run # 0 => run = started
  /\ \A r \in Runs : r > started => pending[r] = NoReport /\ peak[r] = 0

(* What the entry remembers is what its run has reported, at most.         *)
EntryCurrent ==
  ~strayed /\ run # 0 => last <= peak[run] /\ (~dipped => last = peak[run])

LedgerInv == LedgerType /\ StartedOnly /\ EntryCurrent /\ TotalsMatchReports

LEMMA LedgerStarts == Init => LedgerInv
<1> SUFFICES ASSUME Init PROVE LedgerInv
  OBVIOUS
<1>1. LedgerType
  <2>1. MaxRuns \in Nat /\ run = 0 /\ started = 0 /\ last = 0 /\ total = 0
    BY ObservationAssumption DEF Init
  <2>2. pending = [r \in Runs |-> NoReport] /\ peak = [r \in Runs |-> 0]
    BY DEF Init
  <2>3. pending \in [Runs -> Nat \cup {NoReport}] /\ peak \in [Runs -> Nat]
    BY <2>2
  <2>4. dipped \in BOOLEAN /\ strayed \in BOOLEAN
    BY Zenon DEF Init
  <2>5. run \in 0 .. MaxRuns /\ started \in 0 .. MaxRuns
    BY <2>1
  <2> QED BY <2>1, <2>3, <2>4, <2>5 DEF LedgerType
<1>2. StartedOnly /\ EntryCurrent
  BY DEF Init, StartedOnly, EntryCurrent
<1>3. TotalsMatchReports
  BY SumOfNothing DEF Init, TotalsMatchReports
<1> QED BY <1>1, <1>2, <1>3 DEF LedgerInv

(* A report that is applied.                                               *)
LEMMA ApplyKeepsLedger ==
  ASSUME LedgerInv, NEW r \in Runs, Apply(r)
  PROVE  LedgerInv'
<1>1. LedgerType /\ StartedOnly /\ EntryCurrent /\ TotalsMatchReports
  BY DEF LedgerInv
<1>2. pending[r] \in Nat /\ r <= started /\ r > 0
  BY <1>1, ObservationAssumption DEF LedgerType, StartedOnly, Apply, Runs, NoReport
<1>3. pending' = [pending EXCEPT ![r] = NoReport] /\ run' = run /\ started' = started
  BY DEF Apply
<1>4. CASE run = 0
  <2>1. UNCHANGED <<last, total, peak, dipped, strayed>>
    BY <1>4 DEF Apply
  <2> QED BY <1>1, <1>3, <1>4, <2>1
       DEF LedgerInv, LedgerType, StartedOnly, EntryCurrent, TotalsMatchReports
<1>5. CASE run # 0
  <2> DEFINE d == Delta(pending[r])
             top == Larger(peak[r], pending[r])
  <2>1. /\ total' = total + d /\ last' = pending[r]
        /\ peak' = [peak EXCEPT ![r] = top]
        /\ dipped' = (dipped \/ pending[r] < last) /\ strayed' = (strayed \/ r # run)
    BY <1>5 DEF Apply
  <2>2. d \in Nat /\ top \in Nat /\ peak[r] \in Nat /\ last \in Nat /\ total \in Nat
    BY <1>1, <1>2 DEF Delta, Larger, LedgerType
  <2>3. /\ d = IF pending[r] > last THEN pending[r] - last ELSE 0
        /\ top = IF peak[r] > pending[r] THEN peak[r] ELSE pending[r]
    BY <1>1, <1>2 DEF Delta, Larger, LedgerType
  <2>4. Sum(peak) \in Int /\ Sum(peak') = Sum(peak) + top - peak[r]
    <3>1. peak \in [Runs -> Int]
      BY <1>1 DEF LedgerType
    <3>2. top \in Int
      BY <2>2
    <3> HIDE DEF top
    <3>3. Sum([peak EXCEPT ![r] = top]) = Sum(peak) + top - peak[r] /\ Sum(peak) \in Int
      BY <3>1, <3>2, SumChanges
    <3> QED BY <2>1, <3>3
  <2> HIDE DEF d, top
  <2>5. peak'[r] = top /\ \A n \in Runs : n # r => peak'[n] = peak[n]
    BY <1>1, <2>1 DEF LedgerType
  <2>6. LedgerType'
    BY <1>1, <1>2, <1>3, <2>1, <2>2 DEF LedgerType, NoReport
  <2>7. StartedOnly'
    BY <1>1, <1>2, <1>3, <2>5, ObservationAssumption DEF StartedOnly, LedgerType, Runs
  <2>8. CASE strayed \/ r # run
    BY <2>1, <2>6, <2>7, <2>8 DEF LedgerInv, EntryCurrent, TotalsMatchReports
  <2>9. CASE ~strayed /\ r = run
    <3>1. last <= peak[r] /\ (~dipped => last = peak[r])
      BY <1>1, <1>5, <2>9 DEF EntryCurrent
    <3>2. EntryCurrent'
      <4>1. pending[r] <= top
        BY <1>2, <2>2, <2>3
      <4>2. ~(pending[r] < last) /\ ~dipped => pending[r] = top
        BY <1>2, <2>2, <2>3, <3>1
      <4>3. run' = r /\ last' = pending[r] /\ peak'[run'] = top
        BY <1>3, <2>1, <2>5, <2>9
      <4>4. dipped' = (dipped \/ pending[r] < last)
        BY <2>1
      <4> QED BY <4>1, <4>2, <4>3, <4>4 DEF EntryCurrent
    <3>3. IF dipped THEN total >= Sum(peak) ELSE total = Sum(peak)
      BY <1>1, <2>9 DEF TotalsMatchReports
    <3>4. IF dipped \/ pending[r] < last THEN total + d >= Sum(peak) + top - peak[r]
                                         ELSE total + d = Sum(peak) + top - peak[r]
      BY <1>2, <2>2, <2>3, <2>4, <3>1, <3>3
    <3>5. TotalsMatchReports'
      BY <2>1, <2>4, <3>4 DEF TotalsMatchReports
    <3> QED BY <2>6, <2>7, <3>2, <3>5 DEF LedgerInv
  <2> QED BY <2>8, <2>9, <1>1 DEF LedgerType
<1> QED BY <1>4, <1>5

LEMMA LedgerKept == LedgerInv /\ [Next]_vars => LedgerInv'
<1> SUFFICES ASSUME LedgerInv, [Next]_vars PROVE LedgerInv'
  OBVIOUS
<1>1. LedgerType /\ StartedOnly /\ EntryCurrent /\ TotalsMatchReports
  BY DEF LedgerInv
<1>2. MaxRuns \in Nat /\ Runs = 1 .. MaxRuns /\ MaxUsage \in Nat
  BY ObservationAssumption DEF Runs
<1>3. CASE Dispatch
  <2>1. LedgerType'
    BY <1>1, <1>2, <1>3 DEF Dispatch, LedgerType
  <2>2. StartedOnly'
    BY <1>1, <1>2, <1>3 DEF Dispatch, LedgerType, StartedOnly
  <2>3. started + 1 \in Runs /\ started + 1 > started
    BY <1>1, <1>2, <1>3 DEF Dispatch, LedgerType
  <2>4. EntryCurrent'
    BY <1>1, <1>3, <2>3 DEF Dispatch, StartedOnly, EntryCurrent
  <2>5. TotalsMatchReports'
    BY <1>1, <1>3 DEF Dispatch, TotalsMatchReports
  <2> QED BY <2>1, <2>2, <2>4, <2>5 DEF LedgerInv
<1>4. CASE EntryGoes
  BY <1>1, <1>2, <1>4
     DEF EntryGoes, LedgerInv, LedgerType, StartedOnly, EntryCurrent, TotalsMatchReports
<1>5. CASE TurnCompleted
  <2>1. PICK usage \in 1 .. MaxUsage : pending' = [pending EXCEPT ![run] = usage]
    BY <1>5 DEF TurnCompleted
  <2>2. UNCHANGED <<run, started, last, total, peak, dipped, strayed>> /\ run # 0
    BY <1>5 DEF TurnCompleted
  <2>3. LedgerType'
    BY <1>1, <1>2, <2>1, <2>2 DEF LedgerType
  <2>4. run = started
    BY <1>1, <2>2 DEF StartedOnly
  <2>5. \A r \in Runs : r > started => r # run
    BY <1>1, <1>2, <2>4 DEF LedgerType
  <2>6. StartedOnly'
    BY <1>1, <2>1, <2>2, <2>5 DEF StartedOnly, LedgerType
  <2>7. EntryCurrent' /\ TotalsMatchReports'
    BY <1>1, <2>2 DEF EntryCurrent, TotalsMatchReports
  <2> QED BY <2>3, <2>6, <2>7 DEF LedgerInv
<1>6. CASE \E r \in Runs : Apply(r)
  BY <1>6, ApplyKeepsLedger
<1>7. CASE Tick \/ (\E c \in Clients : TakeSnapshot(c) \/ Project(c)) \/ UNCHANGED vars
  <2>1. UNCHANGED <<run, started, last, pending, total, peak, dipped, strayed>>
    BY <1>7 DEF Tick, TakeSnapshot, Project, vars, ledger
  <2> QED BY <1>1, <2>1
       DEF LedgerInv, LedgerType, StartedOnly, EntryCurrent, TotalsMatchReports
<1> QED BY <1>3, <1>4, <1>5, <1>6, <1>7 DEF Next

(* The total is the sum of what the runs have reported, each counted once, *)
(* unless usage goes down in a run or a report reaches a later run; what   *)
(* goes down is never taken off (applyAggregateDelta).                     *)
THEOREM TotalsStayExact == Spec => []TotalsMatchReports
<1>1. LedgerInv => TotalsMatchReports
  BY DEF LedgerInv
<1> QED BY <1>1, LedgerStarts, LedgerKept, PTL DEF Spec
-----------------------------------------------------------------------------
(* The samples kept.                                                       *)

LEMMA RecentSteps ==
  ASSUME NEW S, NEW all \in Seq(S)
  PROVE  \E keep : /\ Recent(all) = keep[Len(all)]
                   /\ keep[0] = <<>>
                   /\ \A n \in 1 .. Len(all) :
                        keep[n] = IF all[n].age <= Window THEN Append(keep[n - 1], all[n])
                                                          ELSE keep[n - 1]
<1> DEFINE N == Len(all)
           Body(f) == [n \in 0 .. N |->
                        IF n = 0 THEN <<>>
                        ELSE IF all[n].age <= Window THEN Append(f[n - 1], all[n]) ELSE f[n - 1]]
           step == [p \in (1 .. N) \X Seq(S) |->
                      IF all[p[1]].age <= Window THEN Append(p[2], all[p[1]]) ELSE p[2]]
<1>1. N \in Nat /\ \A n \in 1 .. N : all[n] \in S
  OBVIOUS
<1>2. step \in Steps(N, Seq(S))
  <2> SUFFICES ASSUME NEW p \in (1 .. N) \X Seq(S)
               PROVE  (IF all[p[1]].age <= Window THEN Append(p[2], all[p[1]]) ELSE p[2]) \in Seq(S)
    BY DEF Steps
  <2>1. p[1] \in 1 .. N /\ p[2] \in Seq(S) /\ all[p[1]] \in S
    BY <1>1
  <2> QED BY <2>1
<1>3. PICK f \in [0 .. N -> Seq(S)] :
        f[0] = <<>> /\ \A i \in 1 .. N : f[i] = step[<<i, f[i - 1]>>]
  <2>1. <<>> \in Seq(S)
    OBVIOUS
  <2> HIDE DEF step, N
  <2>2. \E f : Follows(f, N, Seq(S), <<>>, step)
    BY <1>1, <1>2, <2>1, StepsDefine
  <2> QED BY <2>2 DEF Follows
<1>4. \A n \in 1 .. N : f[n] = IF all[n].age <= Window THEN Append(f[n - 1], all[n]) ELSE f[n - 1]
  <2> TAKE n \in 1 .. N
  <2>1. n - 1 \in 0 .. N /\ f[n - 1] \in Seq(S)
    <3> HIDE DEF N
    <3>1. n - 1 \in 0 .. N
      BY <1>1
    <3> QED BY <1>3, <3>1
  <2>2. step[<<n, f[n - 1]>>] = IF all[n].age <= Window THEN Append(f[n - 1], all[n]) ELSE f[n - 1]
    BY <2>1
  <2> QED BY <1>3, <2>2
<1> HIDE DEF N
<1>5. f = Body(f)
  <2>1. \A n \in 0 .. N : n # 0 => n \in 1 .. N
    BY <1>1
  <2>2. \A n \in 0 .. N : f[n] = Body(f)[n]
    BY <1>3, <1>4, <2>1
  <2>3. f = [n \in 0 .. N |-> f[n]] /\ Body(f) = [n \in 0 .. N |-> Body(f)[n]]
    OBVIOUS
  <2> HIDE DEF Body
  <2> QED BY <2>2, <2>3
<1> DEFINE keep == CHOOSE g : g = Body(g)
<1>6. keep = Body(keep)
  <2> HIDE DEF Body
  <2> QED BY <1>5
<1>7. Recent(all) = keep[N]
  BY DEF Recent, N
<1> HIDE DEF keep
<1>8. keep[0] = <<>> /\ \A n \in 1 .. N :
        keep[n] = IF all[n].age <= Window THEN Append(keep[n - 1], all[n]) ELSE keep[n - 1]
  <2>1. \A n \in 0 .. N : keep[n] = IF n = 0 THEN <<>>
                        ELSE IF all[n].age <= Window THEN Append(keep[n - 1], all[n]) ELSE keep[n - 1]
    BY <1>6
  <2>2. 0 \in 0 .. N /\ \A n \in 1 .. N : n \in 0 .. N /\ n # 0
    BY <1>1
  <2> QED BY <2>1, <2>2
<1> QED BY <1>7, <1>8 DEF N

(* The loop keeps samples of the window only, and drops no other.          *)
LEMMA RecentKeeps ==
  ASSUME NEW S, NEW all \in Seq(S)
  PROVE  /\ Recent(all) \in Seq({s \in S : s.age <= Window})
         /\ all # <<>> /\ all[Len(all)].age <= Window => Recent(all) # <<>>
<1> DEFINE N == Len(all)
           Kept == {s \in S : s.age <= Window}
<1>1. PICK keep : /\ Recent(all) = keep[N]
                  /\ keep[0] = <<>>
                  /\ \A n \in 1 .. N :
                       keep[n] = IF all[n].age <= Window THEN Append(keep[n - 1], all[n])
                                                         ELSE keep[n - 1]
  BY RecentSteps
<1>2. N \in Nat /\ \A n \in 1 .. N : all[n] \in S
  OBVIOUS
<1>3. all # <<>> => N \in 1 .. N
  BY <1>2
<1> HIDE DEF N
<1> DEFINE T == {n \in Nat : n <= N => keep[n] \in Seq(Kept)}
<1>4. 0 \in T
  <2>1. keep[0] \in Seq(Kept)
    BY <1>1
  <2> QED BY <2>1
<1>5. ASSUME NEW n \in T PROVE n + 1 \in T
  <2> SUFFICES ASSUME n + 1 <= N PROVE keep[n + 1] \in Seq(Kept)
    OBVIOUS
  <2>1. n \in Nat /\ n + 1 \in 1 .. N /\ n + 1 - 1 = n /\ n <= N
    BY <1>2
  <2>2. keep[n] \in Seq(Kept)
    BY <2>1
  <2>3. keep[n + 1] = IF all[n + 1].age <= Window THEN Append(keep[n], all[n + 1]) ELSE keep[n]
    BY <1>1, <2>1
  <2>4. all[n + 1].age <= Window => all[n + 1] \in Kept
    BY <1>2, <2>1
  <2> HIDE DEF Kept
  <2> QED BY <2>2, <2>3, <2>4
<1> HIDE DEF T
<1>6. N \in T
  <2>1. T \in SUBSET Nat
    BY DEF T
  <2> QED BY <1>2, <1>4, <1>5, <2>1, AllNaturals
<1>7. Recent(all) \in Seq(Kept)
  BY <1>1, <1>2, <1>6 DEF T
<1>8. ASSUME all # <<>>, all[N].age <= Window PROVE Recent(all) # <<>>
  <2>1. Recent(all) = Append(keep[N - 1], all[N])
    BY <1>1, <1>3, <1>8
  <2>2. N - 1 \in Nat /\ N - 1 <= N
    BY <1>2, <1>3, <1>8
  <2>3. T \in SUBSET Nat
    BY DEF T
  <2>4. N - 1 \in T
    BY <1>4, <1>5, <2>2, <2>3, AllNaturals
  <2>5. keep[N - 1] \in Seq(Kept)
    BY <2>2, <2>4 DEF T
  <2> QED BY <2>1, <2>5, AppendProperties, <1>3, <1>8, <1>2
<1> QED BY <1>7, <1>8 DEF N

-----------------------------------------------------------------------------
(* The pages.                                                              *)

Sample == [age : 0 .. Window + 1, tokens : Nat]
HeldType == {None} \cup [total : Nat, age : 0 .. MaxDelay]

PageType ==
  /\ idle \in 0 .. Lull + 1 /\ phase \in 0 .. TicksPerSecond - 1
  /\ held \in [Clients -> HeldType]
  /\ cache \in [current : BOOLEAN, tps : Int]
  /\ shown \in Int

(* What was seen below the total was seen before the total last grew.      *)
HeldFresh == \A c \in Clients : held[c] # None =>
  held[c].total <= total /\ (held[c].total < total => idle <= held[c].age)

FreshSample == {s \in Sample :
  s.tokens <= total /\ (s.tokens < total => idle <= s.age + MaxDelay \/ s.age = Window + 1)}
SamplesFresh == samples \in Seq(FreshSample)

(* A rate is of the second it was computed in.                             *)
CacheFresh == cache.current /\ cache.tps > 0 => idle <= Window + MaxDelay + phase
PageFresh == shown > 0 => idle <= Lull

PageInv == PageType /\ HeldFresh /\ SamplesFresh /\ CacheFresh /\ PageFresh

LEMMA NumbersOfPages ==
  /\ Window \in Nat /\ MaxDelay \in Nat /\ TicksPerSecond \in Nat /\ TicksPerSecond > 0
  /\ Lull \in Nat /\ Lull = Window + MaxDelay + (TicksPerSecond - 1)
BY ObservationAssumption DEF Lull

LEMMA PagesStart == Init => PageInv
<1> SUFFICES ASSUME Init PROVE PageInv
  OBVIOUS
<1>1. idle = 0 /\ phase = 0 /\ held = [c \in Clients |-> None] /\ samples = <<>> /\ shown = -1
      /\ cache = [current |-> FALSE, tps |-> 0]
  BY DEF Init
<1>2. None \in HeldType
  BY NumbersOfPages DEF None, HeldType
<1>3. PageType
  <2>1. idle \in 0 .. Lull + 1 /\ phase \in 0 .. TicksPerSecond - 1 /\ shown \in Int
    BY <1>1, NumbersOfPages
  <2> QED BY <1>1, <1>2, <2>1 DEF PageType
<1>4. HeldFresh
  BY <1>1 DEF HeldFresh
<1>5. SamplesFresh
  BY <1>1 DEF SamplesFresh
<1>6. CacheFresh /\ PageFresh
  BY <1>1 DEF CacheFresh, PageFresh
<1> QED BY <1>3, <1>4, <1>5, <1>6 DEF PageInv

(* A rate above 0 comes from a sample below the tokens of the page.        *)
LEMMA RateShowsGrowth ==
  ASSUME NEW kept \in Seq(Sample), kept # <<>>, NEW tokens \in Nat
  PROVE  /\ Rate(kept, tokens) \in Int
         /\ Rate(kept, tokens) > 0 => Head(kept).tokens < tokens
<1> DEFINE first == Head(kept)
           grown == Larger(0, tokens - first.tokens)
           product == grown * TicksPerSecond
<1>1. first \in Sample
  OBVIOUS
<1>2. first.age \in Nat /\ first.tokens \in Nat
  BY <1>1, NumbersOfPages DEF Sample
<1>3. grown \in Nat /\ (~(first.tokens < tokens) => grown = 0)
  BY <1>2 DEF Larger
<1>4. Rate(kept, tokens) = IF first.age = 0 THEN 0 ELSE product \div first.age
  BY DEF Rate
<1> HIDE DEF first, grown
<1>5. product \in Nat /\ (grown = 0 => product = 0)
  BY <1>3, NumbersOfPages
<1> HIDE DEF product
<1>6. first.age # 0 => product \div first.age \in Int /\ (product = 0 => product \div first.age = 0)
  BY <1>2, <1>5
<1>7. CASE first.age = 0
  BY <1>4, <1>7
<1>8. CASE first.age # 0
  <2>1. Rate(kept, tokens) = product \div first.age
    BY <1>4, <1>8
  <2>2. ~(first.tokens < tokens) => Rate(kept, tokens) = 0
    BY <1>3, <1>5, <1>6, <1>8, <2>1
  <2> QED BY <1>6, <1>8, <2>1, <2>2 DEF first
<1> QED BY <1>7, <1>8

(* What the ledger does to the pages: the total may grow, and then the     *)
(* count of idle ticks starts again.                                       *)
LedgerMoves ==
  /\ total \in Nat /\ total' \in Nat /\ total' >= total
  /\ idle' \in {0, idle} /\ (total' # total => idle' = 0)
  /\ UNCHANGED <<phase, pages>>

LEMMA LedgerStepMoves ==
  ASSUME LedgerInv,
         Dispatch \/ EntryGoes \/ TurnCompleted \/ (\E r \in Runs : Apply(r)) \/ UNCHANGED vars
  PROVE  LedgerMoves
<1>1. total \in Nat /\ last \in Nat /\ \A r \in Runs : pending[r] \in Nat \cup {NoReport}
  BY DEF LedgerInv, LedgerType
<1>2. CASE Dispatch \/ EntryGoes \/ TurnCompleted \/ UNCHANGED vars
  <2>1. UNCHANGED <<total, idle, phase, pages>>
    BY <1>2 DEF Dispatch, EntryGoes, TurnCompleted, vars, ledger
  <2> QED BY <1>1, <2>1 DEF LedgerMoves
<1>3. ASSUME NEW r \in Runs, Apply(r) PROVE LedgerMoves
  <2>1. pending[r] \in Nat
    BY <1>1, <1>3 DEF Apply
  <2>2. Delta(pending[r]) \in Nat
    BY <1>1, <2>1 DEF Delta, Larger
  <2>3. UNCHANGED <<phase, pages>>
    BY <1>3 DEF Apply
  <2>4. CASE run = 0
    <3>1. UNCHANGED <<total, idle>>
      BY <1>3, <2>4 DEF Apply
    <3> QED BY <1>1, <2>3, <3>1 DEF LedgerMoves
  <2>5. CASE run # 0
    <3>1. /\ total' = total + Delta(pending[r])
          /\ idle' = IF Delta(pending[r]) > 0 THEN 0 ELSE idle
      BY <1>3, <2>5 DEF Apply
    <3> QED BY <1>1, <2>2, <2>3, <3>1 DEF LedgerMoves
  <2> QED BY <2>4, <2>5
<1> QED BY <1>2, <1>3

LEMMA PagesKeptByLedger ==
  ASSUME PageInv, LedgerMoves
  PROVE  PageInv'
<1>1. PageType /\ HeldFresh /\ SamplesFresh /\ CacheFresh /\ PageFresh
  BY DEF PageInv
<1>2. /\ total \in Nat /\ total' \in Nat /\ total' >= total
      /\ idle' \in {0, idle} /\ (total' # total => idle' = 0)
      /\ phase' = phase /\ held' = held /\ samples' = samples /\ cache' = cache /\ shown' = shown
  BY DEF LedgerMoves, pages
<1>3. idle \in Nat /\ idle' \in Nat /\ idle' <= idle /\ phase \in Nat
  BY <1>1, <1>2, NumbersOfPages DEF PageType
<1>4. PageType'
  <2>1. idle' \in 0 .. Lull + 1
    BY <1>1, <1>2, NumbersOfPages DEF PageType
  <2> QED BY <1>1, <1>2, <2>1 DEF PageType
<1>5. HeldFresh'
  <2> SUFFICES ASSUME NEW c \in Clients, held[c] # None
               PROVE  held[c].total <= total' /\ (held[c].total < total' => idle' <= held[c].age)
    BY <1>2 DEF HeldFresh
  <2>1. held[c].total \in Int /\ held[c].age \in Nat
    BY <1>1, NumbersOfPages DEF PageType, HeldType
  <2>2. held[c].total <= total /\ (held[c].total < total => idle <= held[c].age)
    BY <1>1 DEF HeldFresh
  <2> QED BY <1>2, <1>3, <2>1, <2>2
<1>6. SamplesFresh'
  <2>1. ASSUME NEW s \in FreshSample PROVE s \in FreshSample'
    <3>1. s.age \in Nat /\ s.tokens \in Nat /\ s \in Sample
      BY <2>1, NumbersOfPages DEF FreshSample, Sample
    <3>2. s.tokens <= total /\ (s.tokens < total => idle <= s.age + MaxDelay \/ s.age = Window + 1)
      BY <2>1 DEF FreshSample
    <3>3. s.tokens <= total' /\ (s.tokens < total' => idle' <= s.age + MaxDelay \/ s.age = Window + 1)
      BY <1>2, <1>3, <3>1, <3>2, NumbersOfPages
    <3> QED BY <3>1, <3>3 DEF FreshSample
  <2>2. samples \in Seq(FreshSample)
    BY <1>1 DEF SamplesFresh
  <2>3. samples \in Seq(FreshSample')
    BY <2>1, <2>2
  <2> QED BY <1>2, <2>3 DEF SamplesFresh
<1>7. CacheFresh'
  BY <1>1, <1>2, <1>3, NumbersOfPages DEF CacheFresh
<1>8. PageFresh'
  BY <1>1, <1>2, <1>3, NumbersOfPages DEF PageFresh
<1> QED BY <1>4, <1>5, <1>6, <1>7, <1>8 DEF PageInv

(* A snapshot is taken of the total as it is.                              *)
LEMMA PagesKeptByTakeSnapshot ==
  ASSUME PageInv, LedgerInv, NEW c \in Clients, TakeSnapshot(c)
  PROVE  PageInv'
<1>1. PageType /\ HeldFresh /\ SamplesFresh /\ CacheFresh /\ PageFresh /\ total \in Nat
  BY DEF PageInv, LedgerInv, LedgerType
<1>2. /\ total' = total /\ idle' = idle /\ phase' = phase
      /\ samples' = samples /\ cache' = cache /\ shown' = shown
      /\ held' = [held EXCEPT ![c] = [total |-> total, age |-> 0]]
  BY DEF TakeSnapshot, ledger
<1>3. [total |-> total, age |-> 0] \in HeldType
  BY <1>1, NumbersOfPages DEF HeldType
<1>4. PageType'
  BY <1>1, <1>2, <1>3 DEF PageType
<1>5. HeldFresh'
  <2> SUFFICES ASSUME NEW d \in Clients, held'[d] # None
               PROVE  held'[d].total <= total /\ (held'[d].total < total => idle <= held'[d].age)
    BY <1>2 DEF HeldFresh
  <2>1. CASE d = c
    <3>1. held'[d].total = total
      BY <1>1, <1>2, <2>1 DEF PageType
    <3> QED BY <1>1, <3>1
  <2>2. CASE d # c
    <3>1. held'[d] = held[d]
      BY <1>1, <1>2, <2>2 DEF PageType
    <3> QED BY <1>1, <3>1 DEF HeldFresh
  <2> QED BY <2>1, <2>2
<1>6. SamplesFresh' /\ CacheFresh' /\ PageFresh'
  BY <1>1, <1>2 DEF SamplesFresh, FreshSample, CacheFresh, PageFresh
<1> QED BY <1>4, <1>5, <1>6 DEF PageInv

(* The rate of a page is above 0 only while what it compares with is       *)
(* recent: the sample in the window, the cached rate in its second.        *)
LEMMA PagesKeptByProject ==
  ASSUME PageInv, LedgerInv, NEW c \in Clients, Project(c)
  PROVE  PageInv'
<1> DEFINE new == [age |-> 0, tokens |-> held[c].total]
           all == Append(samples, new)
           kept == Recent(all)
           tps == IF cache.current THEN cache.tps ELSE Rate(kept, held[c].total)
<1>1. PageType /\ HeldFresh /\ SamplesFresh /\ CacheFresh /\ PageFresh /\ total \in Nat
  BY DEF PageInv, LedgerInv, LedgerType
<1>2. /\ held[c] # None /\ samples' = kept
      /\ cache' = [current |-> TRUE, tps |-> tps] /\ shown' = tps
      /\ held' = [held EXCEPT ![c] = None]
      /\ total' = total /\ idle' = idle /\ phase' = phase
  BY DEF Project, ledger
<1>3. /\ held[c].total \in Nat /\ held[c].age \in 0 .. MaxDelay
      /\ held[c].total <= total /\ (held[c].total < total => idle <= held[c].age)
  BY <1>1, <1>2 DEF PageType, HeldType, HeldFresh
<1>4. idle \in Nat /\ phase \in Nat /\ phase <= TicksPerSecond - 1
  BY <1>1, NumbersOfPages DEF PageType
<1>5. new \in FreshSample /\ new.age = 0
  <2>1. new.age = 0 /\ new.tokens = held[c].total /\ new \in Sample
    BY <1>3, NumbersOfPages DEF Sample
  <2> HIDE DEF new
  <2>2. new.tokens <= total /\ (new.tokens < total => idle <= new.age + MaxDelay)
    BY <1>3, <1>4, <2>1, NumbersOfPages
  <2> QED BY <2>1, <2>2 DEF FreshSample
<1> HIDE DEF new
<1>6. /\ all \in Seq(FreshSample) /\ all # <<>> /\ all[Len(all)] = new
  BY <1>1, <1>5, AppendProperties DEF SamplesFresh
<1> HIDE DEF all
<1>7. kept \in Seq({s \in FreshSample : s.age <= Window}) /\ kept # <<>>
  <2>1. all[Len(all)].age <= Window
    BY <1>5, <1>6, NumbersOfPages
  <2> QED BY <1>6, <2>1, RecentKeeps, Zenon
<1> HIDE DEF kept
<1>8. /\ kept \in Seq(FreshSample) /\ kept \in Seq(Sample)
      /\ Head(kept) \in FreshSample /\ Head(kept).age <= Window
  <2>1. Head(kept) \in {s \in FreshSample : s.age <= Window}
    BY <1>7
  <2>2. FreshSample \subseteq Sample /\ {s \in FreshSample : s.age <= Window} \subseteq FreshSample
    BY DEF FreshSample
  <2> HIDE DEF FreshSample
  <2> QED BY <1>7, <2>1, <2>2
<1>9. Rate(kept, held[c].total) \in Int /\ (Rate(kept, held[c].total) > 0 => idle <= Window + MaxDelay)
  <2>1. /\ Rate(kept, held[c].total) \in Int
        /\ Rate(kept, held[c].total) > 0 => Head(kept).tokens < held[c].total
    BY <1>3, <1>7, <1>8, RateShowsGrowth
  <2>2. /\ Head(kept).age \in Nat /\ Head(kept).tokens \in Nat
        /\ (Head(kept).tokens < total =>
              idle <= Head(kept).age + MaxDelay \/ Head(kept).age = Window + 1)
    BY <1>8, NumbersOfPages DEF FreshSample, Sample
  <2>3. Head(kept).tokens < held[c].total => idle <= Window + MaxDelay
    <3> SUFFICES ASSUME Head(kept).tokens < held[c].total PROVE idle <= Window + MaxDelay
      OBVIOUS
    <3> DEFINE age == Head(kept).age
               tokens == Head(kept).tokens
               seen == held[c].total
    <3>1. age \in Nat /\ age <= Window /\ tokens \in Nat /\ seen \in Nat
      BY <1>3, <1>8, <2>2
    <3>2. tokens < seen /\ seen <= total
          /\ (tokens < total => idle <= age + MaxDelay \/ age = Window + 1)
      BY <1>3, <2>2
    <3> HIDE DEF age, tokens, seen
    <3> QED BY <1>1, <1>4, <3>1, <3>2, NumbersOfPages
  <2> QED BY <2>1, <2>3
<1>10. tps \in Int /\ (tps > 0 => idle <= Window + MaxDelay + phase)
  <2>1. CASE cache.current
    BY <1>1, <2>1 DEF PageType, CacheFresh
  <2>2. CASE ~cache.current
    <3>1. tps = Rate(kept, held[c].total)
      BY <2>2
    <3> HIDE DEF tps
    <3> QED BY <1>4, <1>9, <3>1, NumbersOfPages
  <2> QED BY <2>1, <2>2
<1> HIDE DEF tps
<1>11. PageType'
  BY <1>1, <1>2, <1>10 DEF PageType, HeldType
<1>12. HeldFresh'
  <2> SUFFICES ASSUME NEW d \in Clients, held'[d] # None
               PROVE  held'[d].total <= total /\ (held'[d].total < total => idle <= held'[d].age)
    BY <1>2 DEF HeldFresh
  <2>1. d # c /\ held'[d] = held[d]
    BY <1>1, <1>2 DEF PageType
  <2> QED BY <1>1, <2>1 DEF HeldFresh
<1>13. SamplesFresh'
  BY <1>2, <1>8 DEF SamplesFresh, FreshSample
<1>14. CacheFresh'
  BY <1>2, <1>10 DEF CacheFresh
<1>15. PageFresh'
  BY <1>2, <1>4, <1>10, NumbersOfPages DEF PageFresh
<1> QED BY <1>11, <1>12, <1>13, <1>14, <1>15 DEF PageInv

(* In a tick everything ages alike, and a new second forgets its rate.     *)
LEMMA PagesKeptByTick ==
  ASSUME PageInv, LedgerInv, Tick
  PROVE  PageInv'
<1>1. PageType /\ HeldFresh /\ SamplesFresh /\ CacheFresh /\ PageFresh /\ total \in Nat
  BY DEF PageInv, LedgerInv, LedgerType
<1>2. /\ \A c \in Clients : held[c].age < MaxDelay
      /\ held' = [c \in Clients |-> IF held[c] = None THEN None ELSE [held[c] EXCEPT !.age = @ + 1]]
      /\ idle' = Older(idle, Lull + 1)
      /\ samples' = [i \in DOMAIN samples |->
                       [samples[i] EXCEPT !.age = Older(@, Window + 1)]]
      /\ phase' = (phase + 1) % TicksPerSecond
      /\ cache' = [cache EXCEPT !.current = @ /\ phase' # 0]
      /\ shown' = -1 /\ total' = total
  BY DEF Tick
<1>3. idle \in Nat /\ idle <= Lull + 1 /\ phase \in Nat /\ phase <= TicksPerSecond - 1
  BY <1>1, NumbersOfPages DEF PageType
<1>4. idle' \in Nat /\ idle' <= idle + 1 /\ idle' <= Lull + 1
  BY <1>2, <1>3, NumbersOfPages DEF Older
<1>5. phase' \in 0 .. TicksPerSecond - 1 /\ (phase' # 0 => phase' = phase + 1)
  <2>1. CASE phase = TicksPerSecond - 1
    <3>1. phase + 1 = TicksPerSecond
      BY <1>3, <2>1, NumbersOfPages
    <3>2. TicksPerSecond % TicksPerSecond = 0
      BY NumbersOfPages
    <3> QED BY <1>2, <3>1, <3>2, NumbersOfPages
  <2>2. CASE phase < TicksPerSecond - 1
    <3>1. (phase + 1) % TicksPerSecond = phase + 1
      BY <1>3, <2>2, NumbersOfPages
    <3> QED BY <1>2, <1>3, <2>2, <3>1, NumbersOfPages
  <2> QED BY <1>3, <2>1, <2>2, NumbersOfPages
<1>6. HeldFresh' /\ held' \in [Clients -> HeldType]
  <2> SUFFICES ASSUME NEW c \in Clients
               PROVE  /\ held'[c] \in HeldType
                      /\ held'[c] # None =>
                           held'[c].total <= total /\ (held'[c].total < total => idle' <= held'[c].age)
    BY <1>2 DEF HeldFresh
  <2>1. CASE held[c] = None
    <3>1. held'[c] = None
      BY <1>2, <2>1
    <3> QED BY <3>1 DEF HeldType
  <2>2. CASE held[c] # None
    <3>1. held[c] \in [total : Nat, age : 0 .. MaxDelay]
      BY <1>1, <2>2 DEF PageType, HeldType
    <3>2. held'[c] = [held[c] EXCEPT !.age = @ + 1]
      BY <1>2, <2>2
    <3>3. held'[c].total = held[c].total /\ held'[c].age = held[c].age + 1
      BY <3>1, <3>2
    <3>4. held[c].age \in Nat /\ held[c].total \in Nat /\ held[c].age < MaxDelay
      BY <1>2, <3>1, NumbersOfPages
    <3>5. held[c].age + 1 \in 0 .. MaxDelay
      BY <3>4, NumbersOfPages
    <3>6. held'[c] \in HeldType
      BY <3>1, <3>2, <3>5 DEF HeldType
    <3>7. held[c].total <= total /\ (held[c].total < total => idle <= held[c].age)
      BY <1>1, <2>2 DEF HeldFresh
    <3> QED BY <1>3, <1>4, <3>3, <3>4, <3>6, <3>7
  <2> QED BY <2>1, <2>2
<1>7. PageType'
  <2>1. idle' \in 0 .. Lull + 1
    BY <1>4, NumbersOfPages
  <2>2. cache' \in [current : BOOLEAN, tps : Int]
    BY <1>1, <1>2 DEF PageType
  <2>3. shown' \in Int
    BY <1>2
  <2>4. phase' \in 0 .. TicksPerSecond - 1
    BY <1>5
  <2> QED BY <1>6, <2>1, <2>2, <2>3, <2>4 DEF PageType
<1>8. SamplesFresh'
  <2>1. samples \in Seq(FreshSample)
    BY <1>1 DEF SamplesFresh
  <2> DEFINE aged(s) == [s EXCEPT !.age = Older(@, Window + 1)]
  <2>2. ASSUME NEW s \in FreshSample PROVE aged(s) \in FreshSample'
    <3>1. s.age \in Nat /\ s.age <= Window + 1 /\ s.tokens \in Nat /\ s \in Sample
      BY <2>2, NumbersOfPages DEF FreshSample, Sample
    <3>2. s.tokens <= total /\ (s.tokens < total => idle <= s.age + MaxDelay \/ s.age = Window + 1)
      BY <2>2 DEF FreshSample
    <3>3. aged(s).age = Older(s.age, Window + 1) /\ aged(s).tokens = s.tokens
      BY <3>1 DEF Sample
    <3>4. Older(s.age, Window + 1) = IF s.age < Window + 1 THEN s.age + 1 ELSE Window + 1
      BY DEF Older
    <3>5. Older(s.age, Window + 1) \in 0 .. Window + 1
      BY <3>1, <3>4, NumbersOfPages
    <3>6. aged(s) \in Sample
      BY <3>1, <3>5 DEF Sample
    <3> HIDE DEF aged
    <3>7. aged(s).tokens <= total' /\ (aged(s).tokens < total' =>
             idle' <= aged(s).age + MaxDelay \/ aged(s).age = Window + 1)
      BY <1>2, <1>3, <1>4, <3>1, <3>2, <3>3, <3>4, NumbersOfPages
    <3> QED BY <3>6, <3>7 DEF FreshSample
  <2>3. samples' = [i \in DOMAIN samples |-> aged(samples[i])]
    BY <1>2
  <2> HIDE DEF aged
  <2>4. Len(samples) \in Nat /\ DOMAIN samples = 1 .. Len(samples)
        /\ \A i \in DOMAIN samples : samples[i] \in FreshSample
    BY <2>1
  <2>5. \A i \in 1 .. Len(samples) : aged(samples[i]) \in FreshSample'
    BY <2>2, <2>4
  <2>6. [i \in 1 .. Len(samples) |-> aged(samples[i])] \in Seq(FreshSample')
    <3> DEFINE F == FreshSample'
    <3>1. \A i \in 1 .. Len(samples) : aged(samples[i]) \in F
      BY <2>5
    <3> HIDE DEF F
    <3>2. [i \in 1 .. Len(samples) |-> aged(samples[i])] \in Seq(F)
      BY <2>4, <3>1
    <3> QED BY <3>2 DEF F
  <2> QED BY <2>3, <2>4, <2>6 DEF SamplesFresh
<1>9. CacheFresh'
  <2>1. cache'.current = (cache.current /\ phase' # 0) /\ cache'.tps = cache.tps
    BY <1>1, <1>2 DEF PageType
  <2> SUFFICES ASSUME cache.current, phase' # 0, cache.tps > 0
               PROVE  idle' <= Window + MaxDelay + phase'
    BY <2>1 DEF CacheFresh
  <2>2. idle <= Window + MaxDelay + phase
    BY <1>1 DEF CacheFresh
  <2> QED BY <1>3, <1>4, <1>5, <2>2, NumbersOfPages
<1>10. PageFresh'
  BY <1>2 DEF PageFresh
<1> QED BY <1>6, <1>7, <1>8, <1>9, <1>10 DEF PageInv

(* When no tokens have come in for the window, the delay of a snapshot and *)
(* the second a rate is reused, pages show a rate of 0 (handler.view,      *)
(* Projector.throughput).                                                  *)
THEOREM IdlePagesShowZero == Spec => []IdleShowsZero
<1>1. Init => LedgerInv /\ PageInv
  BY LedgerStarts, PagesStart
<1>2. ASSUME LedgerInv, PageInv, [Next]_vars PROVE PageInv'
  <2>1. CASE Dispatch \/ EntryGoes \/ TurnCompleted \/ (\E r \in Runs : Apply(r)) \/ UNCHANGED vars
    BY <1>2, <2>1, LedgerStepMoves, PagesKeptByLedger
  <2>2. CASE Tick
    BY <1>2, <2>2, PagesKeptByTick
  <2>3. CASE \E c \in Clients : TakeSnapshot(c) \/ Project(c)
    BY <1>2, <2>3, PagesKeptByTakeSnapshot, PagesKeptByProject
  <2> QED BY <1>2, <2>1, <2>2, <2>3 DEF Next
<1>3. LedgerInv /\ PageInv /\ [Next]_vars => (LedgerInv /\ PageInv)'
  BY <1>2, LedgerKept
<1>4. PageInv => IdleShowsZero
  BY NumbersOfPages DEF PageInv, PageType, PageFresh, IdleShowsZero
<1> QED BY <1>1, <1>3, <1>4, PTL DEF Spec
=============================================================================
