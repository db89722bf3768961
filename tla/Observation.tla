---------------------------- MODULE Observation ----------------------------
(***************************************************************************)
(* Token totals and the dashboard page: runs of one item report cumulative *)
(* usage, the scheduler adds up the differences (applyAggregateDelta of    *)
(* orchestrator/state.go), and concurrent page requests project snapshots  *)
(* through one Projector (observability/dashboard.go, web/handler.go).     *)
(*                                                                         *)
(* Time is the wall clock in ticks, and what is past is kept by its age.   *)
(* The clock is assumed not to be set back: handler.now drops the          *)
(* monotonic reading, and samples from what is then the future would stay  *)
(* until the clock has passed them.                                        *)
(***************************************************************************)
EXTENDS Integers, FiniteSets, Sequences

CONSTANTS Clients,          \* page requests that may overlap
          TicksPerSecond,
          Window,           \* ticks a sample is kept for; 5 s in the code
          MaxDelay,         \* bound: ticks a request holds a snapshot
          MaxUsage,         \* bound on the usage a turn reports
          MaxTotal,         \* bound on the total: no turn ends beyond it
          MaxRuns,          \* bound on the runs of the item
          MaxSamples        \* bound on the samples kept at a time

ASSUME ObservationAssumption ==
  /\ TicksPerSecond \in Nat \ {0}
  /\ {Window, MaxDelay, MaxUsage, MaxRuns} \subseteq Nat

VARIABLES run,       \* the run the running entry is for; 0: no entry
          started,   \* runs started so far
          last,      \* LastReportedTotals of the entry
          pending,   \* for each run the report that waits for the mutex
          total,     \* codexTotals.TotalTokens
          peak,      \* for each run the most it has reported and got applied
          dipped, strayed,   \* a report was lower than the last; of another run
          idle,      \* ticks since the total grew
          phase,     \* ticks of the current second gone by
          held,      \* for each client the snapshot it has taken
          samples,   \* Projector.samples
          cache,     \* lastTPSValue; whether lastTPSSecond is this second
          shown      \* the rate on a page served in this tick, or -1

ledger == <<run, started, last, pending, total, peak, dipped, strayed, idle>>
pages == <<held, samples, cache, shown>>
vars == <<ledger, phase, pages>>

Runs == 1 .. MaxRuns
None == [total |-> -1, age |-> 0]    \* no snapshot held
NoReport == -1
Larger(a, b) == IF a > b THEN a ELSE b

Init ==
  /\ run = 0 /\ started = 0 /\ last = 0 /\ total = 0
  /\ pending = [r \in Runs |-> NoReport] /\ peak = [r \in Runs |-> 0]
  /\ dipped = FALSE /\ strayed = FALSE
  /\ idle = 0 /\ phase = 0
  /\ held = [c \in Clients |-> None]
  /\ samples = <<>> /\ cache = [current |-> FALSE, tps |-> 0]
  /\ shown = -1
-----------------------------------------------------------------------------
(* The ledger. *)


(* dispatchItem: a fresh entry, with nothing reported. *)
Dispatch ==
  /\ run = 0 /\ started < MaxRuns
  /\ started' = started + 1
  /\ run' = started + 1 /\ last' = 0
  /\ UNCHANGED <<pending, total, peak, dipped, strayed, idle, phase, pages>>

(* The entry goes when the run ends or is stopped; a stopped worker may    *)
(* still have a report to deliver.                                         *)
EntryGoes ==
  /\ run # 0 /\ run' = 0 /\ last' = 0
  /\ UNCHANGED <<started, pending, total, peak, dipped, strayed, idle, phase, pages>>

(* A turn of the run completes; usage is what the app server says.  A      *)
(* stopped session completes no further turn.                              *)
TurnCompleted ==
  /\ run # 0 /\ pending[run] = NoReport /\ total < MaxTotal
  /\ \E usage \in 1 .. MaxUsage : pending' = [pending EXCEPT ![run] = usage]
  /\ UNCHANGED <<run, started, last, total, peak, dipped, strayed, idle, phase, pages>>

DeltaSigned(usage) == usage - last  \* altered: without max(0, ...)

Delta(usage) == Larger(0, usage - last)

(* applyRunEvent: the entry is found by the item, whichever run reports. *)
Apply(r) ==
  /\ pending[r] # NoReport
  /\ pending' = [pending EXCEPT ![r] = NoReport]
  /\ IF run = 0
     THEN UNCHANGED <<last, total, peak, dipped, strayed, idle>>
     ELSE /\ total' = total + Delta(pending[r])
          /\ last' = pending[r]
          /\ peak' = [peak EXCEPT ![r] = Larger(@, pending[r])]
          /\ dipped' = (dipped \/ pending[r] < last)
          /\ strayed' = (strayed \/ r # run)
          /\ idle' = IF Delta(pending[r]) > 0 THEN 0 ELSE idle
  /\ UNCHANGED <<run, started, phase, pages>>
-----------------------------------------------------------------------------
(* The pages. *)

KeepAll(all) == all    \* altered: no cutoff

Recent(all) ==
  LET keep[n \in 0 .. Len(all)] ==
        IF n = 0 THEN <<>>
        ELSE IF all[n].age <= Window THEN Append(keep[n - 1], all[n]) ELSE keep[n - 1]
  IN  keep[Len(all)]

(* handler.view takes the snapshot before it has h.mu; the bound leaves    *)
(* room for the samples of the requests under way.                         *)
TakeSnapshot(c) ==
  /\ held[c] = None
  /\ Len(Recent(samples)) + Cardinality({d \in Clients : held[d] # None}) < MaxSamples
  /\ held' = [held EXCEPT ![c] = [total |-> total, age |-> 0]]
  /\ UNCHANGED <<ledger, phase, samples, cache, shown>>

Rate(kept, tokens) ==
  LET first == Head(kept)
  IN  IF first.age = 0 THEN 0
      ELSE (Larger(0, tokens - first.tokens) * TicksPerSecond) \div first.age

(* Projector.throughput: a sample for every page, a rate once a second.    *)
(* The sample of this page is among those kept: its rate alone is 0.       *)
Project(c) ==
  LET kept == Recent(Append(samples, [age |-> 0, tokens |-> held[c].total]))
      tps == IF cache.current THEN cache.tps ELSE Rate(kept, held[c].total)
  IN  /\ held[c] # None
      /\ samples' = kept
      /\ cache' = [current |-> TRUE, tps |-> tps]
      /\ shown' = tps
      /\ held' = [held EXCEPT ![c] = None]
      /\ UNCHANGED <<ledger, phase>>

Lull == Window + MaxDelay + TicksPerSecond - 1

(* Ages stop at the value from which on they make no difference. *)
Older(age, most) == IF age < most THEN age + 1 ELSE most

Tick ==
  /\ \A c \in Clients : held[c].age < MaxDelay
  /\ held' = [c \in Clients |-> IF held[c] = None THEN None ELSE [held[c] EXCEPT !.age = @ + 1]]
  /\ idle' = Older(idle, Lull + 1)
  /\ samples' = [i \in DOMAIN samples |-> [samples[i] EXCEPT !.age = Older(@, Window + 1)]]
  /\ phase' = (phase + 1) % TicksPerSecond
  /\ cache' = [cache EXCEPT !.current = @ /\ phase' # 0]
  /\ shown' = -1
  /\ UNCHANGED <<run, started, last, pending, total, peak, dipped, strayed>>

Next == \/ Dispatch \/ EntryGoes \/ TurnCompleted \/ Tick
        \/ \E r \in Runs : Apply(r)
        \/ \E c \in Clients : TakeSnapshot(c) \/ Project(c)

Spec == Init /\ [][Next]_vars
-----------------------------------------------------------------------------
(* What all runs together have reported. *)
Sum(p) ==
  LET upTo[r \in 0 .. MaxRuns] == IF r = 0 THEN 0 ELSE upTo[r - 1] + p[r]
  IN  upTo[MaxRuns]

(* The total is what the runs have reported, each run counted once, as     *)
(* long as usage does not go down within a run and no report reaches the   *)
(* entry of a later run; a usage that goes down is never taken off the     *)
(* total (applyAggregateDelta).                                            *)
TotalsMatchReports ==
  ~strayed => IF dipped THEN total >= Sum(peak) ELSE total = Sum(peak)

(* When no tokens have come in for the window, the time a request may hold *)
(* its snapshot and the second a rate is reused, pages show a rate of 0:   *)
(* a snapshot projected late can bring back old growth, but not for longer *)
(* (handler.view, Projector.throughput).  It takes a wall clock that is    *)
(* not set back.                                                           *)
IdleShowsZero == idle > Lull => shown <= 0
=============================================================================
