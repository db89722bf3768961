--------------------------- MODULE DispatchPolicy ---------------------------
(***************************************************************************)
(* The two pure rules of orchestrator/state.go: the order in which a cycle *)
(* offers candidates (sortCandidates) and the delay before a failed run is *)
(* retried (failureRetryDelay), with durations of Width bits.              *)
(***************************************************************************)
EXTENDS Integers

CONSTANTS Width,        \* bits of a time.Duration, 64 in the code
          Millisecond,  \* of a time.Duration
          BaseDelay,    \* 10 s
          Attempts      \* bound: 1 .. Attempts

NotGiven == 0           \* no priority, no creation time
Never == 9999           \* createdAtKey of an item without a creation time

(* Priorities outside 1 .. 4 rank last. *)
PriorityRank(p) == IF p \in 1 .. 4 THEN p ELSE 5
CreatedAtKey(t) == IF t = NotGiven THEN Never ELSE t

Before(a, b) ==
  LET pa == PriorityRank(a.priority)   ta == CreatedAtKey(a.created)
      pb == PriorityRank(b.priority)   tb == CreatedAtKey(b.created)
  IN  \/ pa < pb
      \/ pa = pb /\ ta < tb
      \/ pa = pb /\ ta = tb /\ a.name < b.name

(* 2^n, by doubling as the code does. *)
TwoTo(n) ==
  LET power[k \in 0 .. n] == IF k = 0 THEN 1 ELSE 2 * power[k - 1]
  IN  power[n]

(* Durations have a sign bit, and doubling the base delay once does not    *)
(* overflow: 10 s are 10^10 of the 2^63 nanoseconds.                       *)
ASSUME PolicyAssumption ==
  /\ Width \in Nat \ {0, 1}
  /\ Millisecond \in Nat \ {0}
  /\ BaseDelay \in Nat \ {0} /\ BaseDelay < TwoTo(Width - 2)
  /\ Attempts \in Nat

Wrap(d) == ((d + TwoTo(Width - 1)) % TwoTo(Width)) - TwoTo(Width - 1)

CapAtEnd(attempt, max) ==    \* altered: the limit is looked at once, after the loop
  LET delay[i \in 0 .. attempt - 1] == IF i = 0 THEN BaseDelay ELSE Wrap(2 * delay[i - 1])
      last == delay[attempt - 1]
  IN  IF max > 0 /\ last > max THEN max ELSE last

(* The loop doubles attempt - 1 times and returns the limit as soon as the *)
(* delay has reached it; a base delay beyond the limit is cut after it.    *)
FailureRetryDelay(attempt, max) ==
  LET delay[i \in 0 .. attempt - 1] == IF i = 0 THEN BaseDelay ELSE Wrap(2 * delay[i - 1])
      last == delay[attempt - 1]
      reached == \E i \in 1 .. attempt - 1 : delay[i] >= max
  IN  IF max > 0 /\ (reached \/ last > max) THEN max ELSE last
=============================================================================
