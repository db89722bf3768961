----------------------------- MODULE LoopTheorems -----------------------------
(***************************************************************************)
(* What the proofs of several modules need of the natural numbers:         *)
(* induction, stated for a set of numbers, and that a loop which computes  *)
(* each value from the one before defines a function.                      *)
(***************************************************************************)
EXTENDS Integers, Sequences, SequenceTheorems, WellFoundedInduction, TLAPS

(* A nonempty set of naturals has a least element.                         *)
LEMMA LeastNatural ==
  ASSUME NEW T \in SUBSET Nat, T # {}
  PROVE  \E x \in T : \A y \in T : x <= y
<1>1. PICK x \in T : \A y \in T : ~ (<<y, x>> \in OpToRel(<, Nat))
  BY NatLessThanWellFounded, WFMin
<1>2. \A y \in T : ~ (y < x)
  BY <1>1 DEF OpToRel
<1> QED BY <1>2

(* Induction over a set of numbers.                                        *)
LEMMA AllNaturals ==
  ASSUME NEW T \in SUBSET Nat, 0 \in T, \A n \in T : n + 1 \in T
  PROVE  T = Nat
<1> SUFFICES ASSUME Nat \ T # {} PROVE FALSE
  OBVIOUS
<1>1. PICK x \in Nat \ T : \A y \in Nat \ T : ~ (<<y, x>> \in OpToRel(<, Nat))
  BY NatLessThanWellFounded, WFMin
<1>2. \A y \in Nat \ T : ~ (y < x)
  BY <1>1 DEF OpToRel
<1>3. x # 0 /\ x - 1 \in Nat /\ x - 1 < x
  OBVIOUS
<1>4. x - 1 \in T
  BY <1>2, <1>3
<1> QED BY <1>3, <1>4

(* A function may be defined by steps along 0 .. N.                        *)
Steps(N, S) == [(1 .. N) \X S -> S]
Follows(f, N, S, base, step) ==
  /\ f \in [0 .. N -> S]
  /\ f[0] = base
  /\ \A i \in 1 .. N : f[i] = step[<<i, f[i - 1]>>]

LEMMA StepsDefine ==
  ASSUME NEW N \in Nat, NEW S, NEW base \in S, NEW step \in Steps(N, S)
  PROVE  \E f : Follows(f, N, S, base, step)
<1> USE DEF Steps
<1> DEFINE Good(n, f) == f[0] = base /\ \A i \in 1 .. n : f[i] = step[<<i, f[i - 1]>>]
           T == {n \in Nat : n <= N => \E f \in [0 .. n -> S] : Good(n, f)}
<1>1. 0 \in T
  <2>1. [i \in 0 .. 0 |-> base] \in [0 .. 0 -> S] /\ Good(0, [i \in 0 .. 0 |-> base])
    OBVIOUS
  <2> QED BY <2>1
<1>2. ASSUME NEW n \in T PROVE n + 1 \in T
  <2> SUFFICES ASSUME n + 1 <= N
               PROVE  \E f \in [0 .. n + 1 -> S] : Good(n + 1, f)
    OBVIOUS
  <2>1. PICK f \in [0 .. n -> S] : Good(n, f)
    OBVIOUS
  <2> DEFINE g == [i \in 0 .. n + 1 |-> IF i <= n THEN f[i] ELSE step[<<n + 1, f[n]>>]]
  <2>2. f[n] \in S /\ step[<<n + 1, f[n]>>] \in S
    OBVIOUS
  <2>3. g \in [0 .. n + 1 -> S]
    BY <2>2
  <2>4. g[0] = base
    BY <2>1
  <2>5. ASSUME NEW i \in 1 .. n + 1 PROVE g[i] = step[<<i, g[i - 1]>>]
    <3>1. CASE i <= n
      <4>1. i \in 1 .. n /\ i - 1 \in 0 .. n /\ i - 1 <= n /\ i \in 0 .. n + 1 /\ i - 1 \in 0 .. n + 1
        BY <3>1
      <4> QED BY <2>1, <3>1, <4>1
    <3>2. CASE i = n + 1
      <4>1. i - 1 = n /\ n \in 0 .. n + 1 /\ i \in 0 .. n + 1 /\ ~(i <= n)
        BY <3>2
      <4> QED BY <3>2, <4>1
    <3> QED BY <3>1, <3>2
  <2> HIDE DEF g
  <2> QED BY <2>3, <2>4, <2>5
<1> HIDE DEF T
<1>3. N \in T
  <2>1. T \in SUBSET Nat
    BY DEF T
  <2> QED BY <1>1, <1>2, <2>1, AllNaturals
<1> QED BY <1>3 DEF T, Follows

(* What takes the same steps has the same value after them all.            *)
Tracks(g, N, S, base, step) ==
  /\ g[0] = base
  /\ \A i \in 1 .. N : g[i - 1] \in S => g[i] = step[<<i, g[i - 1]>>]

LEMMA StepsAgree ==
  ASSUME NEW N \in Nat, NEW S, NEW base, NEW step, NEW f, NEW g,
         Follows(f, N, S, base, step), Tracks(g, N, S, base, step)
  PROVE  g[N] = f[N] /\ f[N] \in S
<1>1. f[0] = base /\ (\A i \in 1 .. N : f[i] = step[<<i, f[i - 1]>>]) /\ (\A i \in 0 .. N : f[i] \in S)
  BY DEF Follows
<1> USE DEF Tracks
<1> DEFINE T == {i \in Nat : i <= N => g[i] = f[i]}
<1>2. 0 \in T
  BY <1>1
<1>3. ASSUME NEW i \in T PROVE i + 1 \in T
  <2>1. i + 1 <= N => i + 1 \in 1 .. N /\ i + 1 - 1 = i /\ i <= N
    OBVIOUS
  <2> SUFFICES ASSUME i + 1 <= N PROVE g[i + 1] = f[i + 1]
    OBVIOUS
  <2>2. g[i] = f[i] /\ f[i] \in S
    BY <1>1, <2>1
  <2>3. g[i + 1] = step[<<i + 1, g[i]>>] /\ f[i + 1] = step[<<i + 1, f[i]>>]
    BY <1>1, <2>1
  <2> QED BY <2>2, <2>3
<1> HIDE DEF T
<1>4. N \in T
  <2>1. T \in SUBSET Nat
    BY DEF T
  <2> QED BY <1>2, <1>3, <2>1, AllNaturals
<1> QED BY <1>1, <1>4 DEF T

(* Induction over the sequences of a set.                                  *)
LEMMA AllSequences ==
  ASSUME NEW C, NEW T \in SUBSET Seq(C),
         <<>> \in T, \A s \in T, c \in C : Append(s, c) \in T
  PROVE  T = Seq(C)
<1> DEFINE N == {n \in Nat : \A s \in Seq(C) : Len(s) = n => s \in T}
<1>1. 0 \in N
  <2>1. \A s \in Seq(C) : Len(s) = 0 => s = <<>>
    OBVIOUS
  <2> QED BY <2>1
<1>2. ASSUME NEW n \in N PROVE n + 1 \in N
  <2> SUFFICES ASSUME NEW s \in Seq(C), Len(s) = n + 1 PROVE s \in T
    OBVIOUS
  <2>1. n \in Nat /\ \A t \in Seq(C) : Len(t) = n => t \in T
    OBVIOUS
  <2> HIDE DEF N
  <2>2. s # <<>>
    BY <2>1
  <2>3. PICK t \in Seq(C), c \in C : s = Append(t, c)
    BY <2>2, SequenceEmptyOrAppend
  <2>4. Len(t) = n
    BY <2>1, <2>3, AppendProperties
  <2> QED BY <2>1, <2>3, <2>4
<1> HIDE DEF N
<1>3. N = Nat
  <2>1. N \in SUBSET Nat
    BY DEF N
  <2> QED BY <1>1, <1>2, <2>1, AllNaturals
<1>4. ASSUME NEW s \in Seq(C) PROVE s \in T
  <2>1. Len(s) \in N
    BY <1>3
  <2> QED BY <2>1 DEF N
<1> QED BY <1>4
===============================================================================
