---------------------------- MODULE FoldTheorems ----------------------------
(***************************************************************************)
(* Folds of sequences, step by step.  The loops of the code that walk over *)
(* a list are folds in the model; a proof about one instantiates this      *)
(* module with the step of the loop and with its invariant.                *)
(***************************************************************************)
EXTENDS Integers, WellFoundedInduction, TLAPS

CONSTANTS
  Op(_, _, _),     (* one step of the fold: environment, state and element    *)
  Inv(_, _, _)     (* what holds, in an environment, after k steps of a state *)

(* Every set of natural numbers but the empty one has a least element.     *)
LEMMA LeastNatural ==
  ASSUME NEW T \in SUBSET Nat, T # {}
  PROVE  \E m \in T : \A k \in T : m <= k
<1>1. IsWellFoundedOn(OpToRel(<,Nat), Nat)
  BY NatLessThanWellFounded
<1>2. PICK x \in T : \A y \in T : ~(<<y, x>> \in OpToRel(<,Nat))
  BY <1>1, WFMin
<1>3. \A y \in T : ~(y < x)
  BY <1>2 DEF OpToRel
<1>4. QED
  BY <1>3

(* Induction up to n, over a set instead of a predicate.                   *)
LEMMA UpToInduction ==
  ASSUME NEW n \in Nat, NEW T, 0 \in T, \A k \in 0..(n - 1) : k \in T => k + 1 \in T
  PROVE  \A k \in 0..n : k \in T
<1>1. SUFFICES ASSUME {k \in 0..n : k \notin T} # {} PROVE FALSE
  OBVIOUS
<1>2. PICK m \in {k \in 0..n : k \notin T} : \A k \in {j \in 0..n : j \notin T} : m <= k
  <2>1. {k \in 0..n : k \notin T} \in SUBSET Nat
    OBVIOUS
  <2>2. QED
    BY <1>1, <2>1, LeastNatural
<1>3. m # 0
  BY <1>2
<1>4. m - 1 \in 0..(n - 1) /\ m - 1 \in T
  BY <1>2, <1>3
<1>5. QED
  BY <1>2, <1>4

(* The greatest element of a set, as FiniteSetsExt has it.                *)
Max(s) == CHOOSE x \in s : \A y \in s : x >= y

(* FoldLeft(LAMBDA st, e : Op(env, st, e), base, seq) as SequencesExt      *)
(* defines it: a recursive function on the sets of positions, from which   *)
(* the greatest is taken at a time.                                        *)
Folded(env, base, seq) ==
  LET iter[s \in SUBSET DOMAIN seq] ==
        IF s = {} THEN base ELSE Op(env, iter[s \ {Max(s)}], seq[Max(s)])
  IN  iter[DOMAIN seq]

(* h satisfies the equation of that recursive function.                    *)
IsFold(env, h, base, seq, n) ==
  h = [s \in SUBSET (1..n) |->
         IF s = {} THEN base ELSE Op(env, h[s \ {Max(s)}], seq[Max(s)])]

(* The position that is taken first.                                       *)
LEMMA MaxAtEnd ==
  ASSUME NEW n \in Nat, NEW s \in SUBSET (1..(n + 1)), n + 1 \in s
  PROVE  Max(s) = n + 1
<1>1. \A y \in s : n + 1 >= y
  OBVIOUS
<1>2. \A x \in s : (\A y \in s : x >= y) => x = n + 1
  OBVIOUS
<1>3. QED
  BY <1>1, <1>2 DEF Max

(* The equation has a solution, so the function is what it says.           *)
LEMMA FoldExists ==
  ASSUME NEW env, NEW base, NEW seq, NEW n \in Nat
  PROVE  \E h : IsFold(env, h, base, seq, n)
<1> DEFINE T == {k \in Nat : \E h : IsFold(env, h, base, seq, k)}
<1>1. 0 \in T
  <2> DEFINE h == [s \in SUBSET (1..0) |-> base]
  <2>1. 1..0 = {}
    OBVIOUS
  <2>2. IsFold(env, h, base, seq, 0)
    BY <2>1 DEF IsFold
  <2>3. QED
    BY <2>2
<1>2. ASSUME NEW k \in 0..(n - 1), k \in T PROVE k + 1 \in T
  <2>1. PICK g : IsFold(env, g, base, seq, k)
    BY <1>2
  <2> DEFINE h == [s \in SUBSET (1..(k + 1)) |->
                     IF k + 1 \in s THEN Op(env, g[s \ {k + 1}], seq[k + 1]) ELSE g[s]]
  <2>2. ASSUME NEW s \in SUBSET (1..(k + 1))
        PROVE  h[s] = IF s = {} THEN base ELSE Op(env, h[s \ {Max(s)}], seq[Max(s)])
    <3>1. CASE k + 1 \in s
      <4>1. Max(s) = k + 1
        BY <3>1, MaxAtEnd
      <4>2. s \ {k + 1} \in SUBSET (1..(k + 1)) /\ k + 1 \notin s \ {k + 1}
        OBVIOUS
      <4>3. h[s \ {k + 1}] = g[s \ {k + 1}]
        BY <4>2
      <4>4. h[s] = Op(env, g[s \ {k + 1}], seq[k + 1])
        BY <3>1
      <4>5. QED
        BY <3>1, <4>1, <4>3, <4>4
    <3>2. CASE k + 1 \notin s
      <4>1. s \in SUBSET (1..k) /\ h[s] = g[s]
        BY <3>2
      <4>2. CASE s = {}
        BY <2>1, <4>1, <4>2 DEF IsFold
      <4>3. CASE s # {}
        <5>1. g[s] = Op(env, g[s \ {Max(s)}], seq[Max(s)])
          BY <2>1, <4>1, <4>3 DEF IsFold
        <5>2. s \ {Max(s)} \in SUBSET (1..(k + 1)) /\ k + 1 \notin s \ {Max(s)}
          BY <3>2
        <5>3. h[s \ {Max(s)}] = g[s \ {Max(s)}]
          BY <5>2
        <5>4. QED
          BY <4>1, <4>3, <5>1, <5>3
      <4>4. QED
        BY <4>2, <4>3
    <3>3. QED
      BY <3>1, <3>2
  <2>3. IsFold(env, h, base, seq, k + 1)
    BY <2>2 DEF IsFold
  <2>4. QED
    BY <2>3
<1>3. n \in T
  <2> HIDE DEF T
  <2>1. \A k \in 0..n : k \in T
    BY <1>1, <1>2, UpToInduction
  <2>2. QED
    BY <2>1
<1>4. QED
  BY <1>3

(* acc[k] is the state after the first k elements.                         *)
IsAccumulated(env, acc, base, seq, n) ==
  acc = [k \in 0..n |-> IF k = 0 THEN base ELSE Op(env, acc[k - 1], seq[k])]

(* A fold is reached step by step, from the first element to the last, as  *)
(* the loop that it models runs.                                           *)
LEMMA FoldLeftSteps ==
  ASSUME NEW env, NEW base, NEW seq, NEW n \in Nat, DOMAIN seq = 1..n
  PROVE  \E acc : IsAccumulated(env, acc, base, seq, n) /\ Folded(env, base, seq) = acc[n]
<1> DEFINE h == CHOOSE h : IsFold(env, h, base, seq, n)
           acc == [k \in 0..n |-> h[1..k]]
<1>1. IsFold(env, h, base, seq, n)
  BY FoldExists
<1>2. Folded(env, base, seq) = h[1..n]
  BY DEF Folded, IsFold
<1> HIDE DEF h
<1>3. ASSUME NEW k \in 0..n
      PROVE  acc[k] = IF k = 0 THEN base ELSE Op(env, acc[k - 1], seq[k])
  <2>1. CASE k = 0
    <3>1. 1..k = {}
      BY <2>1
    <3>2. QED
      BY <1>1, <2>1, <3>1 DEF IsFold
  <2>2. CASE k # 0
    <3>1. k - 1 \in 0..n /\ 1..k # {} /\ 1..k \in SUBSET (1..n)
      BY <2>2
    <3>2. Max(1..k) = k
      <4>1. k - 1 \in Nat /\ k - 1 + 1 = k
        BY <2>2
      <4>2. 1..k \in SUBSET (1..(k - 1 + 1)) /\ k - 1 + 1 \in 1..k
        BY <2>2, <4>1
      <4>3. Max(1..k) = k - 1 + 1
        BY <4>1, <4>2, MaxAtEnd
      <4>4. QED
        BY <4>1, <4>3
    <3>3. (1..k) \ {k} = 1..(k - 1)
      BY <2>2
    <3>4. QED
      BY <1>1, <2>2, <3>1, <3>2, <3>3 DEF IsFold
  <2>3. QED
    BY <2>1, <2>2
<1>4. acc = [k \in 0..n |-> IF k = 0 THEN base ELSE Op(env, acc[k - 1], seq[k])]
  BY <1>3
<1>5. acc[n] = h[1..n]
  OBVIOUS
<1>6. IsAccumulated(env, acc, base, seq, n) /\ Folded(env, base, seq) = acc[n]
  BY <1>2, <1>4, <1>5 DEF IsAccumulated
<1>7. QED
  BY <1>6

(* What holds of the state a fold starts from, and is kept by every step,  *)
(* holds of the result: the invariant of a loop.                           *)
LEMMA FoldLeftInvariant ==
  ASSUME NEW env, NEW base, NEW seq, NEW n \in Nat, DOMAIN seq = 1..n,
         Inv(env, 0, base),
         \A k \in 1..n : \A st : Inv(env, k - 1, st) => Inv(env, k, Op(env, st, seq[k]))
  PROVE  Inv(env, n, Folded(env, base, seq))
<1>1. PICK acc : IsAccumulated(env, acc, base, seq, n) /\ Folded(env, base, seq) = acc[n]
  BY FoldLeftSteps
<1>a. /\ acc[0] = base
      /\ \A k \in 1..n : acc[k] = Op(env, acc[k - 1], seq[k])
  BY <1>1 DEF IsAccumulated
<1> DEFINE T == {k \in 0..n : Inv(env, k, acc[k])}
<1>2. 0 \in T
  BY <1>a
<1>3. ASSUME NEW k \in 0..(n - 1), k \in T PROVE k + 1 \in T
  <2>1. k + 1 \in 1..n /\ k + 1 - 1 = k /\ Inv(env, k, acc[k])
    BY <1>3
  <2>2. acc[k + 1] = Op(env, acc[k], seq[k + 1])
    BY <1>a, <2>1
  <2>3. QED
    BY <2>1, <2>2
<1>4. n \in T
  <2> HIDE DEF T
  <2>1. \A k \in 0..n : k \in T
    BY <1>2, <1>3, UpToInduction
  <2>2. QED
    BY <2>1
<1>5. QED
  BY <1>1, <1>4
=============================================================================
