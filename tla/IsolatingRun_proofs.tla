------------------------- MODULE IsolatingRun_proofs -------------------------
(***************************************************************************)
(* Proofs about IsolatingRun, for every input and every limit of open      *)
(* pairs.  The first invariant, IInv, says what the walks rely on: the     *)
(* links go up through links of the sequence, each rule leaves the types   *)
(* that the next one expects, and the counters of the bracket queue agree  *)
(* with its elements.  The second, KInv, is about what the walks must      *)
(* leave behind: merges spare the links that level runs begin with, so     *)
(* that AttachOriginalLinks can tie the chain of the paragraph together    *)
(* again.                                                                  *)
(***************************************************************************)
EXTENDS IsolatingRun, FiniteSetTheorems, SequenceTheorems, TLAPS

(* Induction over numbers.                                                 *)
Numbers == INSTANCE FoldTheorems WITH Op <- LAMBDA env, st, e : st, Inv <- LAMBDA env, k, st : TRUE

-----------------------------------------------------------------------------
(* Positions.                                                              *)

(* What is there to find at the ends of a set of positions.                *)
LEMMA MinIs ==
  ASSUME NEW S \in SUBSET Nat, S # {}
  PROVE  Min(S) \in S /\ \A k \in S : Min(S) <= k
<1>1. PICK m \in S : \A k \in S : m <= k
  BY Numbers!LeastNatural
<1>2. QED
  BY <1>1 DEF Min

(* The last of a bounded set of positions.                                 *)
LEMMA MaxIs ==
  ASSUME NEW n \in Nat, NEW S \in SUBSET (0..n), S # {}
  PROVE  Max(S) \in S /\ \A k \in S : k <= Max(S)
<1> DEFINE T == {n - k : k \in S}
<1>1. T \in SUBSET Nat /\ T # {}
  OBVIOUS
<1>2. PICK m \in T : \A k \in T : m <= k
  BY <1>1, Numbers!LeastNatural
<1>3. PICK x \in S : m = n - x
  BY <1>2
<1>4. \A k \in S : k <= x
  <2>1. ASSUME NEW k \in S PROVE k <= x
    <3>1. n - k \in T
      OBVIOUS
    <3>2. n - x <= n - k
      BY <1>2, <1>3, <3>1
    <3>3. k \in 0..n /\ x \in 0..n
      OBVIOUS
    <3>4. QED
      BY <3>2, <3>3
  <2>2. QED
    BY <2>1
<1>5. \A y \in S : x >= y
  BY <1>4
<1>6. QED
  BY <1>4, <1>5 DEF Max

(* m is the first of S behind l, or 0 if there is none.                    *)
IsNext(S, l, m) ==
  \/ m = 0 /\ \A k \in S : k <= l
  \/ m \in S /\ l < m /\ \A k \in S : l < k => m <= k

(* What NextIn finds.                                                      *)
LEMMA NextInIs ==
  ASSUME NEW S \in SUBSET Nat, NEW l \in Nat
  PROVE  IsNext(S, l, NextIn(S, l))
<1> DEFINE after == {m \in S : m > l}
<1>1. CASE after = {}
  BY <1>1 DEF NextIn, IsNext
<1>2. CASE after # {}
  <2>1. after \in SUBSET Nat
    OBVIOUS
  <2>2. PICK m \in Nat : m = Min(after) /\ m \in after /\ \A k \in after : m <= k
    BY <1>2, <2>1, MinIs
  <2>3. NextIn(S, l) = m
    BY <1>2, <2>2 DEF NextIn
  <2>4. QED
    BY <2>2, <2>3 DEF IsNext
<1>3. QED
  BY <1>1, <1>2

(* There is only one.                                                      *)
LEMMA NextIsUnique ==
  ASSUME NEW S \in SUBSET Nat, 0 \notin S, NEW l \in Nat, NEW m, NEW n,
         IsNext(S, l, m), IsNext(S, l, n)
  PROVE  m = n
<1>1. CASE m = 0 /\ n \in S
  BY <1>1 DEF IsNext
<1>2. CASE m \in S /\ n = 0
  BY <1>2 DEF IsNext
<1>3. CASE m \in S /\ n \in S
  BY <1>3 DEF IsNext
<1>4. QED
  BY <1>1, <1>2, <1>3 DEF IsNext

(* What Before finds: the last position before one, or 0.                  *)
LEMMA BeforeIs ==
  ASSUME NEW n \in Nat, NEW S \in SUBSET (1..n), NEW l \in Nat
  PROVE  LET b == Before(S, l) IN
         /\ (b \in S /\ b < l) \/ b = 0
         /\ \A k \in S : k < l => k <= b
<1> DEFINE T == {0} \cup {j \in S : j < l}
<1>1. T \in SUBSET (0..n) /\ T # {}
  <2>1. 0 \in 0..n /\ \A j \in S : j \in 0..n
    OBVIOUS
  <2>2. QED
    BY <2>1
<1>2. Max(T) \in T /\ \A k \in T : k <= Max(T)
  BY <1>1, MaxIs
<1>3. QED
  BY <1>2 DEF Before

-----------------------------------------------------------------------------
(* The chain of links.                                                     *)

(* The links lk go through S, from 0 and in order.                         *)
Spans(lk, S) == \A l \in S \cup {0} : IsNext(S, l, lk[l])

Ascends(lk, past) == lk \in [0..past -> 0..past] /\ \A l \in 0..past : lk[l] = 0 \/ l < lk[l]

(* Chain, as a function of the links.                                      *)
Reached(lk, past) ==
  LET from[l \in 0..past] == IF l = 0 THEN {} ELSE {l} \cup from[lk[l]]
  IN  from[lk[0]]

(* Chain depends on the links alone.                                       *)
LEMMA ChainIsReached == Chain = Reached(links, Past) /\ Chain' = Reached(links', Past')
  BY DEF Chain, Reached

(* The recursive function, where it is given from l on.                    *)
IsFrom(f, lk, D) == \A l \in D : f[l] = IF l = 0 THEN {} ELSE {l} \cup f[lk[l]]

(* It exists, since links go up.                                           *)
LEMMA FromExists ==
  ASSUME NEW past \in Nat, NEW lk, Ascends(lk, past)
  PROVE  \E f : f = [l \in 0..past |-> IF l = 0 THEN {} ELSE {l} \cup f[lk[l]]]
<1> DEFINE D(m) == {0} \cup (past - m)..past
           Has(m) == \E f : f \in [D(m) -> SUBSET (0..past)] /\ IsFrom(f, lk, D(m))
           T == {m \in 0..past : Has(m)}
<1>1. 0 \in T
  <2>1. CASE past = 0
    <3> DEFINE f == [l \in {0} |-> {}]
    <3>1. D(0) = {0}
      BY <2>1
    <3>2. f \in [D(0) -> SUBSET (0..past)] /\ IsFrom(f, lk, D(0))
      BY <3>1 DEF IsFrom
    <3>3. QED
      BY <3>2
  <2>2. CASE past # 0
    <3> DEFINE f == [l \in {0, past} |-> IF l = 0 THEN {} ELSE {past}]
    <3>1. D(0) = {0, past}
      OBVIOUS
    <3>2. lk[past] = 0
      BY DEF Ascends
    <3>3. f \in [D(0) -> SUBSET (0..past)]
      BY <3>1
    <3>4. IsFrom(f, lk, D(0))
      BY <2>2, <3>1, <3>2 DEF IsFrom
    <3>5. QED
      BY <3>3, <3>4
  <2>3. QED
    BY <2>1, <2>2
<1>2. ASSUME NEW m \in 0..(past - 1), m \in T PROVE m + 1 \in T
  <2>1. PICK f : f \in [D(m) -> SUBSET (0..past)] /\ IsFrom(f, lk, D(m))
    BY <1>2
  <2>2. PICK p \in 0..past : p = past - (m + 1)
    OBVIOUS
  <2>3. D(m + 1) = D(m) \cup {p}
    BY <2>2
  <2>4. CASE p = 0
    <3>1. D(m + 1) = D(m)
      BY <2>3, <2>4
    <3>2. QED
      BY <2>1, <3>1
  <2>5. CASE p # 0
    <3> DEFINE g == [l \in D(m + 1) |-> IF l = p THEN {p} \cup f[lk[p]] ELSE f[l]]
    <3> PICK q \in 0..past : q = past - m /\ p + 1 = q
      BY <2>2
    <3>0. D(m) = {0} \cup q..past
      OBVIOUS
    <3>1. lk[p] \in D(m) /\ p \notin D(m) /\ \A l \in D(m) : l # 0 => lk[l] \in D(m)
      <4> HIDE DEF D
      <4>1. \A l \in 0..past : lk[l] \in 0..past /\ (lk[l] = 0 \/ l < lk[l])
        BY DEF Ascends
      <4>2. lk[p] = 0 \/ lk[p] \in q..past
        BY <4>1
      <4>3. \A l \in q..past : lk[l] = 0 \/ lk[l] \in q..past
        BY <4>1
      <4>4. QED
        BY <3>0, <4>2, <4>3, <2>5
    <3>2. f[lk[p]] \in SUBSET (0..past)
      BY <2>1, <3>1
    <3>3. g \in [D(m + 1) -> SUBSET (0..past)]
      <4> HIDE DEF D
      <4>1. QED
        BY <2>1, <2>3, <3>2
    <3>4. IsFrom(g, lk, D(m + 1))
      <4> HIDE DEF D
      <4>1. QED
        BY <2>1, <2>3, <2>5, <3>1 DEF IsFrom
    <3>5. Has(m + 1)
      <4> HIDE DEF D, g
      <4>1. QED
        BY <3>3, <3>4
    <3>6. m + 1 \in 0..past
      OBVIOUS
    <3>7. QED
      BY <3>5, <3>6
  <2>6. QED
    BY <2>4, <2>5
<1>3. past \in T
  <2> HIDE DEF T
  <2>1. \A k \in 0..past : k \in T
    BY <1>1, <1>2, Numbers!UpToInduction
  <2>2. QED
    BY <2>1
<1>4. PICK f : f \in [D(past) -> SUBSET (0..past)] /\ IsFrom(f, lk, D(past))
  BY <1>3
<1>5. D(past) = 0..past
  OBVIOUS
<1>6. f = [l \in 0..past |-> IF l = 0 THEN {} ELSE {l} \cup f[lk[l]]]
  <2> HIDE DEF D
  <2>1. QED
    BY <1>4, <1>5 DEF IsFrom
<1>7. QED
  BY <1>6

(* What the links go through is what they reach.                           *)
LEMMA SpannedIsReached ==
  ASSUME NEW past \in Nat, NEW lk, Ascends(lk, past), NEW S \in SUBSET (1..past), Spans(lk, S)
  PROVE  Reached(lk, past) = S
<1> DEFINE from == CHOOSE f : f = [l \in 0..past |-> IF l = 0 THEN {} ELSE {l} \cup f[lk[l]]]
<1>1. from = [l \in 0..past |-> IF l = 0 THEN {} ELSE {l} \cup from[lk[l]]]
  BY FromExists
<1>2. Reached(lk, past) = from[lk[0]]
  BY DEF Reached
<1> HIDE DEF from
<1>3. from[0] = {} /\ \A l \in 1..past : from[l] = {l} \cup from[lk[l]]
  <2>1. 0 \in 0..past /\ \A l \in 1..past : l \in 0..past /\ l # 0
    OBVIOUS
  <2>2. QED
    BY <1>1, <2>1
<1> DEFINE Rest(l) == {k \in S : l <= k}
           W == {l \in S : from[l] # Rest(l)}
<1>4. W = {}
  <2>1. SUFFICES ASSUME W # {} PROVE FALSE
    OBVIOUS
  <2>2. W \in SUBSET (0..past)
    <3>1. \A j \in S : j \in 0..past
      OBVIOUS
    <3>2. QED
      BY <3>1
  <2>3. PICK w \in W : \A k \in W : k <= w
    BY <2>1, <2>2, MaxIs
  <2>4. w \in S /\ w \in 1..past /\ IsNext(S, w, lk[w]) /\ from[w] = {w} \cup from[lk[w]]
    BY <1>3 DEF Spans
  <2>5. CASE lk[w] = 0
    <3>1. \A k \in S : w <= k => k = w
      BY <2>4, <2>5 DEF IsNext
    <3>2. Rest(w) = {w}
      BY <2>4, <3>1
    <3>3. from[w] = {w}
      BY <1>3, <2>4, <2>5
    <3>4. QED
      BY <3>2, <3>3
  <2>6. CASE lk[w] # 0
    <3>1. PICK m \in S : m = lk[w] /\ w < m /\ \A k \in S : w < k => m <= k
      BY <2>4, <2>6 DEF IsNext
    <3>2. m \notin W
      BY <2>3, <2>4, <3>1
    <3>3. from[m] = Rest(m)
      BY <3>1, <3>2
    <3>4. \A k \in S : w <= k <=> k = w \/ m <= k
      BY <2>4, <3>1
    <3>5. Rest(w) = {w} \cup Rest(m)
      BY <2>4, <3>4
    <3>6. QED
      BY <2>4, <3>1, <3>3, <3>5
  <2>7. QED
    BY <2>5, <2>6
<1>5. IsNext(S, 0, lk[0])
  BY DEF Spans
<1>6. CASE lk[0] = 0
  <2>1. S = {}
    BY <1>5, <1>6 DEF IsNext
  <2>2. QED
    BY <1>2, <1>3, <1>6, <2>1
<1>7. CASE lk[0] # 0
  <2>1. PICK m \in S : m = lk[0] /\ \A k \in S : m <= k
    <3>1. \A k \in S : 0 < k
      OBVIOUS
    <3>2. QED
      BY <1>5, <1>7, <3>1 DEF IsNext
  <2>2. from[m] = Rest(m)
    BY <1>4, <2>1
  <2>3. Rest(m) = S
    BY <2>1
  <2>4. QED
    BY <1>2, <2>1, <2>2, <2>3
<1>8. QED
  BY <1>6, <1>7

(* BidiChainAbsorbNext: the next link is no longer met.                    *)
LEMMA AbsorbNext ==
  ASSUME NEW past \in Nat, NEW lk, Ascends(lk, past), NEW S \in SUBSET (1..past), Spans(lk, S),
         NEW p \in S \cup {0}, NEW l \in S, lk[p] = l
  PROVE  LET merged == [lk EXCEPT ![p] = lk[lk[p]]] IN
         Ascends(merged, past) /\ Spans(merged, S \ {l})
<1> DEFINE merged == [lk EXCEPT ![p] = lk[lk[p]]]
<1>1. lk \in [0..past -> 0..past] /\ \A k \in 0..past : lk[k] = 0 \/ k < lk[k]
  BY DEF Ascends
<1>2. p \in 0..past /\ l \in 0..past /\ p # l /\ p < l
  <2>1. p \in 0..past /\ l \in 1..past
    OBVIOUS
  <2>2. QED
    BY <1>1, <2>1
<1>3. merged[p] = lk[l] /\ \A k \in 0..past : k # p => merged[k] = lk[k]
  BY <1>1, <1>2
<1>4. Ascends(merged, past)
  <2>1. merged \in [0..past -> 0..past]
    BY <1>1, <1>2
  <2>2. lk[l] = 0 \/ p < lk[l]
    <3>1. lk[l] \in 0..past /\ (lk[l] = 0 \/ l < lk[l])
      BY <1>1, <1>2
    <3>2. QED
      BY <1>2, <3>1
  <2>3. QED
    BY <1>1, <1>3, <2>1, <2>2 DEF Ascends
<1>5. IsNext(S, p, l) /\ IsNext(S, l, lk[l])
  BY DEF Spans
<1>6. ASSUME NEW k \in (S \ {l}) \cup {0} PROVE IsNext(S \ {l}, k, merged[k])
  <2>0. k \in 0..past /\ k # l /\ IsNext(S, k, lk[k]) /\ \A j \in S : j \in 1..past
    BY <1>2 DEF Spans
  <2>1. CASE k = p
    <3>1. \A j \in S \ {l} : p < j => l < j
      BY <1>2, <1>5, <2>0 DEF IsNext
    <3>2. lk[l] \in 0..past
      BY <1>1, <1>2
    <3>3. CASE lk[l] = 0
      <4>1. \A j \in S : j <= l
        BY <1>2, <1>5, <2>0, <3>3 DEF IsNext
      <4>2. \A j \in S \ {l} : j <= p
        BY <1>2, <2>0, <3>1, <4>1
      <4>3. QED
        BY <1>3, <2>1, <3>3, <4>2 DEF IsNext
    <3>4. CASE lk[l] # 0
      <4>1. lk[l] \in S /\ l < lk[l] /\ \A j \in S : l < j => lk[l] <= j
        BY <1>5, <3>4 DEF IsNext
      <4>2. lk[l] \in S \ {l} /\ p < lk[l]
        BY <1>2, <3>2, <4>1
      <4>3. \A j \in S \ {l} : p < j => lk[l] <= j
        BY <3>1, <4>1
      <4>4. QED
        BY <1>3, <2>1, <4>2, <4>3 DEF IsNext
    <3>5. QED
      BY <3>3, <3>4
  <2>2. CASE k # p
    <3>1. merged[k] = lk[k]
      BY <1>3, <2>0, <2>2
    <3>2. lk[k] # l
      <4>1. SUFFICES ASSUME lk[k] = l PROVE FALSE
        OBVIOUS
      <4>2. k < l /\ \A j \in S : k < j => l <= j
        BY <1>2, <2>0, <4>1 DEF IsNext
      <4>3. \A j \in S : p < j => l <= j
        BY <1>2, <1>5, <2>0 DEF IsNext
      <4>4. CASE k < p
        <5>1. p \in S
          BY <1>2, <2>0, <4>4
        <5>2. QED
          BY <1>2, <4>2, <4>4, <5>1
      <4>5. CASE p < k
        <5>1. k \in S
          BY <1>2, <2>0, <4>5
        <5>2. QED
          BY <1>2, <2>0, <4>2, <4>3, <4>5, <5>1
      <4>6. QED
        BY <1>2, <2>0, <2>2, <4>4, <4>5
    <3>3. QED
      BY <2>0, <3>1, <3>2 DEF IsNext
  <2>3. QED
    BY <2>1, <2>2
<1>7. Spans(merged, S \ {l})
  BY <1>6 DEF Spans
<1>8. QED
  BY <1>4, <1>7

(* AttachLevelRunLinks: where P are the links of the paragraph and O those *)
(* of the sequence, of which F and T begin and end the level runs.         *)
LEMMA RunsAttached ==
  ASSUME NEW past \in Nat, NEW P \in SUBSET (1..past), NEW O \in SUBSET P,
         NEW F, F = {l \in O : Before(P, l) \notin O},
         NEW T, T = {l \in O : NextIn(P, l) \notin O},
         NEW lk, \A l \in 0..past : lk[l] = IF l \in T \cup {0} THEN NextIn(F, l) ELSE NextIn(P, l)
  PROVE  Spans(lk, O)
<1>1. SUFFICES ASSUME NEW l \in O \cup {0} PROVE IsNext(O, l, lk[l])
  BY DEF Spans
<1>2. l \in 0..past /\ O \in SUBSET Nat /\ P \in SUBSET Nat /\ F \in SUBSET Nat /\ 0 \notin O
  <2>1. \A k \in P : k \in 1..past
    OBVIOUS
  <2>2. \A k \in O : k \in P
    OBVIOUS
  <2>3. \A k \in F : k \in O
    OBVIOUS
  <2>4. \A k \in 1..past : k \in Nat /\ k \in 0..past
    OBVIOUS
  <2>5. 0 \in 0..past /\ 0 \notin 1..past
    OBVIOUS
  <2> QED
    BY <2>1, <2>2, <2>3, <2>4, <2>5
<1>3. IsNext(P, l, NextIn(P, l)) /\ IsNext(O, l, NextIn(O, l)) /\ IsNext(F, l, NextIn(F, l))
  BY <1>2, NextInIs
<1>4. CASE l \notin T \cup {0}
  <2>1. lk[l] = NextIn(P, l) /\ lk[l] \in O
    BY <1>2, <1>4
  <2>2. QED
    BY <1>2, <1>3, <2>1 DEF IsNext
<1>5. CASE l \in T \cup {0}
  <2>1. lk[l] = NextIn(F, l)
    BY <1>2, <1>5
  <2>2. PICK n : n = NextIn(O, l) /\ IsNext(O, l, n)
    BY <1>3
  <2>3. CASE n = 0
    <3>1. \A k \in F : k <= l
      BY <1>2, <2>2, <2>3 DEF IsNext
    <3>2. l \in Nat /\ IsNext(F, l, 0) /\ 0 \notin F
      BY <1>2, <3>1 DEF IsNext
    <3>3. NextIn(F, l) = 0
      BY <1>2, <1>3, <3>2, NextIsUnique
    <3>4. QED
      BY <2>1, <2>2, <2>3, <3>3
  <2>4. CASE n # 0
    <3>1. n \in O /\ l < n /\ n \in Nat /\ \A k \in O : l < k => n <= k
      BY <1>2, <2>2, <2>4 DEF IsNext
    <3>2. PICK b \in P \cup {0} : b = Before(P, n) /\ (b = 0 \/ b < n) /\ \A k \in P : k < n => k <= b
      BY <3>1, BeforeIs
    <3>3. b \notin O
      <4>1. SUFFICES ASSUME b \in O PROVE FALSE
        OBVIOUS
      <4>2. b \in 1..past /\ b < n /\ b <= l
        BY <1>2, <3>1, <3>2, <4>1
      <4>3. l \in P /\ l # 0
        BY <1>2, <4>2
      <4>4. b = l
        BY <1>2, <3>1, <3>2, <4>2, <4>3
      <4>5. IsNext(P, l, n)
        <5>1. \A k \in P : l < k => n <= k
          BY <1>2, <3>1, <3>2, <4>4
        <5>2. QED
          BY <3>1, <5>1 DEF IsNext
      <4>6. NextIn(P, l) = n
        <5>1. 0 \notin P
          OBVIOUS
        <5>2. QED
          BY <1>2, <1>3, <4>5, <5>1, NextIsUnique
      <4>7. QED
        BY <1>5, <3>1, <4>3, <4>6
    <3>4. n \in F
      BY <3>1, <3>2, <3>3
    <3>5. l \in Nat /\ IsNext(F, l, n) /\ 0 \notin F
      BY <1>2, <3>1, <3>4 DEF IsNext
    <3>6. NextIn(F, l) = n
      BY <1>2, <1>3, <3>5, NextIsUnique
    <3>7. QED
      BY <2>1, <2>2, <3>6
  <2>5. QED
    BY <2>3, <2>4
<1>6. QED
  BY <1>4, <1>5

-----------------------------------------------------------------------------
(* The inductive invariant.                                                *)

Walks == {"weak", "numbers", "brackets", "pairs", "neutrals", "implicit"}

(* A walk that is at link m has been at link l.                            *)
Behind(m, l) == m = 0 \/ l < m

Marked   == {"L", "R", "AL", "EN", "AN", "ES", "ET", "CS", "NSM", "WS", "ON", "RLI", "PDI"}
Based    == Marked \ {"NSM"}
AfterW3  == Based \ {"AL"}
AfterW7  == AfterW3 \ {"ES", "ET", "CS"}
Resolved == {"L", "R", "EN", "AN"}

(* In the walks the links go through those of the sequence that have not   *)
(* been merged, and the prior link is the one before.                      *)
ChainInv ==
  /\ phase = "attach" => links = [l \in 0..Past |-> NextIn(Populated(Text), l)]
  /\ phase \in Walks =>
       /\ Ascends(links, Past) /\ Chain \subseteq Own /\ Spans(links, Chain)
       /\ link \in Chain \cup {0}
  /\ phase \in {"weak", "numbers"} =>
       priorLink \in Chain \cup {0} /\ links[priorLink] = link

(* What each walk has left of the types, before and behind its link.       *)
TypesInv ==
  /\ phase = "attach" => \A l \in Own : types[l] \in Marked
  /\ phase = "weak" => \A l \in Chain :
       types[l] \in Marked /\ (Behind(link, l) => types[l] \in AfterW3)
  /\ phase = "numbers" => \A l \in Chain :
       types[l] \in AfterW3 /\ (Behind(link, l) => types[l] \in AfterW7)
  /\ phase \in {"brackets", "pairs"} => \A l \in Chain : types[l] \in AfterW7
  /\ phase = "neutrals" => \A l \in Chain :
       /\ types[l] \in AfterW7
       /\ Behind(link, l) /\ (neutralLink = None \/ l < neutralLink) => types[l] \in Resolved
  /\ phase = "implicit" => \A l \in Chain : types[l] \in Resolved

(* What a link takes from the ones before it.                              *)
PriorInv ==
  /\ phase = "weak" => prior.w1 \in Based
  /\ phase # "neutrals" => neutralLink = None
  /\ phase = "neutrals" /\ neutralLink # None =>
       link # 0 /\ types[link] \in Neutrals /\ neutralLink < link

LevelsInv ==
  phase \in {"attach"} \cup Walks =>
    \A l \in Own : ~(phase = "implicit" /\ Behind(link, l)) => levels[l] = run.level

Elements == [priorStrong : 0..Past, opening : 0..Past, closing : 0..Past,
             bracket : Units, inner : {"Nil", "L", "R"}]

OpenAt == {k \in 1..Len(queue) : IsOpen(queue[k])}
PairsAt == {k \in 1..Len(queue) : IsPair(queue[k])}

(* The queue keeps links of the chain.                                     *)
QueueInv ==
  /\ queue \in Seq(Elements)
  /\ phase \in {"brackets", "pairs"} =>
       /\ priorStrongLink \in Chain \cup {None}
       /\ \A k \in 1..Len(queue) :
            {queue[k].priorStrong, queue[k].opening, queue[k].closing} \subseteq Chain \cup {None}
  /\ phase = "pairs" /\ pairCount > 0 => front \in PairsAt

IInv == TypeOK /\ ChainInv /\ TypesInv /\ PriorInv /\ LevelsInv /\ QueueInv /\ QueueAccounts

(* What the types of the chain can be.                                     *)
LEMMA TypesAre == {TypeOf(unit) : unit \in Units} \cup {"Nil"} = Marked \cup {"X", "BN", "Nil"}
  BY DEF TypeOf, Units, Brackets, Openings, Closings, Isolates, Marked

(* What IsSequence says of the fields of an input.                         *)
LEMMA SequenceIs ==
  ASSUME NEW input, IsSequence(input)
  PROVE  /\ input.text \in Seq(Units) /\ input.level \in Nat
         /\ input.sos \in {"L", "R"} /\ input.eos \in {"L", "R"}
  BY DEF IsSequence

(* The links of the sequence are among those of the paragraph.             *)
LEMMA InputIs ==
  ASSUME run \in Inputs
  PROVE  /\ Len(Text) \in Nat /\ Past \in Nat /\ Past = Len(Text) + 1
         /\ run.level \in Nat /\ run.sos \in {"L", "R"} /\ run.eos \in {"L", "R"}
         /\ Embedding \in {"L", "R"}
         /\ Populated(Text) \in SUBSET (1..Past)
         /\ Own \in SUBSET Populated(Text) /\ Own \in SUBSET (1..Past) /\ Past \notin Own
         /\ \A l \in 1..Len(Text) : Text[l] \in Units
         /\ \A l \in Own : l \in 1..Len(Text) /\ TypeOf(Text[l]) \in Marked
<1>1. Text \in Seq(Units) /\ run.level \in Nat /\ run.sos \in {"L", "R"} /\ run.eos \in {"L", "R"}
  BY InputsAssumption, SequenceIs DEF Text
<1>2. Len(Text) \in Nat /\ \A l \in 1..Len(Text) : Text[l] \in Units
  BY <1>1, LenProperties
<1>3. Past \in Nat /\ Past = Len(Text) + 1
  BY <1>2 DEF Past
<1>4. \A l \in VisibleIn(Text) : l \in 1..Len(Text) /\ Text[l] # "BN"
  BY DEF VisibleIn
<1>5. \A l \in Populated(Text) : l \in VisibleIn(Text) \/ l = Past
  BY <1>3 DEF Populated
<1>6. \A l \in Populated(Text) : l \in 1..Past
  BY <1>2, <1>3, <1>4, <1>5
<1>7. \A l \in Own : l \in Populated(Text) /\ l < Past /\ Text[l] # "X"
  BY DEF Own
<1>8. ASSUME NEW l \in Own PROVE l \in 1..Len(Text) /\ TypeOf(Text[l]) \in Marked
  <2>1. l \in VisibleIn(Text)
    BY <1>3, <1>5, <1>7
  <2>2. l \in 1..Len(Text) /\ Text[l] \in Units \ {"X", "BN"}
    BY <1>2, <1>4, <1>7, <2>1
  <2>3. \A unit \in Units \ {"X", "BN"} : TypeOf(unit) \in Marked
    BY DEF TypeOf, Units, Brackets, Openings, Closings, Isolates, Marked
  <2>4. QED
    BY <2>2, <2>3
<1>9. Embedding \in {"L", "R"}
  BY DEF Embedding, Direction
<1>10. QED
  BY <1>1, <1>2, <1>3, <1>6, <1>7, <1>8, <1>9

(* The run stays, and so does all that is defined by it.                   *)
LEMMA RunStays ==
  ASSUME run' = run
  PROVE  /\ Text' = Text /\ Past' = Past /\ Own' = Own /\ Elements' = Elements
         /\ Embedding' = Embedding
         /\ links' = links => Chain' = Chain
  BY DEF Text, Past, Own, Elements, Embedding, Chain

(* A walk has been behind the next link when it has been up to its own.    *)
LEMMA BehindNext ==
  ASSUME NEW C \in SUBSET Nat, 0 \notin C, NEW m \in C, NEW n, IsNext(C, m, n), NEW l \in C
  PROVE  /\ Behind(n, l) <=> l <= m
         /\ Behind(m, l) <=> l < m
         /\ n # 0 => n \in C /\ m < n
<1>1. CASE n = 0
  BY <1>1 DEF IsNext, Behind
<1>2. CASE n # 0
  <2>1. n \in C /\ m < n /\ \A k \in C : m < k => n <= k
    BY <1>2 DEF IsNext
  <2>2. l \in Nat /\ m \in Nat /\ n \in Nat /\ m # 0
    BY <2>1
  <2>3. l < n <=> l <= m
    BY <2>1, <2>2
  <2>4. QED
    BY <1>2, <2>1, <2>2, <2>3 DEF Behind
<1>3. QED
  BY <1>1, <1>2

(* The links of the chain lead to links of it.                             *)
LEMMA SpannedNext ==
  ASSUME NEW C \in SUBSET Nat, 0 \notin C, NEW lk, Spans(lk, C), NEW m \in C \cup {0}
  PROVE  IsNext(C, m, lk[m]) /\ lk[m] \in C \cup {0}
  BY DEF Spans, IsNext

-----------------------------------------------------------------------------
(* The start.                                                              *)

(* DetermineLevels hands over a chain as the invariant wants it.           *)
LEMMA InitHolds == Init => IInv
<1> SUFFICES ASSUME Init PROVE IInv
  OBVIOUS
<1>0. run \in Inputs /\ phase = "attach"
  BY DEF Init
<1>1. /\ Len(Text) \in Nat /\ Past \in Nat /\ Past = Len(Text) + 1
      /\ run.level \in Nat
      /\ Populated(Text) \in SUBSET (1..Past)
      /\ Own \in SUBSET (1..Past) /\ Past \notin Own
      /\ \A l \in 1..Len(Text) : Text[l] \in Units
      /\ \A l \in Own : l \in 1..Len(Text) /\ TypeOf(Text[l]) \in Marked
  BY <1>0, InputIs
<1>2. /\ links = [l \in 0..Past |-> NextIn(Populated(Text), l)]
      /\ types = [l \in 0..Past |-> IF l \in 1..Len(Text) THEN TypeOf(Text[l]) ELSE "Nil"]
      /\ single = {l \in Populated(Text) : l < Past /\ StartsLink(Text, l + 1)}
      /\ levels = [l \in 0..Past |-> IF l \in Own THEN run.level ELSE OtherLevel]
      /\ link = 0 /\ priorLink = 0 /\ neutralLink = 0 /\ lastLink = 0
      /\ priorStrongLink = 0 /\ queue = <<>> /\ firstOpenPair = 0 /\ front = 0
      /\ actualCount = 0 /\ pairCount = 0
  BY DEF Init, None
<1>3. TypeOK
  <2>1. links \in [0..Past -> 0..Past]
    <3>1. ASSUME NEW l \in 0..Past PROVE NextIn(Populated(Text), l) \in 0..Past
      <4>1. IsNext(Populated(Text), l, NextIn(Populated(Text), l))
        <5>1. Populated(Text) \in SUBSET Nat /\ l \in Nat
          BY <1>1
        <5>2. QED
          BY <5>1, NextInIs
      <4>2. \A m \in Populated(Text) : m \in 0..Past
        BY <1>1
      <4>3. QED
        BY <1>1, <4>1, <4>2 DEF IsNext
    <3>2. QED
      BY <1>2, <3>1
  <2>2. /\ types \in [0..Past -> {TypeOf(unit) : unit \in Units} \cup {"Nil"}]
        /\ \A l \in 0..Past : types[l] = "Nil" <=> l \in {0, Past}
    <3>1. \A unit \in Units : TypeOf(unit) # "Nil"
      BY DEF TypeOf, Units, Brackets, Openings, Closings, Isolates
    <3>2. \A l \in 0..Past : l \in 1..Len(Text) <=> l \notin {0, Past}
      BY <1>1
    <3>3. \A l \in 0..Past : types[l] = IF l \in 1..Len(Text) THEN TypeOf(Text[l]) ELSE "Nil"
      BY <1>2
    <3>4. \A l \in 0..Past : types[l] = "Nil" <=> l \in {0, Past}
      BY <1>1, <3>1, <3>2, <3>3
    <3>5. \A l \in 1..Len(Text) : TypeOf(Text[l]) \in {TypeOf(unit) : unit \in Units}
      BY <1>1
    <3>6. QED
      BY <1>2, <3>4, <3>5
  <2>3. single \subseteq 0..Past
    BY <1>1, <1>2
  <2>4. levels \in [0..Past -> {OtherLevel} \cup run.level..(run.level + 2)]
    BY <1>1, <1>2
  <2>5. 0 \in 0..Past /\ {0} \subseteq 0..0 /\ Len(queue) = 0 /\ 0 \in Nat
    BY <1>1, <1>2
  <2>6. QED
    BY <1>0, <1>2, <2>1, <2>2, <2>3, <2>4, <2>5 DEF TypeOK
<1>4. ChainInv
  BY <1>0, <1>2 DEF ChainInv, Walks
<1>5. TypesInv /\ PriorInv
  <2>1. \A l \in Own : types[l] \in Marked
    <3>1. \A l \in Own : l \in 0..Past
      BY <1>1
    <3>2. QED
      BY <1>1, <1>2, <3>1
  <2>2. QED
    BY <1>0, <1>2, <2>1 DEF TypesInv, PriorInv, None
<1>6. LevelsInv
  <2>1. \A l \in Own : l \in 0..Past
    BY <1>1
  <2>2. QED
    BY <1>0, <1>2, <2>1 DEF LevelsInv
<1>7. QueueInv /\ QueueAccounts
  <2>1. <<>> \in Seq(Elements)
    BY EmptySeq
  <2>2. QED
    BY <1>0, <1>2, <2>1 DEF QueueInv, QueueAccounts
<1>8. QED
  BY <1>3, <1>4, <1>5, <1>6, <1>7 DEF IInv

-----------------------------------------------------------------------------
(* The walks.                                                              *)

(* Where a walk is.                                                        *)
LEMMA AtLink ==
  ASSUME IInv, phase \in Walks
  PROVE  /\ Chain \in SUBSET (1..Past) /\ Chain \in SUBSET (0..Past) /\ Chain \in SUBSET Nat
         /\ 0 \notin Chain /\ Past \notin Chain /\ Chain \subseteq Own
         /\ links \in [0..Past -> 0..Past] /\ links[0] \in Chain \cup {0}
         /\ links[0] \in 0..Past
         /\ link # 0 => /\ link \in Chain /\ link \in 1..Past /\ links[link] \in Chain \cup {0}
                        /\ links[link] \in 0..Past
                        /\ IsNext(Chain, link, links[link])
<1>1. /\ Past \in Nat /\ Own \in SUBSET (1..Past) /\ Past \notin Own
  BY InputIs DEF IInv, TypeOK
<1>2. /\ Chain \subseteq Own /\ Spans(links, Chain) /\ link \in Chain \cup {0}
      /\ links \in [0..Past -> 0..Past]
  BY DEF IInv, TypeOK, ChainInv
<1>3. \A l \in 1..Past : l \in Nat /\ l \in 0..Past /\ l # 0
  OBVIOUS
<1>4. \A l \in Chain : l \in 1..Past
  BY <1>1, <1>2
<1>5. Chain \in SUBSET Nat /\ 0 \notin Chain
  BY <1>3, <1>4
<1>6. \A l \in Chain \cup {0} : IsNext(Chain, l, links[l]) /\ links[l] \in Chain \cup {0}
  BY <1>2, <1>5, SpannedNext
<1>7. Chain \in SUBSET (1..Past) /\ Chain \in SUBSET (0..Past)
  BY <1>3, <1>4
<1>8. links[0] \in 0..Past /\ (link # 0 => links[link] \in 0..Past)
  <2>1. 0 \in 0..Past /\ link \in 0..Past
    BY <1>1, <1>2, <1>7
  <2>2. QED
    BY <1>2, <2>1
<1>9. QED
  BY <1>1, <1>2, <1>4, <1>5, <1>6, <1>7, <1>8

(* BidiChainAbsorbNext, or not: the chain may lose the link.               *)
LEMMA Merged ==
  ASSUME IInv, phase \in {"weak", "numbers"}, link # 0, run' = run, phase' = phase,
         NEW type, NEW forceMerge, MergeOrGoOn(type, forceMerge)
  PROVE  /\ ChainInv' /\ Chain' \subseteq Chain
         /\ \/ Chain' = Chain
            \/ /\ Chain' = Chain \ {link}
               /\ \/ type # "ON" /\ types[priorLink] = type
                  \/ forceMerge
         /\ \A l \in 1..Past : l \notin Own => links'[l] = links[l]
         /\ links' \in [0..Past -> 0..Past]
         /\ {link', priorLink'} \subseteq 0..Past /\ link' = links[link]
         /\ single' \subseteq single
         /\ UNCHANGED <<levels, neutralLink, lastLink, queueVars>>
<1>0. phase \in Walks
  BY DEF Walks
<1>1. /\ Chain \in SUBSET (1..Past) /\ Chain \in SUBSET (0..Past) /\ 0 \notin Chain
      /\ Chain \subseteq Own
      /\ links \in [0..Past -> 0..Past]
      /\ link \in Chain /\ links[link] \in Chain \cup {0} /\ links[link] \in 0..Past
      /\ IsNext(Chain, link, links[link])
  BY <1>0, AtLink
<1>2. /\ Ascends(links, Past) /\ Spans(links, Chain)
      /\ priorLink \in Chain \cup {0} /\ links[priorLink] = link
      /\ priorLink \in 0..Past
  BY <1>0 DEF IInv, ChainInv, TypeOK
<1>3. Text' = Text /\ Past' = Past /\ Own' = Own /\ (links' = links => Chain' = Chain)
  BY RunStays
<1>4. Past \in Nat
  BY InputIs DEF IInv, TypeOK
<1>5. link' = links[link] /\ UNCHANGED <<levels, neutralLink, lastLink, queueVars>>
  BY DEF MergeOrGoOn
<1>6. phase' # "attach" /\ phase' \in Walks
  BY <1>0
<1>7. CASE /\ (type # "ON" /\ types[priorLink] = type) \/ forceMerge
           /\ links' = [links EXCEPT ![priorLink] = links[links[priorLink]]]
           /\ single' = single \ {priorLink} /\ priorLink' = priorLink
  <2>1. Ascends(links', Past) /\ Spans(links', Chain \ {link})
    BY <1>1, <1>2, <1>4, <1>7, AbsorbNext
  <2>2. Chain' = Chain \ {link}
    <3>1. Chain \ {link} \in SUBSET (1..Past)
      BY <1>1
    <3>2. Reached(links', Past) = Chain \ {link}
      BY <1>4, <2>1, <3>1, SpannedIsReached
    <3>3. QED
      BY <1>3, <3>2, ChainIsReached
  <2>3. link # priorLink /\ links'[priorLink] = links[link]
    <3>1. links[link] = 0 \/ link < links[link]
      BY <1>1, <1>2 DEF Ascends
    <3>2. link \in Nat /\ link # 0
      BY <1>1
    <3>3. link # priorLink
      BY <1>2, <3>1, <3>2
    <3>4. QED
      BY <1>1, <1>2, <1>7, <3>3
  <2>4. links[link] \in (Chain \ {link}) \cup {0}
    <3>1. links[link] = 0 \/ link < links[link]
      BY <1>1, <1>2 DEF Ascends
    <3>2. link \in Nat /\ link # 0
      BY <1>1
    <3>3. QED
      BY <1>1, <3>1, <3>2
  <2>5. ChainInv'
    BY <1>1, <1>2, <1>3, <1>5, <1>6, <1>7, <2>1, <2>2, <2>3, <2>4 DEF ChainInv
  <2>6. links' \in [0..Past -> 0..Past]
    BY <2>1 DEF Ascends
  <2>7. \A l \in 1..Past : l \notin Own => links'[l] = links[l]
    <3>1. \A l \in 1..Past : l \notin Own => l # priorLink
      BY <1>1, <1>2
    <3>2. QED
      BY <1>1, <1>7, <3>1
  <2>8. QED
    BY <1>1, <1>2, <1>5, <1>7, <2>2, <2>5, <2>6, <2>7
<1>8. CASE priorLink' = link /\ links' = links /\ single' = single
  <2>1. ChainInv'
    BY <1>1, <1>2, <1>3, <1>5, <1>6, <1>8 DEF ChainInv
  <2>2. Chain' = Chain /\ \A l \in 1..Past : l \notin Own => links'[l] = links[l]
    BY <1>3, <1>8
  <2>3. {link', priorLink'} \subseteq 0..Past /\ links' \in [0..Past -> 0..Past]
    BY <1>1, <1>5, <1>8
  <2>4. single' \subseteq single
    BY <1>8
  <2>5. Chain' \subseteq Chain
    BY <2>2
  <2>6. QED
    BY <1>5, <2>1, <2>2, <2>3, <2>4, <2>5
<1>9. QED
  BY <1>7, <1>8 DEF MergeOrGoOn

(* Steps that leave the links alone.                                       *)
LEMMA ChainStays ==
  ASSUME IInv, phase \in Walks, run' = run, links' = links,
         phase' \in Walks \ {"weak", "numbers"}, link' \in Chain \cup {0}
  PROVE  ChainInv' /\ Chain' = Chain
<1>1. Text' = Text /\ Past' = Past /\ Own' = Own /\ Chain' = Chain
  BY RunStays
<1>2. Ascends(links, Past) /\ Chain \subseteq Own /\ Spans(links, Chain)
  BY DEF IInv, ChainInv
<1>3. phase' \notin {"attach", "weak", "numbers"}
  BY DEF Walks
<1>4. QED
  BY <1>1, <1>2, <1>3 DEF ChainInv

(* Steps that leave the levels alone.                                      *)
LEMMA LevelsStay ==
  ASSUME IInv, phase \in ({"attach"} \cup Walks) \ {"implicit"}, run' = run, levels' = levels
  PROVE  LevelsInv'
<1>1. Own' = Own
  BY RunStays
<1>2. QED
  BY <1>1 DEF IInv, LevelsInv

(* Steps outside rule N0.                                                  *)
LEMMA QueueStays ==
  ASSUME IInv, run' = run, UNCHANGED queueVars, phase' \notin {"brackets", "pairs"}
  PROVE  QueueInv' /\ QueueAccounts'
<1>1. Elements' = Elements /\ queue' = queue
  BY RunStays DEF queueVars
<1>2. queue \in Seq(Elements)
  BY DEF IInv, QueueInv
<1>3. QED
  BY <1>1, <1>2 DEF QueueInv, QueueAccounts

(* Types are written to links of the sequence only.                        *)
TypesTyped(t) ==
  /\ t \in [0..Past -> {TypeOf(unit) : unit \in Units} \cup {"Nil"}]
  /\ \A l \in 0..Past : t[l] = "Nil" <=> l \in {0, Past}

(* Then the types stay types, and only the ends have type Nil.             *)
LEMMA TypesWritten ==
  ASSUME IInv, NEW t, t = [l \in 0..Past |-> t[l]],
         \A l \in 0..Past : t[l] = types[l] \/ (l \in Own /\ t[l] \in Marked)
  PROVE  TypesTyped(t)
<1> DEFINE T == {TypeOf(unit) : unit \in Units} \cup {"Nil"}
<1>1. Own \in SUBSET (1..Past) /\ Past \notin Own
  BY InputIs DEF IInv, TypeOK
<1>2. TypesTyped(types)
  BY DEF TypesTyped, IInv, TypeOK
<1>3. \A type \in Marked : type # "Nil" /\ type \in T
  BY TypesAre DEF Marked
<1> HIDE DEF T
<1>4. ASSUME NEW l \in 0..Past PROVE t[l] \in T /\ (t[l] = "Nil" <=> l \in {0, Past})
  <2>1. CASE t[l] = types[l]
    BY <1>2, <2>1 DEF TypesTyped, T
  <2>2. CASE l \in Own /\ t[l] \in Marked
    <3>1. l # 0 /\ l # Past
      BY <1>1, <2>2
    <3>2. QED
      BY <1>3, <2>2, <3>1
  <2>3. QED
    BY <2>1, <2>2
<1>5. t \in [0..Past -> T]
  BY <1>4
<1>6. QED
  BY <1>4, <1>5 DEF TypesTyped, T

(* TypeOK, without what steps seldom change.                               *)
LEMMA TypeOKNext ==
  ASSUME IInv, run' = run, links' \in [0..Past -> 0..Past], TypesTyped(types'),
         single' \subseteq 0..Past,
         levels' \in [0..Past -> {OtherLevel} \cup run.level..(run.level + 2)],
         {link', priorLink', neutralLink', lastLink', priorStrongLink'} \subseteq 0..Past,
         {firstOpenPair', front'} \subseteq 0..Len(queue'),
         actualCount' \in Nat, pairCount' \in Nat,
         phase' \in {"attach", "resolved", "failed"} \cup Walks
  PROVE  TypeOK'
<1>1. Past' = Past /\ run' \in Inputs
  BY RunStays DEF IInv, TypeOK
<1>2. QED
  BY <1>1 DEF TypeOK, TypesTyped, Walks

(* The types as they are.                                                  *)
LEMMA TypesNow == ASSUME IInv PROVE TypesTyped(types) /\ Past \in Nat
  BY InputIs DEF TypesTyped, IInv, TypeOK

-----------------------------------------------------------------------------
(* One lemma for each action.                                              *)

(* After it, the links go through those of the sequence.                   *)
LEMMA AttachedIs ==
  ASSUME IInv, Attach
  PROVE  /\ Spans(Attached, Own) /\ Ascends(Attached, Past) /\ Chain' = Own
         /\ \A l \in 1..Past : l \notin Own => links'[l] = links[l]
<1>0. /\ phase = "attach" /\ phase' = "weak" /\ run' = run /\ links' = Attached
      /\ link' = Attached[0] /\ priorLink' = 0
      /\ prior' = [prior EXCEPT !.w1 = run.sos, !.w2 = run.sos]
      /\ UNCHANGED <<types, single, levels, neutralLink, lastLink, queueVars>>
  BY DEF Attach
<1>1. /\ Past \in Nat /\ Own \in SUBSET (1..Past) /\ Past \notin Own
      /\ Populated(Text) \in SUBSET (1..Past) /\ Own \in SUBSET Populated(Text)
      /\ run.sos \in {"L", "R"}
  BY InputIs DEF IInv, TypeOK
<1>2. links = [l \in 0..Past |-> NextIn(Populated(Text), l)]
  BY <1>0 DEF IInv, ChainInv
<1>3. Text' = Text /\ Past' = Past /\ Own' = Own
  BY <1>0, RunStays
<1>4. \A l \in 0..Past : Attached[l] = IF l \in LastLinks \cup {0} THEN NextIn(FirstLinks, l)
                                       ELSE NextIn(Populated(Text), l)
  BY <1>2 DEF Attached
<1>5. Spans(Attached, Own)
  <2>1. FirstLinks = {l \in Own : Before(Populated(Text), l) \notin Own}
    BY DEF FirstLinks
  <2>2. LastLinks = {l \in Own : NextIn(Populated(Text), l) \notin Own}
    BY DEF LastLinks
  <2>3. QED
    BY <1>1, <1>4, <2>1, <2>2, RunsAttached
<1>6. Ascends(Attached, Past)
  <2>1. ASSUME NEW l \in 0..Past
        PROVE  Attached[l] \in 0..Past /\ (Attached[l] = 0 \/ l < Attached[l])
    <3>1. PICK S : Attached[l] = NextIn(S, l) /\ S \in SUBSET (1..Past)
      <4>1. FirstLinks \in SUBSET (1..Past)
        BY <1>1 DEF FirstLinks
      <4>2. QED
        BY <1>1, <1>4, <4>1
    <3>2. IsNext(S, l, NextIn(S, l))
      <4>1. S \in SUBSET Nat /\ l \in Nat
        BY <3>1
      <4>2. QED
        BY <4>1, NextInIs
    <3>3. NextIn(S, l) = 0 \/ (NextIn(S, l) \in 1..Past /\ l < NextIn(S, l))
      BY <3>1, <3>2 DEF IsNext
    <3>4. QED
      BY <1>1, <3>1, <3>3
  <2>2. DOMAIN Attached = 0..Past /\ Attached = [l \in 0..Past |-> Attached[l]]
    BY DEF Attached
  <2>3. QED
    BY <2>1, <2>2 DEF Ascends
<1>7. Chain' = Own
  <2>1. Reached(Attached, Past) = Own
    BY <1>1, <1>5, <1>6, SpannedIsReached
  <2>2. QED
    BY <1>0, <1>3, <2>1, ChainIsReached
<1>8. \A l \in 1..Past : l \notin Own => links'[l] = links[l]
  <2>1. \A l \in 1..Past : l \notin Own => l \in 0..Past /\ l \notin LastLinks \cup {0}
    BY DEF LastLinks
  <2>2. QED
    BY <1>0, <1>2, <1>4, <2>1
<1>9. QED
  BY <1>5, <1>6, <1>7, <1>8

(* AttachLevelRunLinks: the links of the level runs become one chain.      *)
LEMMA StepAttach == ASSUME IInv, Attach PROVE IInv'
<1>0. /\ phase = "attach" /\ phase' = "weak" /\ run' = run /\ links' = Attached
      /\ link' = Attached[0] /\ priorLink' = 0
      /\ prior' = [prior EXCEPT !.w1 = run.sos, !.w2 = run.sos]
      /\ UNCHANGED <<types, single, levels, neutralLink, lastLink, queueVars>>
  BY DEF Attach
<1>1. /\ Past \in Nat /\ Own \in SUBSET (1..Past) /\ Past \notin Own
      /\ Populated(Text) \in SUBSET (1..Past) /\ Own \in SUBSET Populated(Text)
      /\ run.sos \in {"L", "R"}
  BY InputIs DEF IInv, TypeOK
<1>2. links = [l \in 0..Past |-> NextIn(Populated(Text), l)]
  BY <1>0 DEF IInv, ChainInv
<1>3. Text' = Text /\ Past' = Past /\ Own' = Own
  BY <1>0, RunStays
<1>5. Spans(Attached, Own)
  BY AttachedIs
<1>6. Ascends(Attached, Past)
  BY AttachedIs
<1>7. Chain' = Own
  BY AttachedIs
<1>8. IsNext(Own, 0, Attached[0]) /\ Attached[0] \in Own \cup {0}
  <2>1. Own \in SUBSET Nat /\ 0 \notin Own
    <3>1. \A l \in 1..Past : l \in Nat /\ l # 0
      OBVIOUS
    <3>2. QED
      BY <1>1, <3>1
  <2>2. QED
    BY <1>5, <2>1, SpannedNext
<1>9. ChainInv'
  BY <1>0, <1>3, <1>5, <1>6, <1>7, <1>8 DEF ChainInv, Walks
<1>10. TypesInv'
  <2>1. \A l \in Own : types[l] \in Marked
    BY <1>0 DEF IInv, TypesInv
  <2>2. \A l \in Own : ~Behind(Attached[0], l)
    <3>1. \A l \in Own : l \in Nat /\ 0 < l
      BY <1>1
    <3>2. QED
      BY <1>8, <3>1 DEF Behind, IsNext
  <2>3. QED
    BY <1>0, <1>7, <2>1, <2>2 DEF TypesInv
<1>11. PriorInv'
  <2>1. neutralLink = None
    BY <1>0 DEF IInv, PriorInv
  <2>2. QED
    BY <1>0, <1>1, <2>1 DEF PriorInv, Based, Marked
<1>12. TypeOK'
  <2>1. Attached \in [0..Past -> 0..Past] /\ Attached[0] \in 0..Past
    BY <1>1, <1>6, <1>8 DEF Ascends
  <2>2. TypesTyped(types') /\ phase' \in Walks /\ 0 \in 0..Past
    BY <1>0, <1>1, TypesNow DEF Walks
  <2>3. QED
    BY <1>0, <2>1, <2>2, TypeOKNext DEF IInv, TypeOK, queueVars
<1>13. LevelsInv' /\ QueueInv' /\ QueueAccounts'
  BY <1>0, LevelsStay, QueueStays DEF Walks
<1>14. QED
  BY <1>9, <1>10, <1>11, <1>12, <1>13 DEF IInv

(* W1 to W3: the types behind the link are those that W4 expects.          *)
LEMMA StepResolveMarks == ASSUME IInv, ResolveMarks PROVE IInv'
<1> DEFINE isMark  == types[link] = "NSM"
           type    == IF ~isMark THEN types[link]
                      ELSE IF prior.w1 \in Isolates THEN "ON" ELSE prior.w1
           written == CASE type = "EN" /\ prior.w2 = "AL" -> "AN"
                        [] type = "AL" -> "R"
                        [] OTHER -> type
<1>0. /\ phase = "weak" /\ phase' = "weak" /\ link # 0 /\ run' = run
      /\ types' = [types EXCEPT ![link] = written]
      /\ prior' = [prior EXCEPT !.w1 = type, !.w2 = IF type \in {"L", "R", "AL"} THEN type ELSE @]
      /\ MergeOrGoOn(type, isMark /\ prior.w1 = "ON")
  BY DEF ResolveMarks, At
<1>1. phase \in Walks
  BY <1>0 DEF Walks
<1>2. /\ Chain \in SUBSET Nat /\ 0 \notin Chain /\ Chain \subseteq Own /\ Chain \in SUBSET (0..Past)
      /\ link \in Chain /\ IsNext(Chain, link, links[link])
  BY <1>0, <1>1, AtLink
<1>3. /\ ChainInv' /\ Chain' \subseteq Chain
      /\ links' \in [0..Past -> 0..Past]
      /\ {link', priorLink'} \subseteq 0..Past /\ link' = links[link]
      /\ single' \subseteq single
      /\ UNCHANGED <<levels, neutralLink, lastLink, queueVars>>
  <2> HIDE DEF type, isMark
  <2>1. QED
    BY <1>0, Merged
<1>4. type \in Based /\ written \in AfterW3
  <2>1. types[link] \in Marked /\ prior.w1 \in Based
    BY <1>0, <1>2 DEF IInv, TypesInv, PriorInv
  <2>2. type \in Based
    BY <2>1 DEF Based, Marked
  <2>3. \A t \in Based : t # "AL" => t \in AfterW3
    BY DEF AfterW3
  <2>4. "AN" \in AfterW3 /\ "R" \in AfterW3
    BY DEF AfterW3, Based, Marked
  <2> HIDE DEF type
  <2>5. CASE type = "EN" /\ prior.w2 = "AL"
    <3>1. type # "AL"
      BY <2>5
    <3>2. written = "AN"
      BY <2>5, <3>1
    <3>3. QED
      BY <2>2, <2>4, <3>2
  <2>6. CASE type = "AL"
    <3>1. type # "EN"
      BY <2>6
    <3>2. written = "R"
      BY <2>6, <3>1
    <3>3. QED
      BY <2>2, <2>4, <3>2
  <2>7. CASE ~(type = "EN" /\ prior.w2 = "AL") /\ type # "AL"
    BY <2>2, <2>3, <2>7
  <2>8. QED
    BY <2>2, <2>5, <2>6, <2>7
<1> HIDE DEF type, written, isMark
<1>5. types \in [0..Past -> {TypeOf(unit) : unit \in Units} \cup {"Nil"}]
  BY DEF IInv, TypeOK
<1>6. \A l \in 0..Past : types'[l] = IF l = link THEN written ELSE types[l]
  BY <1>0, <1>5
<1>7. TypesInv'
  <2>1. \A l \in Chain : types[l] \in Marked /\ (Behind(link, l) => types[l] \in AfterW3)
    BY <1>0 DEF IInv, TypesInv
  <2>2. ASSUME NEW l \in Chain
        PROVE  types'[l] \in Marked /\ (Behind(links[link], l) => types'[l] \in AfterW3)
    <3>1. l \in 0..Past /\ l \in Nat /\ link \in Nat
      BY <1>2
    <3>2. AfterW3 \subseteq Marked
      BY DEF AfterW3, Based
    <3>3. CASE l = link
      BY <1>4, <1>6, <3>1, <3>2, <3>3
    <3>4. CASE l # link
      <4>1. types'[l] = types[l]
        BY <1>6, <3>1, <3>4
      <4>2. Behind(links[link], l) => Behind(link, l)
        BY <1>2, <3>1, <3>4, BehindNext
      <4>3. QED
        BY <2>1, <4>1, <4>2
    <3>5. QED
      BY <3>3, <3>4
  <2>3. \A l \in Chain' : types'[l] \in Marked /\ (Behind(link', l) => types'[l] \in AfterW3)
    BY <1>3, <2>2
  <2>4. QED
    BY <1>0, <2>3 DEF TypesInv
<1>8. PriorInv'
  <2>1. neutralLink = None
    BY <1>0 DEF IInv, PriorInv
  <2>2. QED
    BY <1>0, <1>3, <1>4, <2>1 DEF PriorInv
<1>9. TypeOK'
  <2>1. TypesTyped(types')
    <3>1. types' = [l \in 0..Past |-> types'[l]]
      BY <1>0, <1>5
    <3>2. \A l \in 0..Past : types'[l] = types[l] \/ (l \in Own /\ types'[l] \in Marked)
      BY <1>2, <1>4, <1>6 DEF AfterW3, Based
    <3>3. QED
      BY <3>1, <3>2, TypesWritten
  <2>2. phase' \in Walks
    BY <1>0 DEF Walks
  <2>3. QED
    BY <1>0, <1>3, <2>1, <2>2, TypeOKNext DEF IInv, TypeOK, queueVars
<1>10. LevelsInv' /\ QueueInv' /\ QueueAccounts'
  BY <1>0, <1>3, LevelsStay, QueueStays DEF Walks
<1>11. QED
  BY <1>3, <1>7, <1>8, <1>9, <1>10 DEF IInv

(* W4 to W7: neither AL nor a separator or terminator is left behind it.   *)
LEMMA StepResolveNumbers == ASSUME IInv, ResolveNumbers PROVE IInv'
<1> DEFINE own     == types[link]
           next    == types[links[link]]
           fourth  == IF JoinsNumbers(own, next) THEN prior.w4 ELSE own
           fifth   == IF fourth = "ET" /\ (prior.w5 = "EN" \/ next = "EN") THEN "EN" ELSE fourth
           written == CASE fifth \in {"ET", "CS", "ES"} -> "ON"
                        [] fifth = "EN" /\ prior.w7 = "L" -> "L"
                        [] OTHER -> fifth
<1>0. /\ phase = "numbers" /\ phase' = "numbers" /\ link # 0 /\ run' = run
      /\ types' = [types EXCEPT ![link] = written]
      /\ MergeOrGoOn(fifth, FALSE)
  BY DEF ResolveNumbers, At
<1>1. phase \in Walks
  BY <1>0 DEF Walks
<1>2. /\ Chain \in SUBSET Nat /\ 0 \notin Chain /\ Chain \subseteq Own /\ Chain \in SUBSET (0..Past)
      /\ link \in Chain /\ IsNext(Chain, link, links[link])
  BY <1>0, <1>1, AtLink
<1>3. /\ ChainInv' /\ Chain' \subseteq Chain
      /\ links' \in [0..Past -> 0..Past]
      /\ {link', priorLink'} \subseteq 0..Past /\ link' = links[link]
      /\ single' \subseteq single
      /\ UNCHANGED <<levels, neutralLink, lastLink, queueVars>>
  <2> HIDE DEF fifth
  <2>1. QED
    BY <1>0, Merged
<1>4. written \in AfterW7
  <2>1. types[link] \in AfterW3
    BY <1>0, <1>2 DEF IInv, TypesInv
  <2>2. fourth \in AfterW3
    <3>1. {"EN", "AN"} \subseteq AfterW3
      BY DEF AfterW3, Based, Marked
    <3>2. JoinsNumbers(own, next) => prior.w4 \in {"EN", "AN"}
      BY DEF JoinsNumbers
    <3>3. QED
      BY <2>1, <3>1, <3>2
  <2> HIDE DEF fourth
  <2>3. fifth \in AfterW3
    BY <2>2 DEF AfterW3, Based, Marked
  <2> HIDE DEF fifth
  <2>4. "ON" \in AfterW7 /\ "L" \in AfterW7
    BY DEF AfterW7, AfterW3, Based, Marked
  <2>5. CASE fifth \in {"ET", "CS", "ES"}
    <3>1. fifth # "EN"
      BY <2>5
    <3>2. written = "ON"
      BY <2>5, <3>1
    <3>3. QED
      BY <2>4, <3>2
  <2>6. CASE fifth = "EN" /\ prior.w7 = "L"
    <3>1. written = "L"
      BY <2>6
    <3>2. QED
      BY <2>4, <3>1
  <2>7. CASE fifth \notin {"ET", "CS", "ES"} /\ ~(fifth = "EN" /\ prior.w7 = "L")
    BY <2>3, <2>7 DEF AfterW7
  <2>8. QED
    BY <2>5, <2>6, <2>7
<1> HIDE DEF own, next, fourth, fifth, written
<1>5. types \in [0..Past -> {TypeOf(unit) : unit \in Units} \cup {"Nil"}]
  BY DEF IInv, TypeOK
<1>6. \A l \in 0..Past : types'[l] = IF l = link THEN written ELSE types[l]
  BY <1>0, <1>5
<1>7. TypesInv'
  <2>1. \A l \in Chain : types[l] \in AfterW3 /\ (Behind(link, l) => types[l] \in AfterW7)
    BY <1>0 DEF IInv, TypesInv
  <2>2. ASSUME NEW l \in Chain
        PROVE  types'[l] \in AfterW3 /\ (Behind(links[link], l) => types'[l] \in AfterW7)
    <3>1. l \in 0..Past /\ l \in Nat /\ link \in Nat
      BY <1>2
    <3>2. AfterW7 \subseteq AfterW3
      BY DEF AfterW7
    <3>3. CASE l = link
      BY <1>4, <1>6, <3>1, <3>2, <3>3
    <3>4. CASE l # link
      <4>1. types'[l] = types[l]
        BY <1>6, <3>1, <3>4
      <4>2. Behind(links[link], l) => Behind(link, l)
        BY <1>2, <3>1, <3>4, BehindNext
      <4>3. QED
        BY <2>1, <4>1, <4>2
    <3>5. QED
      BY <3>3, <3>4
  <2>3. \A l \in Chain' : types'[l] \in AfterW3 /\ (Behind(link', l) => types'[l] \in AfterW7)
    BY <1>3, <2>2
  <2>4. QED
    BY <1>0, <2>3 DEF TypesInv
<1>8. PriorInv'
  <2>1. neutralLink = None
    BY <1>0 DEF IInv, PriorInv
  <2>2. QED
    BY <1>0, <1>3, <2>1 DEF PriorInv
<1>9. TypeOK'
  <2>1. TypesTyped(types')
    <3>1. types' = [l \in 0..Past |-> types'[l]]
      BY <1>0, <1>5
    <3>2. \A l \in 0..Past : types'[l] = types[l] \/ (l \in Own /\ types'[l] \in Marked)
      BY <1>2, <1>4, <1>6 DEF AfterW7, AfterW3, Based
    <3>3. QED
      BY <3>1, <3>2, TypesWritten
  <2>2. phase' \in Walks
    BY <1>0 DEF Walks
  <2>3. QED
    BY <1>0, <1>3, <2>1, <2>2, TypeOKNext DEF IInv, TypeOK, queueVars
<1>10. LevelsInv' /\ QueueInv' /\ QueueAccounts'
  BY <1>0, <1>3, LevelsStay, QueueStays DEF Walks
<1>11. QED
  BY <1>3, <1>7, <1>8, <1>9, <1>10 DEF IInv

(* The second walk begins where the first one has left no mark.            *)
LEMMA StepBeginNumbers == ASSUME IInv, BeginNumbers PROVE IInv'
<1>0. /\ phase = "weak" /\ phase' = "numbers" /\ link = 0 /\ link' = links[0] /\ run' = run
      /\ UNCHANGED <<links, types, single, levels, neutralLink, lastLink, queueVars>>
      /\ priorLink' = 0
  BY DEF BeginNumbers, Walked, chainVars
<1>1. phase \in Walks /\ phase' \in Walks
  BY <1>0 DEF Walks
<1>2. /\ Chain \in SUBSET Nat /\ 0 \notin Chain /\ Chain \subseteq Own
      /\ links[0] \in Chain \cup {0} /\ links[0] \in 0..Past
  BY <1>1, AtLink
<1>3. Text' = Text /\ Past' = Past /\ Own' = Own /\ Chain' = Chain
  BY <1>0, RunStays
<1>4. ChainInv'
  <2>1. Ascends(links, Past) /\ Spans(links, Chain)
    BY <1>1 DEF IInv, ChainInv
  <2>2. QED
    BY <1>0, <1>1, <1>2, <1>3, <2>1 DEF ChainInv
<1>5. TypesInv'
  <2>1. \A l \in Chain : types[l] \in AfterW3
    BY <1>0 DEF IInv, TypesInv, Behind
  <2>2. ASSUME NEW l \in Chain PROVE ~Behind(links[0], l)
    <3>1. IsNext(Chain, 0, links[0])
      BY <1>1 DEF IInv, ChainInv, Spans
    <3>2. l \in Nat /\ l # 0 /\ links[0] \in Nat
      BY <1>2
    <3>3. QED
      BY <3>1, <3>2 DEF Behind, IsNext
  <2>3. QED
    BY <1>0, <1>3, <2>1, <2>2 DEF TypesInv
<1>6. PriorInv'
  BY <1>0 DEF IInv, PriorInv
<1>7. TypeOK'
  <2>1. TypesTyped(types') /\ 0 \in 0..Past
    BY <1>0, TypesNow
  <2>2. QED
    BY <1>0, <1>1, <1>2, <2>1, TypeOKNext DEF IInv, TypeOK, queueVars
<1>8. LevelsInv' /\ QueueInv' /\ QueueAccounts'
  BY <1>0, LevelsStay, QueueStays DEF Walks
<1>9. QED
  BY <1>4, <1>5, <1>6, <1>7, <1>8 DEF IInv

(* BracketQueueReset: no element, and counters of none.                    *)
LEMMA StepBeginBrackets == ASSUME IInv, BeginBrackets PROVE IInv'
<1>0. /\ phase = "numbers" /\ phase' = "brackets" /\ link = 0 /\ link' = links[0] /\ run' = run
      /\ UNCHANGED <<links, types, single, levels, priorLink, prior, neutralLink>>
      /\ lastLink' = priorLink
      /\ queue' = <<>> /\ firstOpenPair' = 0 /\ front' = 0 /\ actualCount' = 0 /\ pairCount' = 0
      /\ priorStrongLink' = 0
  BY DEF BeginBrackets, Walked, chainVars, None
<1>1. phase \in Walks /\ phase' \in Walks \ {"weak", "numbers"}
  BY <1>0 DEF Walks
<1>2. links[0] \in Chain \cup {0} /\ links[0] \in 0..Past
  BY <1>1, AtLink
<1>3. ChainInv' /\ Chain' = Chain
  BY <1>0, <1>1, <1>2, ChainStays
<1>4. TypesInv'
  <2>1. \A l \in Chain : types[l] \in AfterW7
    BY <1>0 DEF IInv, TypesInv, Behind
  <2>2. QED
    BY <1>0, <1>3, <2>1 DEF TypesInv
<1>5. PriorInv'
  BY <1>0 DEF IInv, PriorInv
<1>6. Len(queue') = 0 /\ queue' \in Seq(Elements)
  BY <1>0, EmptySeq
<1>7. TypeOK'
  <2>1. TypesTyped(types') /\ 0 \in 0..Past /\ {0} \subseteq 0..Len(queue') /\ 0 \in Nat
    BY <1>0, <1>6, TypesNow
  <2>2. QED
    BY <1>0, <1>1, <1>2, <2>1, TypeOKNext DEF IInv, TypeOK
<1>8. LevelsInv'
  BY <1>0, LevelsStay DEF Walks
<1>9. QueueInv'
  <2>1. Elements' = Elements
    BY <1>0, RunStays
  <2>2. QED
    BY <1>0, <1>6, <2>1 DEF QueueInv, None
<1>10. QueueAccounts'
  <2>1. 1..Len(queue') = {}
    BY <1>6
  <2>2. Cardinality({}) = 0 /\ MaxOpenPairs \in Nat
    BY FS_EmptySet, InputsAssumption
  <2>3. OpenPairCount' = 0
    BY <1>0 DEF OpenPairCount
  <2>4. /\ {k \in 1..Len(queue') : IsOpen(queue[k])'} = {}
        /\ {k \in 1..Len(queue') : IsPair(queue[k])'} = {}
    BY <2>1
  <2>5. QED
    BY <1>0, <2>2, <2>3, <2>4 DEF QueueAccounts, None
<1>11. QED
  BY <1>3, <1>4, <1>5, <1>7, <1>8, <1>9, <1>10 DEF IInv

-----------------------------------------------------------------------------
(* The bracket queue.                                                      *)

(* QueueAccounts, with names for the open pairs and the pairs.             *)
Accounts ==
  /\ phase = "brackets" =>
       /\ OpenPairCount = Cardinality(OpenAt) /\ OpenPairCount <= MaxOpenPairs
       /\ pairCount = Cardinality(PairsAt)
       /\ firstOpenPair = IF OpenAt = {} THEN None ELSE Min(OpenAt)
  /\ phase = "pairs" =>
       /\ pairCount = Cardinality({k \in PairsAt : front # None /\ k >= front})
       /\ pairCount > 0 => {queue[front].priorStrong, queue[front].opening} \subseteq Chain \cup {None}

(* It is what QueueAccounts says.                                          *)
LEMMA AccountsAre == (QueueAccounts <=> Accounts) /\ (QueueAccounts' <=> Accounts')
  BY DEF QueueAccounts, Accounts, OpenAt, PairsAt

(* What the elements of the queue are.                                     *)
LEMMA QueueNow ==
  ASSUME NEW q \in Seq(Elements)
  PROVE  /\ Len(q) \in Nat /\ DOMAIN q = 1..Len(q) /\ \A k \in 1..Len(q) : q[k] \in Elements
         /\ \A S \in SUBSET (1..Len(q)) :
              /\ IsFiniteSet(S) /\ Cardinality(S) \in Nat
              /\ S \in SUBSET Nat /\ 0 \notin S /\ (S = {} <=> Cardinality(S) = 0)
<1>1. Len(q) \in Nat /\ DOMAIN q = 1..Len(q) /\ \A k \in 1..Len(q) : q[k] \in Elements
  BY LenProperties
<1>2. IsFiniteSet(1..Len(q))
  BY <1>1, FS_Interval
<1>3. \A k \in 1..Len(q) : k \in Nat /\ k # 0
  BY <1>1
<1>4. ASSUME NEW S \in SUBSET (1..Len(q))
      PROVE  /\ IsFiniteSet(S) /\ Cardinality(S) \in Nat
             /\ S \in SUBSET Nat /\ 0 \notin S /\ (S = {} <=> Cardinality(S) = 0)
  <2>1. IsFiniteSet(S)
    BY <1>2, FS_Subset
  <2>2. Cardinality(S) \in Nat
    BY <2>1, FS_CardinalityType
  <2>3. S = {} <=> Cardinality(S) = 0
    BY <2>1, FS_EmptySet
  <2>4. QED
    BY <1>3, <2>1, <2>2, <2>3
<1>5. QED
  BY <1>1, <1>4

(* f is the first of S, or 0 if there is none.                             *)
IsFirst(S, f) == (S = {} /\ f = 0) \/ (f \in S /\ \A k \in S : f <= k)

(* The open pair that firstOpenPair must be at.                            *)
LEMMA FirstIs ==
  ASSUME NEW S \in SUBSET Nat, NEW f
  PROVE  (f = IF S = {} THEN None ELSE Min(S)) <=> IsFirst(S, f)
<1>1. CASE S = {}
  BY <1>1 DEF IsFirst, None
<1>2. CASE S # {}
  <2>1. PICK m \in Nat : m = Min(S) /\ m \in S /\ \A k \in S : m <= k
    BY <1>2, MinIs
  <2>2. IsFirst(S, f) => f = m
    <3>1. SUFFICES ASSUME IsFirst(S, f) PROVE f = m
      OBVIOUS
    <3>2. f \in S /\ \A k \in S : f <= k
      BY <1>2, <3>1 DEF IsFirst
    <3>3. f \in Nat /\ f <= m /\ m <= f
      BY <2>1, <3>2
    <3>4. QED
      BY <3>3
  <2>3. f = m => IsFirst(S, f)
    BY <2>1 DEF IsFirst
  <2>4. QED
    BY <1>2, <2>1, <2>2, <2>3
<1>3. QED
  BY <1>1, <1>2

(* The walk of rule N0 leaves all but the queue and the link alone.        *)
LEMMA BracketsGoOn ==
  ASSUME IInv, phase = "brackets", phase' = phase, link # 0, link' = links[link],
         run' = run, UNCHANGED chainVars, UNCHANGED <<priorLink, prior, neutralLink, lastLink>>,
         priorStrongLink' \in Chain \cup {0},
         {firstOpenPair', front'} \subseteq 0..Len(queue'),
         actualCount' \in Nat, pairCount' \in Nat,
         queue' \in Seq(Elements),
         \A k \in 1..Len(queue') :
           {queue'[k].priorStrong, queue'[k].opening, queue'[k].closing} \subseteq Chain \cup {0},
         Accounts'
  PROVE  IInv'
<1>0. UNCHANGED <<links, types, single, levels, neutralLink, priorLink, lastLink>>
  BY DEF chainVars
<1>1. phase \in Walks /\ phase' \in Walks \ {"weak", "numbers"}
  BY DEF Walks
<1>2. links[link] \in Chain \cup {0} /\ links[link] \in 0..Past /\ Chain \in SUBSET (0..Past)
  BY <1>1, AtLink
<1>3. ChainInv' /\ Chain' = Chain
  BY <1>0, <1>1, <1>2, ChainStays
<1>4. TypesInv' /\ PriorInv'
  <2>1. \A l \in Chain : types[l] \in AfterW7
    BY DEF IInv, TypesInv
  <2>2. neutralLink = None
    BY DEF IInv, PriorInv
  <2>3. QED
    BY <1>0, <1>3, <2>1, <2>2 DEF TypesInv, PriorInv
<1>5. LevelsInv'
  BY <1>0, LevelsStay DEF Walks
<1>6. TypeOK'
  <2>1. TypesTyped(types') /\ 0 \in 0..Past
    BY <1>0, TypesNow
  <2>2. priorStrongLink' \in 0..Past
    BY <1>2, <2>1
  <2>3. QED
    BY <1>0, <1>1, <1>2, <2>1, <2>2, TypeOKNext DEF IInv, TypeOK
<1>7. QueueInv'
  <2>1. Elements' = Elements
    BY RunStays
  <2>2. QED
    BY <1>3, <2>1 DEF QueueInv, None
<1>8. QED
  BY <1>3, <1>4, <1>5, <1>6, <1>7, AccountsAre DEF IInv

(* The state in which rule N0 finds the queue.                             *)
LEMMA InTheBrackets ==
  ASSUME IInv, phase = "brackets"
  PROVE  /\ queue \in Seq(Elements) /\ Len(queue) \in Nat
         /\ \A k \in 1..Len(queue) :
              /\ queue[k] \in Elements
              /\ {queue[k].priorStrong, queue[k].opening, queue[k].closing} \subseteq Chain \cup {0}
         /\ priorStrongLink \in Chain \cup {0} /\ Chain \cup {0} \subseteq 0..Past
         /\ Cardinality(OpenAt) \in Nat /\ Cardinality(PairsAt) \in Nat
         /\ IsFiniteSet(OpenAt) /\ IsFiniteSet(PairsAt)
         /\ OpenAt \in SUBSET (1..Len(queue)) /\ PairsAt \in SUBSET (1..Len(queue))
         /\ actualCount = pairCount + Cardinality(OpenAt) /\ actualCount \in Nat
         /\ pairCount = Cardinality(PairsAt) /\ pairCount \in Nat
         /\ OpenPairCount = Cardinality(OpenAt) /\ OpenPairCount <= MaxOpenPairs
         /\ IsFirst(OpenAt, firstOpenPair)
         /\ {firstOpenPair, front} \subseteq 0..Len(queue)
         /\ MaxOpenPairs \in Nat
<1>1. /\ queue \in Seq(Elements) /\ priorStrongLink \in Chain \cup {0}
      /\ \A k \in 1..Len(queue) :
           {queue[k].priorStrong, queue[k].opening, queue[k].closing} \subseteq Chain \cup {0}
  BY DEF IInv, QueueInv, None
<1>2. OpenAt \in SUBSET (1..Len(queue)) /\ PairsAt \in SUBSET (1..Len(queue))
  BY DEF OpenAt, PairsAt
<1>3. /\ Len(queue) \in Nat /\ \A k \in 1..Len(queue) : queue[k] \in Elements
      /\ Cardinality(OpenAt) \in Nat /\ Cardinality(PairsAt) \in Nat
      /\ IsFiniteSet(OpenAt) /\ IsFiniteSet(PairsAt) /\ OpenAt \in SUBSET Nat
  BY <1>1, <1>2, QueueNow
<1>4. /\ Accounts /\ actualCount \in Nat
      /\ pairCount \in Nat /\ {firstOpenPair, front} \subseteq 0..Len(queue)
  BY AccountsAre DEF IInv, TypeOK
<1>5. /\ OpenPairCount = Cardinality(OpenAt) /\ OpenPairCount <= MaxOpenPairs
      /\ pairCount = Cardinality(PairsAt)
      /\ firstOpenPair = IF OpenAt = {} THEN None ELSE Min(OpenAt)
  BY <1>4 DEF Accounts
<1>6. IsFirst(OpenAt, firstOpenPair)
  BY <1>3, <1>5, FirstIs
<1>7. actualCount = pairCount + Cardinality(OpenAt)
  BY <1>3, <1>4, <1>5 DEF OpenPairCount
<1>8. Chain \cup {0} \subseteq 0..Past
  <2>1. phase \in Walks
    BY DEF Walks
  <2>2. 0 \in 0..Past
    BY TypesNow
  <2>3. QED
    BY <2>1, <2>2, AtLink
<1>9. QED
  BY <1>1, <1>2, <1>3, <1>4, <1>5, <1>6, <1>7, <1>8, InputsAssumption

(* The accounts after a step, from the new sets of open pairs and pairs.   *)
LEMMA AccountsKept ==
  ASSUME phase' = "brackets", queue' \in Seq(Elements),
         NEW O, NEW P, OpenAt' = O, PairsAt' = P,
         actualCount' - pairCount' = Cardinality(O), Cardinality(O) <= MaxOpenPairs,
         pairCount' = Cardinality(P), IsFirst(O, firstOpenPair')
  PROVE  Accounts'
<1>1. OpenAt' \in SUBSET (1..Len(queue'))
  BY DEF OpenAt
<1>2. O \in SUBSET Nat
  BY <1>1, QueueNow
<1>3. firstOpenPair' = IF O = {} THEN None ELSE Min(O)
  BY <1>2, FirstIs
<1>4. QED
  BY <1>3 DEF Accounts, OpenPairCount, None

(* BracketQueueEnqueue: one more open pair, behind all others.             *)
LEMMA StepOpenPair == ASSUME IInv, OpenPair PROVE IInv'
<1>0. /\ phase = "brackets" /\ phase' = phase /\ link # 0 /\ link' = links[link] /\ run' = run
      /\ UNCHANGED chainVars /\ UNCHANGED <<priorLink, prior, neutralLink, lastLink>>
      /\ Text[link] \in Openings
      /\ OpenPairCount < MaxOpenPairs
      /\ queue' = Append(queue, Element(link))
      /\ actualCount' = actualCount + 1
      /\ firstOpenPair' = IF firstOpenPair = 0 THEN Len(queue) + 1 ELSE firstOpenPair
      /\ front' = front /\ pairCount' = pairCount /\ priorStrongLink' = priorStrongLink
  BY DEF OpenPair, InBrackets, At, BracketsKeep, None
<1>1. /\ queue \in Seq(Elements) /\ Len(queue) \in Nat
      /\ \A k \in 1..Len(queue) :
           /\ queue[k] \in Elements
           /\ {queue[k].priorStrong, queue[k].opening, queue[k].closing} \subseteq Chain \cup {0}
      /\ priorStrongLink \in Chain \cup {0} /\ Chain \cup {0} \subseteq 0..Past
      /\ Cardinality(OpenAt) \in Nat /\ Cardinality(PairsAt) \in Nat /\ IsFiniteSet(OpenAt)
      /\ OpenAt \in SUBSET (1..Len(queue)) /\ PairsAt \in SUBSET (1..Len(queue))
      /\ actualCount = pairCount + Cardinality(OpenAt) /\ actualCount \in Nat
      /\ pairCount = Cardinality(PairsAt) /\ pairCount \in Nat
      /\ OpenPairCount = Cardinality(OpenAt)
      /\ IsFirst(OpenAt, firstOpenPair)
      /\ {firstOpenPair, front} \subseteq 0..Len(queue)
      /\ MaxOpenPairs \in Nat
  BY <1>0, InTheBrackets
<1>2. link \in Chain
  BY <1>0, AtLink DEF Walks
<1> DEFINE e == Element(link)
<1>3. /\ e \in Elements /\ IsOpen(e) /\ ~IsPair(e)
      /\ {e.priorStrong, e.opening, e.closing} \subseteq Chain \cup {0}
  <2>1. Text[link] \in Units
    BY <1>0 DEF Units, Brackets
  <2>2. priorStrongLink \in 0..Past /\ link \in 0..Past /\ 0 \in 0..Past
    BY <1>1, <1>2
  <2>3. e \in Elements
    BY <2>1, <2>2 DEF Element, Elements, None
  <2>4. e.priorStrong = priorStrongLink /\ e.opening = link /\ e.closing = 0
    BY DEF Element, None
  <2>5. QED
    BY <1>0, <1>1, <1>2, <2>3, <2>4 DEF IsOpen, IsPair, None
<1> HIDE DEF e
<1> PICK n \in Nat : n = Len(queue)
  BY <1>1
<1>4. /\ queue' \in Seq(Elements) /\ Len(queue') = n + 1
      /\ \A k \in 1..n : queue'[k] = queue[k]
      /\ queue'[n + 1] = e
  BY <1>0, <1>1, <1>3, AppendProperties DEF e
<1>5. \A k \in 1..(n + 1) : k \in 1..n \/ k = n + 1
  OBVIOUS
<1>6. n + 1 \notin 1..n /\ n + 1 \in 1..(n + 1) /\ 1..n \subseteq 1..(n + 1)
  OBVIOUS
<1>7. OpenAt' = OpenAt \cup {n + 1}
  <2>1. OpenAt' = {k \in 1..(n + 1) : IsOpen(queue'[k])}
    BY <1>4 DEF OpenAt, IsOpen
  <2>2. OpenAt = {k \in 1..n : IsOpen(queue[k])}
    BY DEF OpenAt
  <2>3. QED
    BY <1>3, <1>4, <1>5, <1>6, <2>1, <2>2
<1>8. PairsAt' = PairsAt
  <2>1. PairsAt' = {k \in 1..(n + 1) : IsPair(queue'[k])}
    BY <1>4 DEF PairsAt, IsPair
  <2>2. PairsAt = {k \in 1..n : IsPair(queue[k])}
    BY DEF PairsAt
  <2>3. QED
    BY <1>3, <1>4, <1>5, <1>6, <2>1, <2>2
<1>9. Cardinality(OpenAt \cup {n + 1}) = Cardinality(OpenAt) + 1
  <2>1. n + 1 \notin OpenAt
    BY <1>1, <1>6
  <2>2. QED
    BY <1>1, <2>1, FS_AddElement
<1>10. IsFirst(OpenAt \cup {n + 1}, firstOpenPair')
  <2>1. CASE OpenAt = {}
    <3>1. firstOpenPair' = n + 1
      BY <1>0, <1>1, <2>1 DEF IsFirst
    <3>2. QED
      BY <2>1, <3>1 DEF IsFirst
  <2>2. CASE OpenAt # {}
    <3>1. firstOpenPair \in OpenAt /\ \A k \in OpenAt : firstOpenPair <= k
      BY <1>1, <2>2 DEF IsFirst
    <3>2. firstOpenPair \in 1..n
      BY <1>1, <3>1
    <3>3. firstOpenPair' = firstOpenPair /\ firstOpenPair <= n + 1
      BY <1>0, <3>2
    <3>4. QED
      BY <3>1, <3>3 DEF IsFirst
  <2>3. QED
    BY <2>1, <2>2
<1>11. Accounts'
  <2>1. /\ actualCount' - pairCount' = Cardinality(OpenAt) + 1
        /\ Cardinality(OpenAt) + 1 <= MaxOpenPairs
    <3>1. PICK c \in Nat : c = Cardinality(OpenAt)
      BY <1>1
    <3>2. c < MaxOpenPairs /\ MaxOpenPairs \in Nat
      BY <1>0, <1>1, <3>1
    <3>3. actualCount = pairCount + c /\ pairCount \in Nat
      BY <1>1, <3>1
    <3>4. actualCount' = actualCount + 1 /\ pairCount' = pairCount
      BY <1>0
    <3>5. actualCount' - pairCount' = c + 1
      BY <3>3, <3>4
    <3>6. c + 1 <= MaxOpenPairs
      BY <3>2
    <3>7. QED
      BY <3>1, <3>5, <3>6
  <2>2. QED
    BY <1>0, <1>1, <1>4, <1>7, <1>8, <1>9, <1>10, <2>1, AccountsKept
<1>12. /\ /\ {firstOpenPair', front'} \subseteq 0..Len(queue') /\ actualCount' \in Nat
       /\ pairCount' \in Nat
  <2>1. firstOpenPair \in 0..n /\ front \in 0..n
    BY <1>1
  <2>2. firstOpenPair' \in 0..(n + 1) /\ front' \in 0..(n + 1)
    BY <1>0, <2>1
  <2>3. actualCount' \in Nat /\ pairCount' \in Nat
    <3>1. PICK a \in Nat : a = actualCount
      BY <1>1
    <3>2. actualCount' = a + 1
      BY <1>0, <3>1
    <3>3. pairCount' \in Nat
      BY <1>0, <1>1
    <3>4. QED
      BY <3>2, <3>3
  <2>4. QED
    BY <1>4, <2>2, <2>3
<1>13. \A k \in 1..Len(queue') :
         {queue'[k].priorStrong, queue'[k].opening, queue'[k].closing} \subseteq Chain \cup {0}
  <2>1. ASSUME NEW k \in 1..(n + 1)
        PROVE {queue'[k].priorStrong, queue'[k].opening, queue'[k].closing} \subseteq Chain \cup {0}
    <3>1. CASE k \in 1..n
      BY <1>1, <1>4, <3>1
    <3>2. CASE k = n + 1
      BY <1>3, <1>4, <3>2
    <3>3. QED
      BY <1>5, <3>1, <3>2
  <2>2. QED
    BY <1>4, <2>1
<1>14. QED
  BY <1>0, <1>1, <1>4, <1>11, <1>12, <1>13, BracketsGoOn

(* A strong type is noted in the open pairs: which are open stays.         *)
LEMMA StepAssignInnerStrongType == ASSUME IInv, AssignInnerStrongType PROVE IInv'
<1> DEFINE type == IF types[link] = "L" THEN "L" ELSE "R"
           Takes(k) == /\ firstOpenPair # None /\ k >= firstOpenPair
                       /\ queue[k].closing = None /\ queue[k].inner # Embedding
<1>0. /\ phase = "brackets" /\ phase' = phase /\ link # 0 /\ link' = links[link] /\ run' = run
      /\ UNCHANGED chainVars /\ UNCHANGED <<priorLink, prior, neutralLink, lastLink>>
      /\ queue' = [k \in 1..Len(queue) |->
                     IF Takes(k) THEN [queue[k] EXCEPT !.inner = type] ELSE queue[k]]
      /\ priorStrongLink' = link
      /\ UNCHANGED <<firstOpenPair, front, actualCount, pairCount>>
  BY DEF AssignInnerStrongType, At, BracketsKeep
<1>1. /\ queue \in Seq(Elements) /\ Len(queue) \in Nat
      /\ \A k \in 1..Len(queue) :
           /\ queue[k] \in Elements
           /\ {queue[k].priorStrong, queue[k].opening, queue[k].closing} \subseteq Chain \cup {0}
      /\ priorStrongLink \in Chain \cup {0} /\ Chain \cup {0} \subseteq 0..Past
      /\ Cardinality(OpenAt) \in Nat /\ Cardinality(PairsAt) \in Nat /\ IsFiniteSet(OpenAt)
      /\ OpenAt \in SUBSET (1..Len(queue)) /\ PairsAt \in SUBSET (1..Len(queue))
      /\ actualCount = pairCount + Cardinality(OpenAt) /\ actualCount \in Nat
      /\ pairCount = Cardinality(PairsAt) /\ pairCount \in Nat
      /\ OpenPairCount = Cardinality(OpenAt) /\ OpenPairCount <= MaxOpenPairs
      /\ IsFirst(OpenAt, firstOpenPair)
      /\ {firstOpenPair, front} \subseteq 0..Len(queue)
  BY <1>0, InTheBrackets
<1>2. link \in Chain
  BY <1>0, AtLink DEF Walks
<1>3. type \in {"Nil", "L", "R"}
  OBVIOUS
<1> HIDE DEF type, Takes
<1>4. ASSUME NEW k \in 1..Len(queue)
      PROVE  /\ queue'[k] \in Elements
             /\ queue'[k].priorStrong = queue[k].priorStrong
             /\ queue'[k].opening = queue[k].opening /\ queue'[k].closing = queue[k].closing
  <2>1. queue'[k] = IF Takes(k) THEN [queue[k] EXCEPT !.inner = type] ELSE queue[k]
    BY <1>0
  <2>2. queue[k] \in Elements
    BY <1>1
  <2>3. QED
    BY <1>3, <2>1, <2>2 DEF Elements
<1>5. queue' \in Seq(Elements) /\ Len(queue') = Len(queue)
  BY <1>0, <1>1, <1>4
<1>6. OpenAt' = OpenAt /\ PairsAt' = PairsAt
  <2>1. /\ OpenAt' = {k \in 1..Len(queue) : IsOpen(queue'[k])}
        /\ PairsAt' = {k \in 1..Len(queue) : IsPair(queue'[k])}
    BY <1>5 DEF OpenAt, PairsAt, IsOpen, IsPair
  <2>2. \A k \in 1..Len(queue) : (IsOpen(queue'[k]) <=> IsOpen(queue[k])) /\ (IsPair(queue'[k]) <=> IsPair(queue[k]))
    BY <1>4 DEF IsOpen, IsPair
  <2>3. QED
    BY <2>1, <2>2 DEF OpenAt, PairsAt
<1>7. Accounts'
  <2>1. actualCount' - pairCount' = Cardinality(OpenAt) /\ Cardinality(OpenAt) <= MaxOpenPairs
    BY <1>0, <1>1
  <2>2. QED
    BY <1>0, <1>1, <1>5, <1>6, <2>1, AccountsKept
<1>8. \A k \in 1..Len(queue') :
        {queue'[k].priorStrong, queue'[k].opening, queue'[k].closing} \subseteq Chain \cup {0}
  BY <1>1, <1>4, <1>5
<1>9. QED
  BY <1>0, <1>1, <1>2, <1>5, <1>7, <1>8, BracketsGoOn

(* A link that rule N0 has nothing to do with.                             *)
LEMMA StepSkipOther == ASSUME IInv, SkipOther PROVE IInv'
<1>0. /\ phase = "brackets" /\ phase' = phase /\ link # 0 /\ link' = links[link] /\ run' = run
      /\ UNCHANGED chainVars /\ UNCHANGED <<priorLink, prior, neutralLink, lastLink>>
      /\ UNCHANGED <<queue, priorStrongLink, firstOpenPair, front, actualCount, pairCount>>
  BY DEF SkipOther, At, BracketsKeep, queueVars
<1>1. /\ queue \in Seq(Elements)
      /\ \A k \in 1..Len(queue) :
           {queue[k].priorStrong, queue[k].opening, queue[k].closing} \subseteq Chain \cup {0}
      /\ priorStrongLink \in Chain \cup {0}
      /\ actualCount \in Nat /\ pairCount \in Nat
      /\ {firstOpenPair, front} \subseteq 0..Len(queue)
  BY <1>0, InTheBrackets
<1>2. Accounts'
  <2>1. Accounts /\ phase # "pairs"
    BY <1>0, AccountsAre DEF IInv
  <2>2. QED
    BY <1>0, <2>1 DEF Accounts, OpenPairCount, OpenAt, PairsAt, IsOpen, IsPair
<1>3. QED
  BY <1>0, <1>1, <1>2, BracketsGoOn

(* A pair is closed and those inside it are open no more: the counters follow.*)
LEMMA StepClosePair == ASSUME IInv, ClosePair PROVE IInv'
<1>0. /\ phase = "brackets" /\ phase' = phase /\ link # 0 /\ link' = links[link] /\ run' = run
      /\ UNCHANGED chainVars /\ UNCHANGED <<priorLink, prior, neutralLink, lastLink>>
      /\ front' = front /\ priorStrongLink' = priorStrongLink
  BY DEF ClosePair, InBrackets, At, BracketsKeep
<1>1. /\ queue \in Seq(Elements) /\ Len(queue) \in Nat
      /\ \A k \in 1..Len(queue) :
           /\ queue[k] \in Elements
           /\ {queue[k].priorStrong, queue[k].opening, queue[k].closing} \subseteq Chain \cup {0}
      /\ priorStrongLink \in Chain \cup {0} /\ Chain \cup {0} \subseteq 0..Past
      /\ Cardinality(OpenAt) \in Nat /\ Cardinality(PairsAt) \in Nat
      /\ IsFiniteSet(OpenAt) /\ IsFiniteSet(PairsAt)
      /\ OpenAt \in SUBSET (1..Len(queue)) /\ PairsAt \in SUBSET (1..Len(queue))
      /\ actualCount = pairCount + Cardinality(OpenAt) /\ actualCount \in Nat
      /\ pairCount = Cardinality(PairsAt) /\ pairCount \in Nat
      /\ OpenPairCount = Cardinality(OpenAt) /\ OpenPairCount <= MaxOpenPairs
      /\ IsFirst(OpenAt, firstOpenPair)
      /\ {firstOpenPair, front} \subseteq 0..Len(queue)
      /\ MaxOpenPairs \in Nat
  BY <1>0, InTheBrackets
<1>2. CASE Matching = {} /\ UNCHANGED <<queue, actualCount, firstOpenPair, pairCount>>
  <2>1. Accounts /\ phase # "pairs"
    BY <1>0, AccountsAre DEF IInv
  <2>2. Accounts'
    BY <1>0, <1>2, <2>1 DEF Accounts, OpenPairCount, OpenAt, PairsAt, IsOpen, IsPair
  <2>3. /\ queue' \in Seq(Elements) /\ actualCount' \in Nat /\ pairCount' \in Nat
        /\ {firstOpenPair', front'} \subseteq 0..Len(queue')
    BY <1>0, <1>1, <1>2
  <2>4. \A k \in 1..Len(queue') :
          {queue'[k].priorStrong, queue'[k].opening, queue'[k].closing} \subseteq Chain \cup {0}
    BY <1>1, <1>2
  <2>5. QED
    BY <1>0, <1>1, <2>2, <2>3, <2>4, BracketsGoOn
<1> DEFINE closed  == Max(Matching)
           invalid == {k \in (closed + 1)..Len(queue) : IsOpen(queue[k])}
<1>3. CASE /\ Matching # {}
           /\ queue' = [k \in 1..Len(queue) |->
                          IF k = closed THEN [queue[k] EXCEPT !.closing = link]
                          ELSE IF k \in invalid THEN [queue[k] EXCEPT !.opening = None]
                          ELSE queue[k]]
           /\ actualCount' = CountWithout(invalid)
           /\ firstOpenPair' = IF closed = firstOpenPair THEN None ELSE firstOpenPair
           /\ pairCount' = pairCount + 1
  <2> PICK n \in Nat : n = Len(queue)
    BY <1>1
  <2>1. link \in Chain /\ link \in 0..Past
    BY <1>0, AtLink DEF Walks
  <2>2. closed \in 1..n /\ IsOpen(queue[closed]) /\ firstOpenPair # 0 /\ firstOpenPair <= closed
    <3>1. firstOpenPair # 0 /\ firstOpenPair \in 1..n
      BY <1>1, <1>3 DEF Matching, None
    <3>2. \A k \in Matching : k \in firstOpenPair..n /\ IsOpen(queue[k])
      BY DEF Matching
    <3>3. Matching \in SUBSET (0..n)
      <4>1. \A k \in firstOpenPair..n : k \in 0..n
        BY <3>1
      <4>2. QED
        BY <3>2, <4>1
    <3>4. closed \in Matching
      BY <1>3, <3>3, MaxIs
    <3>5. QED
      BY <3>1, <3>2, <3>4
  <2>3. invalid = {k \in OpenAt : closed < k}
    <3>1. \A k : k \in (closed + 1)..n <=> k \in 1..n /\ closed < k
      BY <2>2
    <3>2. QED
      BY <3>1 DEF OpenAt
  <2> HIDE DEF closed, invalid
  <2>4. closed \in OpenAt /\ closed \notin invalid /\ closed \notin PairsAt
    <3>1. closed \in OpenAt
      BY <2>2 DEF OpenAt
    <3>2. ~IsPair(queue[closed])
      BY <2>2 DEF IsOpen, IsPair
    <3>3. QED
      BY <2>2, <2>3, <3>1, <3>2 DEF PairsAt
  <2>5. ASSUME NEW k \in 1..n
        PROVE  /\ queue'[k] \in Elements /\ queue'[k].priorStrong = queue[k].priorStrong
               /\ queue'[k].opening = IF k \in invalid THEN 0 ELSE queue[k].opening
               /\ queue'[k].closing = IF k = closed THEN link ELSE queue[k].closing
    <3>1. queue'[k] = IF k = closed THEN [queue[k] EXCEPT !.closing = link]
                      ELSE IF k \in invalid THEN [queue[k] EXCEPT !.opening = None]
                      ELSE queue[k]
      BY <1>3
    <3>2. queue[k] \in Elements /\ 0 \in 0..Past
      BY <1>1
    <3>3. CASE k = closed
      <4>1. queue'[k] = [queue[k] EXCEPT !.closing = link] /\ k \notin invalid
        BY <2>4, <3>1, <3>3
      <4>2. QED
        BY <2>1, <3>2, <3>3, <4>1 DEF Elements
    <3>4. CASE k # closed /\ k \in invalid
      <4>1. queue'[k] = [queue[k] EXCEPT !.opening = 0]
        BY <3>1, <3>4 DEF None
      <4>2. QED
        BY <3>2, <3>4, <4>1 DEF Elements
    <3>5. CASE k # closed /\ k \notin invalid
      BY <3>1, <3>2, <3>5
    <3>6. QED
      BY <3>3, <3>4, <3>5
  <2>6. queue' \in Seq(Elements) /\ Len(queue') = n
    BY <1>3, <2>5
  <2>7. ASSUME NEW k \in 1..n
        PROVE  /\ IsOpen(queue'[k]) <=> k \in OpenAt \ (invalid \cup {closed})
               /\ IsPair(queue'[k]) <=> k \in PairsAt \cup {closed}
    <3>1. (k \in OpenAt <=> IsOpen(queue[k])) /\ (k \in PairsAt <=> IsPair(queue[k]))
      BY DEF OpenAt, PairsAt
    <3>2. CASE k = closed
      <4>1. queue'[k].opening = queue[k].opening /\ queue'[k].closing = link
        BY <2>4, <2>5, <3>2
      <4>2. IsPair(queue'[k]) /\ ~IsOpen(queue'[k])
        BY <1>0, <2>2, <3>2, <4>1 DEF IsOpen, IsPair, None
      <4>3. QED
        BY <3>2, <4>2
    <3>3. CASE k # closed /\ k \in invalid
      <4>1. queue'[k].opening = 0
        BY <2>5, <3>3
      <4>2. ~IsPair(queue'[k]) /\ ~IsOpen(queue'[k])
        BY <4>1 DEF IsOpen, IsPair, None
      <4>3. k \notin PairsAt
        BY <2>3, <3>1, <3>3 DEF IsOpen, IsPair
      <4>4. QED
        BY <3>3, <4>2, <4>3
    <3>4. CASE k # closed /\ k \notin invalid
      <4>1. queue'[k].opening = queue[k].opening /\ queue'[k].closing = queue[k].closing
        BY <2>5, <3>4
      <4>2. QED
        BY <3>1, <3>4, <4>1 DEF IsOpen, IsPair
    <3>5. QED
      BY <3>2, <3>3, <3>4
  <2>8. OpenAt' = OpenAt \ (invalid \cup {closed}) /\ PairsAt' = PairsAt \cup {closed}
    <3>1. OpenAt' = {k \in 1..n : IsOpen(queue'[k])} /\ PairsAt' = {k \in 1..n : IsPair(queue'[k])}
      BY <2>6 DEF OpenAt, PairsAt, IsOpen, IsPair
    <3>2. \A k \in OpenAt \cup PairsAt \cup {closed} : k \in 1..n
      BY <1>1, <2>2
    <3>3. QED
      BY <2>7, <3>1, <3>2
  <2> PICK i \in Nat, o \in Nat, p \in Nat, a \in Nat :
         i = Cardinality(invalid) /\ o = Cardinality(OpenAt) /\ p = pairCount /\ a = actualCount
    <3>1. IsFiniteSet(invalid)
      BY <1>1, <2>3, FS_Subset
    <3>2. Cardinality(invalid) \in Nat
      BY <3>1, FS_CardinalityType
    <3>3. QED
      BY <1>1, <3>2
  <2>9. IsFiniteSet(invalid) /\ Cardinality(invalid \cup {closed}) = i + 1
    <3>1. IsFiniteSet(invalid)
      BY <1>1, <2>3, FS_Subset
    <3>2. QED
      BY <2>4, <3>1, FS_AddElement
  <2>10. Cardinality(OpenAt \ (invalid \cup {closed})) = o - (i + 1)
    <3>1. OpenAt \cap (invalid \cup {closed}) = invalid \cup {closed}
      BY <2>3, <2>4
    <3>2. Cardinality(OpenAt \ (invalid \cup {closed}))
            = Cardinality(OpenAt) - Cardinality(OpenAt \cap (invalid \cup {closed}))
      BY <1>1, FS_Difference
    <3>3. QED
      BY <2>9, <3>1, <3>2
  <2>11. i + 1 <= o
    <3>1. invalid \cup {closed} \in SUBSET OpenAt
      BY <2>3, <2>4
    <3>2. Cardinality(invalid \cup {closed}) <= Cardinality(OpenAt)
      BY <1>1, <3>1, FS_Subset
    <3>3. QED
      BY <2>9, <3>2
  <2>12. Cardinality(PairsAt \cup {closed}) = p + 1
    BY <1>1, <2>4, FS_AddElement
  <2>13. actualCount' = a - i /\ pairCount' = p + 1 /\ a = p + o /\ o <= MaxOpenPairs
    <3>1. actualCount' = actualCount - Cardinality(invalid)
      BY <1>3 DEF CountWithout
    <3>2. QED
      BY <1>1, <1>3, <3>1
  <2>14. IsFirst(OpenAt \ (invalid \cup {closed}), firstOpenPair')
    <3>1. firstOpenPair \in OpenAt /\ \A k \in OpenAt : firstOpenPair <= k
      BY <1>1, <2>2 DEF IsFirst
    <3>2. \A k \in OpenAt : k \in 1..n
      BY <1>1
    <3>3. CASE closed = firstOpenPair
      <4>1. \A k \in OpenAt : k = closed \/ closed < k
        BY <3>1, <3>2, <3>3
      <4>2. OpenAt \ (invalid \cup {closed}) = {}
        BY <2>3, <4>1
      <4>3. QED
        BY <1>3, <3>3, <4>2 DEF IsFirst, None
    <3>4. CASE closed # firstOpenPair
      <4>1. firstOpenPair \in OpenAt \ (invalid \cup {closed})
        BY <2>2, <2>3, <3>1, <3>2, <3>4
      <4>2. firstOpenPair' = firstOpenPair
        BY <1>3, <3>4
      <4>3. QED
        BY <3>1, <4>1, <4>2 DEF IsFirst
    <3>5. QED
      BY <3>3, <3>4
  <2>15. Accounts'
    <3>1. actualCount' - pairCount' = o - (i + 1)
      BY <2>13
    <3>2. o - (i + 1) <= MaxOpenPairs
      <4>1. PICK M \in Nat : M = MaxOpenPairs
        BY <1>1
      <4>2. o <= M
        BY <2>13, <4>1
      <4>3. o - (i + 1) <= M
        BY <4>2
      <4>4. QED
        BY <4>1, <4>3
    <3>3. phase' = "brackets"
      BY <1>0
    <3>4. QED
      BY <2>6, <2>8, <2>10, <2>12, <2>13, <2>14, <3>1, <3>2, <3>3, AccountsKept
  <2>16. actualCount' \in Nat /\ pairCount' \in Nat
    <3>1. a = p + o
      BY <2>13
    <3>2. a - i \in Nat /\ p + 1 \in Nat
      BY <2>11, <3>1
    <3>3. QED
      BY <2>13, <3>2
  <2>17. {firstOpenPair', front'} \subseteq 0..Len(queue')
    BY <1>0, <1>1, <1>3, <2>6 DEF None
  <2>18. \A k \in 1..Len(queue') :
           {queue'[k].priorStrong, queue'[k].opening, queue'[k].closing} \subseteq Chain \cup {0}
    <3>1. ASSUME NEW k \in 1..n
          PROVE  {queue'[k].priorStrong, queue'[k].opening, queue'[k].closing} \subseteq Chain \cup {0}
      <4>1. {queue[k].priorStrong, queue[k].opening, queue[k].closing} \subseteq Chain \cup {0}
        BY <1>1
      <4>2. /\ queue'[k].opening \in {0, queue[k].opening}
            /\ queue'[k].closing \in {link, queue[k].closing}
            /\ queue'[k].priorStrong = queue[k].priorStrong
        BY <2>5
      <4>3. QED
        BY <2>1, <4>1, <4>2
    <3>2. QED
      BY <2>6, <3>1
  <2>19. priorStrongLink' \in Chain \cup {0}
    BY <1>0, <1>1
  <2>20. QED
    BY <1>0, <2>6, <2>15, <2>16, <2>17, <2>18, <2>19, BracketsGoOn
<1>4. QED
  BY <1>2, <1>3 DEF ClosePair

(* A walk that begins is behind no link.                                   *)
LEMMA StartsBefore ==
  ASSUME IInv, phase \in Walks, NEW l \in Chain
  PROVE  ~Behind(links[0], l)
<1>1. IsNext(Chain, 0, links[0])
  BY DEF IInv, ChainInv, Spans
<1>2. l \in Nat /\ l # 0 /\ links[0] \in Nat
  <2>1. \A k \in 0..Past : k \in Nat
    OBVIOUS
  <2>2. QED
    BY <2>1, AtLink
<1>3. QED
  BY <1>1, <1>2 DEF Behind, IsNext

(* Rule N0 is done, or given up.                                           *)
LEMMA ToNeutrals ==
  ASSUME IInv, phase \in {"brackets", "pairs"}, phase' = "neutrals", link' = links[0],
         run' = run, UNCHANGED chainVars, UNCHANGED <<priorLink, neutralLink, lastLink, queueVars>>
  PROVE  IInv'
<1>0. UNCHANGED <<links, types, single, levels, priorLink, neutralLink, lastLink>>
  BY DEF chainVars
<1>1. phase \in Walks /\ phase' \in Walks \ {"weak", "numbers"}
  BY DEF Walks
<1>2. links[0] \in Chain \cup {0} /\ links[0] \in 0..Past
  BY <1>1, AtLink
<1>3. ChainInv' /\ Chain' = Chain
  BY <1>0, <1>1, <1>2, ChainStays
<1>4. TypesInv'
  <2>1. \A l \in Chain : types[l] \in AfterW7 /\ ~Behind(links[0], l)
    BY <1>1, StartsBefore DEF IInv, TypesInv
  <2>2. QED
    BY <1>0, <1>3, <2>1 DEF TypesInv
<1>5. PriorInv'
  <2>1. neutralLink = None
    BY DEF IInv, PriorInv
  <2>2. QED
    BY <1>0, <2>1 DEF PriorInv
<1>6. TypeOK'
  <2>1. TypesTyped(types')
    BY <1>0, TypesNow
  <2>2. QED
    BY <1>0, <1>1, <1>2, <2>1, TypeOKNext DEF IInv, TypeOK, queueVars
<1>7. LevelsInv' /\ QueueInv' /\ QueueAccounts'
  BY <1>0, LevelsStay, QueueStays DEF Walks
<1>8. QED
  BY <1>3, <1>4, <1>5, <1>6, <1>7 DEF IInv

(* Rule N0 ends early, and the neutral types are all there still.          *)
LEMMA StepTooManyPairs == ASSUME IInv, TooManyPairs PROVE IInv'
<1>1. /\ phase \in {"brackets", "pairs"} /\ phase' = "neutrals" /\ link' = links[0]
      /\ run' = run /\ UNCHANGED chainVars
      /\ UNCHANGED <<priorLink, neutralLink, lastLink, queueVars>>
  BY DEF TooManyPairs
<1>2. QED
  BY <1>1, ToNeutrals

(* Rule N0 ends when its pairs are resolved.                               *)
LEMMA StepBeginNeutrals == ASSUME IInv, BeginNeutrals PROVE IInv'
<1>1. /\ phase \in {"brackets", "pairs"} /\ phase' = "neutrals" /\ link' = links[0]
      /\ run' = run /\ UNCHANGED chainVars
      /\ UNCHANGED <<priorLink, neutralLink, lastLink, queueVars>>
  BY DEF BeginNeutrals
<1>2. QED
  BY <1>1, ToNeutrals

(* Without memory the queue is left behind.                                *)
LEMMA StepFail == ASSUME IInv, Fail PROVE IInv'
<1>0. /\ phase = "brackets" /\ phase' = "failed" /\ run' = run
      /\ UNCHANGED <<links, types, single, levels, link, priorLink, prior, neutralLink, lastLink>>
      /\ UNCHANGED queueVars
  BY DEF Fail, chainVars
<1>1. phase' \notin {"attach", "brackets", "pairs"} /\ phase' \notin Walks
  BY <1>0 DEF Walks
<1>2. ChainInv' /\ TypesInv' /\ LevelsInv'
  BY <1>0, <1>1 DEF ChainInv, TypesInv, LevelsInv, Walks
<1>3. PriorInv'
  BY <1>0 DEF IInv, PriorInv
<1>4. TypeOK'
  <2>1. TypesTyped(types')
    BY <1>0, TypesNow
  <2>2. QED
    BY <1>0, <2>1, TypeOKNext DEF IInv, TypeOK, queueVars
<1>5. QueueInv' /\ QueueAccounts'
  BY <1>0, <1>1, QueueStays
<1>6. QED
  BY <1>2, <1>3, <1>4, <1>5 DEF IInv

(* The pairs are counted from the first one on.                            *)
LEMMA StepMarkPopulated == ASSUME IInv, MarkPopulated PROVE IInv'
<1>0. /\ phase = "brackets" /\ phase' = "pairs" /\ link = 0 /\ link' = link /\ run' = run
      /\ UNCHANGED <<links, types, single, levels, priorLink, prior, neutralLink, lastLink>>
      /\ front' = IF pairCount > 0 THEN PairFrom(0) ELSE 0
      /\ actualCount' = 0
      /\ UNCHANGED <<queue, firstOpenPair, pairCount, priorStrongLink>>
  BY DEF MarkPopulated, BracketsKeep, chainVars, None
<1>1. phase \in Walks /\ phase' \in Walks \ {"weak", "numbers"}
  BY <1>0 DEF Walks
<1>2. /\ queue \in Seq(Elements) /\ Len(queue) \in Nat
      /\ \A k \in 1..Len(queue) :
           {queue[k].priorStrong, queue[k].opening, queue[k].closing} \subseteq Chain \cup {0}
      /\ priorStrongLink \in Chain \cup {0} /\ Chain \cup {0} \subseteq 0..Past
      /\ Cardinality(PairsAt) \in Nat /\ IsFiniteSet(PairsAt)
      /\ PairsAt \in SUBSET (1..Len(queue))
      /\ pairCount = Cardinality(PairsAt) /\ pairCount \in Nat
      /\ {firstOpenPair, front} \subseteq 0..Len(queue)
  BY <1>0, InTheBrackets
<1>3. ChainInv' /\ Chain' = Chain
  BY <1>0, <1>1, <1>2, ChainStays
<1>4. TypesInv' /\ PriorInv'
  <2>1. \A l \in Chain : types[l] \in AfterW7
    BY <1>0 DEF IInv, TypesInv
  <2>2. neutralLink = None
    BY <1>0 DEF IInv, PriorInv
  <2>3. QED
    BY <1>0, <1>3, <2>1, <2>2 DEF TypesInv, PriorInv
<1>5. LevelsInv'
  BY <1>0, LevelsStay DEF Walks
<1>6. PairsAt' = PairsAt /\ Elements' = Elements
  BY <1>0, RunStays DEF PairsAt, IsPair
<1>7. PairFrom(0) = NextIn(PairsAt, 0)
  BY DEF PairFrom, PairsAt
<1>8. PairsAt \in SUBSET Nat /\ 0 \notin PairsAt /\ (PairsAt = {} <=> Cardinality(PairsAt) = 0)
  BY <1>2, QueueNow
<1>9. IsNext(PairsAt, 0, PairFrom(0))
  BY <1>7, <1>8, NextInIs
<1>10. CASE pairCount = 0
  <2>1. front' = 0
    BY <1>0, <1>10
  <2>2. Accounts'
    <3>1. {k \in PairsAt' : front' # None /\ k >= front'} = {}
      BY <2>1 DEF None
    <3>2. Cardinality({}) = 0
      BY FS_EmptySet
    <3>3. QED
      BY <1>0, <1>10, <3>1, <3>2 DEF Accounts
  <2>3. QueueInv'
    BY <1>0, <1>2, <1>3, <1>6, <1>10 DEF QueueInv, None
  <2>4. TypeOK'
    <3>1. TypesTyped(types') /\ 0 \in 0..Past
      BY <1>0, TypesNow
    <3>2. 0 \in 0..Len(queue) /\ 0 \in Nat
      BY <1>2
    <3>3. QED
      BY <1>0, <1>1, <2>1, <3>1, <3>2, TypeOKNext DEF IInv, TypeOK
  <2>5. QED
    BY <1>3, <1>4, <1>5, <2>2, <2>3, <2>4, AccountsAre DEF IInv
<1>11. CASE pairCount # 0
  <2>1. front' = PairFrom(0)
    BY <1>0, <1>2, <1>11
  <2>2. front' \in PairsAt /\ \A k \in PairsAt : front' <= k
    <3>1. PICK k \in PairsAt : TRUE
      BY <1>2, <1>8, <1>11
    <3>2. \A m \in PairsAt : m \in Nat /\ 0 < m
      BY <1>8
    <3>3. QED
      BY <1>9, <2>1, <3>1, <3>2 DEF IsNext
  <2>3. front' \in 1..Len(queue) /\ front' # 0 /\ front' \in Nat
    BY <1>2, <1>8, <2>2
  <2>4. Accounts'
    <3>1. {k \in PairsAt' : front' # None /\ k >= front'} = PairsAt
      BY <1>6, <1>8, <2>2, <2>3 DEF None
    <3>2. {queue[front'].priorStrong, queue[front'].opening} \subseteq Chain \cup {0}
      BY <1>2, <2>3
    <3>3. QED
      BY <1>0, <1>2, <1>3, <3>1, <3>2 DEF Accounts, None
  <2>5. QueueInv'
    BY <1>0, <1>2, <1>3, <1>6, <2>2 DEF QueueInv, None
  <2>6. TypeOK'
    <3>1. TypesTyped(types') /\ 0 \in 0..Past
      BY <1>0, TypesNow
    <3>2. front' \in 0..Len(queue) /\ 0 \in Nat
      BY <2>3
    <3>3. QED
      BY <1>0, <1>1, <3>1, <3>2, TypeOKNext DEF IInv, TypeOK
  <2>7. QED
    BY <1>3, <1>4, <1>5, <2>4, <2>5, <2>6, AccountsAre DEF IInv
<1>12. QED
  BY <1>10, <1>11

(* Rules N0.b to N0.d give a strong type, or leave the bracket neutral.    *)
LEMMA PairTypeIs ==
  ASSUME IInv, phase \in Walks, NEW pair
  PROVE  PairType(pair) \in {"L", "R", "ON"}
<1>1. run.sos \in {"L", "R"} /\ Embedding \in {"L", "R"}
  BY InputIs DEF IInv, TypeOK
<1>2. StrongBefore(pair) \in {"L", "R"}
  <2> DEFINE given == {l \in Chain : /\ pair.priorStrong < l /\ l < pair.opening
                                     /\ types[l] \in {"L", "R"}}
  <2>1. StrongBefore(pair) = IF pair.priorStrong = None THEN run.sos
                             ELSE IF given # {} THEN types[Max(given)]
                             ELSE IF types[pair.priorStrong] = "L" THEN "L" ELSE "R"
    BY DEF StrongBefore
  <2>2. given # {} => types[Max(given)] \in {"L", "R"}
    <3>1. given \in SUBSET (0..Past) /\ Past \in Nat
      BY AtLink, TypesNow
    <3>2. given # {} => Max(given) \in given
      BY <3>1, MaxIs
    <3>3. QED
      BY <3>2
  <2>3. QED
    BY <1>1, <2>1, <2>2
<1>3. Opposite(run.level) # Embedding
  BY DEF Opposite, Embedding, Direction
<1>4. QED
  BY <1>1, <1>2, <1>3 DEF PairType

(* The front pair has its links in the chain, and the next one is the front.*)
LEMMA StepResolvePair == ASSUME IInv, ResolvePair PROVE IInv'
<1> DEFINE pair == queue[front]
<1>0. /\ phase = "pairs" /\ phase' = phase /\ run' = run /\ pairCount > 0
      /\ types' = [types EXCEPT ![pair.opening] = PairType(pair), ![pair.closing] = PairType(pair)]
      /\ pairCount' = pairCount - 1 /\ front' = PairFrom(front)
      /\ UNCHANGED <<links, single, levels, link, priorLink, prior, neutralLink, lastLink,
                     queue, firstOpenPair, actualCount, priorStrongLink>>
  BY DEF ResolvePair
<1>1. phase \in Walks /\ phase' \in Walks \ {"weak", "numbers"}
  BY <1>0 DEF Walks
<1>2. /\ queue \in Seq(Elements)
      /\ \A k \in 1..Len(queue) :
           {queue[k].priorStrong, queue[k].opening, queue[k].closing} \subseteq Chain \cup {0}
      /\ priorStrongLink \in Chain \cup {0} /\ front \in PairsAt
  BY <1>0 DEF IInv, QueueInv, None
<1>3. /\ Chain \in SUBSET (0..Past) /\ 0 \notin Chain /\ Chain \subseteq Own
  BY <1>1, AtLink
<1>4. PairsAt \in SUBSET (1..Len(queue))
  BY DEF PairsAt
<1>5. /\ PairsAt \in SUBSET Nat /\ 0 \notin PairsAt /\ Len(queue) \in Nat
      /\ \A S \in SUBSET PairsAt : IsFiniteSet(S) /\ Cardinality(S) \in Nat /\ (S = {} <=> Cardinality(S) = 0)
  BY <1>2, <1>4, QueueNow
<1>6. pair.opening \in Chain /\ pair.closing \in Chain
  <2>1. front \in 1..Len(queue) /\ IsPair(pair)
    BY <1>2 DEF PairsAt
  <2>2. pair.opening # 0 /\ pair.closing # 0
    BY <2>1 DEF IsPair, None
  <2>3. QED
    BY <1>2, <2>1, <2>2
<1>7. PairType(pair) \in {"L", "R", "ON"}
  BY <1>1, PairTypeIs
<1> DEFINE given == PairType(pair)
           at == pair.opening
           to == pair.closing
<1> HIDE DEF pair, given, at, to
<1>8. types \in [0..Past -> {TypeOf(unit) : unit \in Units} \cup {"Nil"}]
  BY DEF IInv, TypeOK
<1>9. types' = [types EXCEPT ![at] = given, ![to] = given] /\ given \in {"L", "R", "ON"}
      /\ at \in Chain /\ to \in Chain
  BY <1>0, <1>6, <1>7 DEF given, at, to
<1>10. /\ types' = [l \in 0..Past |-> types'[l]]
       /\ \A l \in 0..Past : types'[l] = IF l \in {at, to} THEN given ELSE types[l]
  BY <1>8, <1>9
<1>11. given \in AfterW7 /\ given \in Marked
  BY <1>9 DEF AfterW7, AfterW3, Based, Marked
<1>12. ChainInv' /\ Chain' = Chain
  <2>1. link \in Chain \cup {0}
    BY <1>1 DEF IInv, ChainInv
  <2>2. QED
    BY <1>0, <1>1, <2>1, ChainStays
<1>13. TypesInv'
  <2>1. \A l \in Chain : types[l] \in AfterW7 /\ l \in 0..Past
    BY <1>0, <1>3 DEF IInv, TypesInv
  <2>2. \A l \in Chain : types'[l] \in AfterW7
    BY <1>10, <1>11, <2>1
  <2>3. QED
    BY <1>0, <1>12, <2>2 DEF TypesInv
<1>14. PriorInv'
  <2>1. neutralLink = None
    BY <1>0 DEF IInv, PriorInv
  <2>2. QED
    BY <1>0, <2>1 DEF PriorInv
<1>15. LevelsInv'
  BY <1>0, LevelsStay DEF Walks
<1>16. IsNext(PairsAt, front, front')
  <2>1. PairFrom(front) = NextIn(PairsAt, front)
    BY DEF PairFrom, PairsAt
  <2>2. QED
    BY <1>0, <1>2, <1>5, <2>1, NextInIs
<1> DEFINE Rest(f) == {k \in PairsAt : f # 0 /\ k >= f}
<1>17. Accounts /\ pairCount \in Nat
  BY AccountsAre DEF IInv, TypeOK
<1>18. pairCount = Cardinality(Rest(front))
  BY <1>0, <1>17 DEF Accounts, None
<1>19. Rest(front') = Rest(front) \ {front} /\ front \in Rest(front)
  <2>1. front \in Nat /\ front # 0 /\ \A k \in PairsAt : k \in Nat
    BY <1>2, <1>5
  <2>2. front \in Rest(front)
    BY <1>2, <2>1
  <2>3. CASE front' = 0
    <3>1. \A k \in PairsAt : k <= front
      BY <1>5, <1>16, <2>3 DEF IsNext
    <3>2. Rest(front) \ {front} = {}
      BY <2>1, <3>1
    <3>3. Rest(front') = {}
      BY <2>3
    <3>4. QED
      BY <2>2, <3>2, <3>3
  <2>4. CASE front' # 0
    <3>1. front' \in PairsAt /\ front < front' /\ \A k \in PairsAt : front < k => front' <= k
      BY <1>16, <2>4 DEF IsNext
    <3>2. \A k \in PairsAt : k >= front' <=> k >= front /\ k # front
      BY <2>1, <3>1
    <3>3. QED
      BY <2>1, <2>2, <2>4, <3>2
  <2>5. QED
    BY <2>3, <2>4
<1>20. pairCount' = Cardinality(Rest(front')) /\ pairCount' \in Nat
  <2>1. Rest(front) \in SUBSET PairsAt
    OBVIOUS
  <2>2. IsFiniteSet(Rest(front))
    BY <1>5, <2>1
  <2>3. Cardinality(Rest(front) \ {front}) = Cardinality(Rest(front)) - 1
    BY <1>19, <2>2, FS_RemoveElement
  <2>4. pairCount' = pairCount - 1 /\ pairCount > 0
    BY <1>0
  <2> HIDE DEF Rest
  <2>5. QED
    BY <1>17, <1>18, <1>19, <2>3, <2>4
<1>21. PairsAt' = PairsAt /\ Elements' = Elements
  BY <1>0, RunStays DEF PairsAt, IsPair
<1>22. pairCount' > 0 => front' \in PairsAt
  <2>1. SUFFICES ASSUME pairCount' > 0 PROVE front' \in PairsAt
    OBVIOUS
  <2>2. Rest(front') \in SUBSET PairsAt /\ Cardinality(Rest(front')) # 0
    BY <1>20, <2>1
  <2>3. Rest(front') # {}
    BY <1>5, <2>2
  <2>4. front' # 0
    BY <2>3
  <2>5. QED
    BY <1>16, <2>4 DEF IsNext
<1>23. Accounts'
  <2>1. pairCount' > 0 => {queue[front'].priorStrong, queue[front'].opening} \subseteq Chain \cup {0}
    BY <1>2, <1>4, <1>22
  <2>2. QED
    BY <1>0, <1>12, <1>20, <1>21, <2>1 DEF Accounts, None
<1>24. QueueInv'
  BY <1>0, <1>2, <1>12, <1>21, <1>22 DEF QueueInv, None
<1>25. TypeOK'
  <2>1. TypesTyped(types')
    BY <1>3, <1>9, <1>10, <1>11, TypesWritten
  <2>2. front' \in 0..Len(queue)
    <3>1. front' = 0 \/ front' \in PairsAt
      BY <1>16 DEF IsNext
    <3>2. 0 \in 0..Len(queue) /\ \A k \in 1..Len(queue) : k \in 0..Len(queue)
      BY <1>5
    <3>3. QED
      BY <1>4, <3>1, <3>2
  <2>3. QED
    BY <1>0, <1>1, <1>20, <2>1, <2>2, TypeOKNext DEF IInv, TypeOK
<1>26. QED
  BY <1>12, <1>13, <1>14, <1>15, <1>23, <1>24, <1>25, AccountsAre DEF IInv

(* A link that is not neutral ends a sequence of neutral ones.             *)
LEMMA StepPassStrong == ASSUME IInv, PassStrong PROVE IInv'
<1>0. /\ phase = "neutrals" /\ phase' = phase /\ run' = run /\ link # 0
      /\ types[link] \notin Neutrals /\ link' = links[link]
      /\ UNCHANGED <<links, types, single, levels, priorLink, neutralLink, lastLink>>
      /\ UNCHANGED queueVars
  BY DEF PassStrong, At, chainVars
<1>1. phase \in Walks /\ phase' \in Walks \ {"weak", "numbers"}
  BY <1>0 DEF Walks
<1>2. /\ Chain \in SUBSET Nat /\ 0 \notin Chain
      /\ link \in Chain /\ IsNext(Chain, link, links[link])
      /\ links[link] \in Chain \cup {0} /\ links[link] \in 0..Past
  BY <1>0, <1>1, AtLink
<1>3. ChainInv' /\ Chain' = Chain
  BY <1>0, <1>1, <1>2, ChainStays
<1>4. neutralLink = None
  BY <1>0 DEF IInv, PriorInv
<1>5. TypesInv'
  <2>1. \A l \in Chain : types[l] \in AfterW7 /\ (Behind(link, l) => types[l] \in Resolved)
    BY <1>0, <1>4 DEF IInv, TypesInv
  <2>2. types[link] \in Resolved
    BY <1>0, <1>2, <2>1 DEF AfterW7, AfterW3, Based, Marked, Neutrals, Isolates, Resolved
  <2>3. ASSUME NEW l \in Chain, Behind(links[link], l) PROVE types[l] \in Resolved
    <3>1. l <= link /\ (l < link => Behind(link, l))
      BY <1>2, <2>3, BehindNext
    <3>2. l \in Nat /\ link \in Nat
      BY <1>2
    <3>3. QED
      BY <2>1, <2>2, <3>1, <3>2
  <2>4. QED
    BY <1>0, <1>3, <2>1, <2>3 DEF TypesInv
<1>6. PriorInv'
  BY <1>0, <1>4 DEF PriorInv
<1>7. TypeOK'
  <2>1. TypesTyped(types')
    BY <1>0, TypesNow
  <2>2. QED
    BY <1>0, <1>1, <1>2, <2>1, TypeOKNext DEF IInv, TypeOK, queueVars
<1>8. LevelsInv' /\ QueueInv' /\ QueueAccounts'
  BY <1>0, LevelsStay, QueueStays DEF Walks
<1>9. QED
  BY <1>3, <1>5, <1>6, <1>7, <1>8 DEF IInv

(* Neutral links wait for the next strong one, and are resolved with it.   *)
LEMMA StepResolveNeutrals == ASSUME IInv, ResolveNeutrals PROVE IInv'
<1> DEFINE first == IF neutralLink = None THEN link ELSE neutralLink
           next  == NextType(types[links[link]])
           group == {l \in Chain : first <= l /\ l <= link}
           given == IF prior.strong = next THEN next ELSE Embedding
<1>0. /\ phase = "neutrals" /\ phase' = phase /\ run' = run /\ link # 0
      /\ types[link] \in Neutrals /\ link' = links[link]
      /\ UNCHANGED <<links, single, levels, priorLink, lastLink>> /\ UNCHANGED queueVars
      /\ \/ /\ next \in {"L", "R"}
            /\ types' = [l \in 0..Past |-> IF l \notin group THEN types[l] ELSE given]
            /\ neutralLink' = None
         \/ next \notin {"L", "R"} /\ neutralLink' = first /\ types' = types
  BY DEF ResolveNeutrals, At, chainVars
<1>1. phase \in Walks /\ phase' \in Walks \ {"weak", "numbers"}
  BY <1>0 DEF Walks
<1>2. /\ Chain \in SUBSET Nat /\ 0 \notin Chain /\ Chain \subseteq Own /\ Chain \in SUBSET (0..Past)
      /\ link \in Chain /\ IsNext(Chain, link, links[link])
      /\ links[link] \in Chain \cup {0} /\ links[link] \in 0..Past
  BY <1>0, <1>1, AtLink
<1>3. ChainInv' /\ Chain' = Chain
  BY <1>0, <1>1, <1>2, ChainStays
<1>4. /\ types \in [0..Past -> {TypeOf(unit) : unit \in Units} \cup {"Nil"}]
      /\ types[0] = "Nil" /\ 0 \in 0..Past /\ neutralLink \in 0..Past
  <2>1. 0 \in 0..Past
    BY TypesNow
  <2>2. QED
    BY <2>1 DEF IInv, TypeOK
<1>5. \A l \in Chain :
        /\ types[l] \in AfterW7
        /\ Behind(link, l) /\ (neutralLink = None \/ l < neutralLink) => types[l] \in Resolved
  BY <1>0 DEF IInv, TypesInv
<1>6. neutralLink # None => neutralLink < link
  BY <1>0 DEF IInv, PriorInv
<1>7. first \in Nat /\ first <= link /\ first # 0 /\ first \in 0..Past
  <2>1. link \in Nat /\ link # 0 /\ link \in 0..Past
    BY <1>2
  <2>2. QED
    BY <1>4, <1>6, <2>1 DEF None
<1> HIDE DEF first, next, given
<1>8. \A l \in Chain : l < first => types[l] \in Resolved
  <2>1. ASSUME NEW l \in Chain, l < first PROVE Behind(link, l) /\ (neutralLink = None \/ l < neutralLink)
    <3>1. l \in Nat /\ link \in Nat
      BY <1>2
    <3>2. Behind(link, l)
      BY <1>7, <2>1, <3>1 DEF Behind
    <3>3. neutralLink # None => first = neutralLink
      BY DEF first
    <3>4. QED
      BY <2>1, <3>2, <3>3
  <2>2. QED
    BY <1>5, <2>1
<1>9. \A l \in Chain : Behind(links[link], l) => l <= link
  BY <1>2, BehindNext
<1>12. LevelsInv' /\ QueueInv' /\ QueueAccounts'
  BY <1>0, LevelsStay, QueueStays DEF Walks
<1>10. CASE /\ next \in {"L", "R"}
            /\ types' = [l \in 0..Past |-> IF l \notin group THEN types[l] ELSE given]
            /\ neutralLink' = None
  <2>1. given \in {"L", "R"}
    <3>1. Embedding \in {"L", "R"}
      BY InputIs DEF IInv, TypeOK
    <3>2. QED
      BY <1>10, <3>1 DEF given
  <2>2. given \in Resolved /\ given \in AfterW7 /\ given \in Marked
    BY <2>1 DEF Resolved, AfterW7, AfterW3, Based, Marked
  <2>3. \A l \in 0..Past : types'[l] = IF l \notin group THEN types[l] ELSE given
    BY <1>10
  <2>4. TypesInv'
    <3>1. ASSUME NEW l \in Chain
          PROVE  types'[l] \in AfterW7 /\ (Behind(links[link], l) => types'[l] \in Resolved)
      <4>1. l \in 0..Past /\ l \in Nat
        BY <1>2
      <4>2. CASE l \in group
        BY <2>2, <2>3, <4>1, <4>2
      <4>3. CASE l \notin group
        <5>1. types'[l] = types[l]
          BY <2>3, <4>1, <4>3
        <5>2. Behind(links[link], l) => l < first
          BY <1>7, <1>9, <4>1, <4>3
        <5>3. QED
          BY <1>5, <1>8, <5>1, <5>2
      <4>4. QED
        BY <4>2, <4>3
    <3>2. QED
      BY <1>0, <1>3, <3>1 DEF TypesInv
  <2>5. PriorInv'
    BY <1>0, <1>10 DEF PriorInv
  <2>6. TypeOK'
    <3>1. TypesTyped(types')
      <4>1. types' = [l \in 0..Past |-> types'[l]]
        BY <1>10
      <4>2. \A l \in group : l \in Own
        BY <1>2
      <4>3. \A l \in 0..Past : types'[l] = types[l] \/ (l \in Own /\ types'[l] \in Marked)
        BY <2>2, <2>3, <4>2
      <4>4. QED
        BY <4>1, <4>3, TypesWritten
    <3>2. neutralLink' \in 0..Past
      BY <1>4, <1>10 DEF None
    <3>3. QED
      BY <1>0, <1>1, <1>2, <3>1, <3>2, TypeOKNext DEF IInv, TypeOK, queueVars
  <2>7. QED
    BY <1>3, <1>12, <2>4, <2>5, <2>6 DEF IInv
<1>11. CASE next \notin {"L", "R"} /\ neutralLink' = first /\ types' = types
  <2>1. links[link] # 0 /\ types[links[link]] \notin {"L", "R", "EN", "AN"}
    <3>1. run.eos \in {"L", "R"}
      BY InputIs DEF IInv, TypeOK
    <3>2. types[links[link]] \notin {"Nil", "EN", "AN", "L", "R"}
      <4>1. types[links[link]] = "Nil" => next = run.eos
        BY DEF next, NextType
      <4>2. types[links[link]] \in {"EN", "AN"} => next = "R"
        BY DEF next, NextType
      <4>3. types[links[link]] \in {"L", "R"} => next = types[links[link]]
        BY DEF next, NextType
      <4>4. QED
        BY <1>11, <3>1, <4>1, <4>2, <4>3
    <3>3. QED
      BY <1>4, <3>2
  <2>2. links[link] \in Chain /\ link < links[link]
    BY <1>2, <2>1 DEF IsNext
  <2>3. types[links[link]] \in Neutrals
    BY <1>5, <2>1, <2>2 DEF AfterW7, AfterW3, Based, Marked, Neutrals, Isolates
  <2>4. first < links[link]
    <3>1. link \in Nat /\ links[link] \in Nat
      BY <1>2, <2>2
    <3>2. QED
      BY <1>7, <2>2, <3>1
  <2>5. TypesInv'
    <3>1. first # None
      BY <1>7 DEF None
    <3>2. QED
      BY <1>0, <1>3, <1>5, <1>8, <1>11, <3>1 DEF TypesInv
  <2>6. PriorInv'
    BY <1>0, <1>11, <2>1, <2>3, <2>4 DEF PriorInv
  <2>7. TypeOK'
    <3>1. TypesTyped(types')
      BY <1>11, TypesNow
    <3>2. QED
      BY <1>0, <1>1, <1>2, <1>7, <1>11, <3>1, TypeOKNext DEF IInv, TypeOK, queueVars
  <2>8. QED
    BY <1>3, <1>12, <2>5, <2>6, <2>7 DEF IInv
<1>13. QED
  BY <1>0, <1>10, <1>11

(* The last walk begins where no neutral type is left.                     *)
LEMMA StepBeginImplicit == ASSUME IInv, BeginImplicit PROVE IInv'
<1>0. /\ phase = "neutrals" /\ phase' = "implicit" /\ link = 0 /\ link' = links[0] /\ run' = run
      /\ UNCHANGED <<links, types, single, levels, priorLink, neutralLink, lastLink>>
      /\ UNCHANGED queueVars
  BY DEF BeginImplicit, Walked, chainVars
<1>1. phase \in Walks /\ phase' \in Walks \ {"weak", "numbers"}
  BY <1>0 DEF Walks
<1>2. links[0] \in Chain \cup {0} /\ links[0] \in 0..Past
  BY <1>1, AtLink
<1>3. ChainInv' /\ Chain' = Chain
  BY <1>0, <1>1, <1>2, ChainStays
<1>4. neutralLink = None
  BY <1>0 DEF IInv, PriorInv
<1>5. TypesInv'
  <2>1. \A l \in Chain : types[l] \in Resolved
    BY <1>0, <1>4 DEF IInv, TypesInv, Behind
  <2>2. QED
    BY <1>0, <1>3, <2>1 DEF TypesInv
<1>6. PriorInv'
  BY <1>0, <1>4 DEF PriorInv
<1>7. TypeOK'
  <2>1. TypesTyped(types')
    BY <1>0, TypesNow
  <2>2. QED
    BY <1>0, <1>1, <1>2, <2>1, TypeOKNext DEF IInv, TypeOK, queueVars
<1>8. LevelsInv' /\ QueueInv' /\ QueueAccounts'
  BY <1>0, LevelsStay, QueueStays DEF Walks
<1>9. QED
  BY <1>3, <1>5, <1>6, <1>7, <1>8 DEF IInv

(* Rules I1 and I2 raise a level by two at the most.                       *)
LEMMA RaisedIs ==
  ASSUME NEW level \in Nat, NEW type, type \in {"L", "R", "EN", "AN"}
  PROVE  Raised(level, type) \in level..(level + 2)
<1>1. CASE type = "R"
  BY <1>1 DEF Raised
<1>2. CASE type = "L"
  BY <1>2 DEF Raised
<1>3. CASE type \in {"EN", "AN"}
  <2>1. type # "R" /\ type # "L"
    BY <1>3
  <2>2. QED
    BY <2>1 DEF Raised
<1>4. QED
  BY <1>1, <1>2, <1>3

(* Rules I1 and I2 raise a level once.                                     *)
LEMMA StepResolveImplicitLevels == ASSUME IInv, ResolveImplicitLevels PROVE IInv'
<1> DEFINE raised == Raised(levels[link], types[link])
<1>0. /\ phase = "implicit" /\ phase' = phase /\ run' = run /\ link # 0 /\ link' = links[link]
      /\ levels' = [levels EXCEPT ![link] = raised]
      /\ UNCHANGED <<links, types, single, priorLink, neutralLink, lastLink>>
      /\ UNCHANGED queueVars
  BY DEF ResolveImplicitLevels, At
<1>1. phase \in Walks /\ phase' \in Walks \ {"weak", "numbers"}
  BY <1>0 DEF Walks
<1>2. /\ Chain \in SUBSET Nat /\ 0 \notin Chain /\ Chain \subseteq Own /\ Chain \in SUBSET (0..Past)
      /\ link \in Chain /\ IsNext(Chain, link, links[link])
      /\ links[link] \in Chain \cup {0} /\ links[link] \in 0..Past
  BY <1>0, <1>1, AtLink
<1>3. ChainInv' /\ Chain' = Chain
  BY <1>0, <1>1, <1>2, ChainStays
<1>4. TypesInv'
  BY <1>0, <1>3 DEF IInv, TypesInv
<1>5. PriorInv'
  BY <1>0 DEF IInv, PriorInv
<1>6. /\ levels \in [0..Past -> {OtherLevel} \cup run.level..(run.level + 2)]
      /\ run.level \in Nat /\ Past \in Nat /\ Own \in SUBSET (1..Past)
  BY InputIs DEF IInv, TypeOK
<1>7. \A l \in Own : ~Behind(link, l) => levels[l] = run.level
  BY <1>0, <1>1 DEF IInv, LevelsInv
<1>8. raised \in run.level..(run.level + 2)
  <2>1. link \in Own /\ ~Behind(link, link)
    BY <1>2 DEF Behind
  <2>2. levels[link] = run.level
    BY <1>7, <2>1
  <2>3. types[link] \in {"L", "R", "EN", "AN"}
    BY <1>0, <1>2 DEF IInv, TypesInv, Resolved
  <2>4. QED
    BY <1>6, <2>2, <2>3, RaisedIs
<1> HIDE DEF raised
<1>9. LevelsInv'
  <2>1. Own' = Own
    BY <1>0, RunStays
  <2>2. ASSUME NEW l \in Own, ~Behind(links[link], l) PROVE levels'[l] = run.level
    <3>1. l # link /\ ~Behind(link, l)
      <4>1. links[link] # 0 /\ ~(l < links[link])
        BY <2>2 DEF Behind
      <4>2. link < links[link] /\ links[link] \in Nat /\ link \in Nat /\ link # 0 /\ l \in Nat
        BY <1>2, <1>6, <4>1 DEF IsNext
      <4>3. QED
        BY <4>1, <4>2 DEF Behind
    <3>2. l \in 0..Past
      BY <1>6
    <3>3. levels'[l] = levels[l]
      BY <1>0, <1>6, <3>1, <3>2
    <3>4. QED
      BY <1>7, <3>1, <3>3
  <2>3. QED
    BY <1>0, <2>1, <2>2 DEF LevelsInv
<1>10. TypeOK'
  <2>1. TypesTyped(types')
    BY <1>0, TypesNow
  <2>2. levels' \in [0..Past -> {OtherLevel} \cup run.level..(run.level + 2)]
    BY <1>0, <1>6, <1>8
  <2>3. QED
    BY <1>0, <1>1, <1>2, <2>1, <2>2, TypeOKNext DEF IInv, TypeOK, queueVars
<1>11. QueueInv' /\ QueueAccounts'
  BY <1>0, QueueStays
<1>12. QED
  BY <1>3, <1>4, <1>5, <1>9, <1>10, <1>11 DEF IInv

(* AttachOriginalLinks: the links stay in the text.                        *)
LEMMA StepAttachOriginal == ASSUME IInv, AttachOriginal PROVE IInv'
<1>0. /\ phase = "implicit" /\ phase' = "resolved" /\ run' = run
      /\ links' = [l \in 0..Past |-> Reattached(l)]
      /\ UNCHANGED <<types, single, levels, link, priorLink, prior, neutralLink, lastLink>>
      /\ UNCHANGED queueVars
  BY DEF AttachOriginal
<1>1. /\ Past \in Nat /\ Populated(Text) \in SUBSET (1..Past)
      /\ links \in [0..Past -> 0..Past]
  BY InputIs DEF IInv, TypeOK
<1>2. ASSUME NEW l PROVE Original(l) \in 0..Past
  <2> DEFINE after == {m \in Populated(Text) : m > l}
  <2>1. Original(l) = IF after = {} THEN 0 ELSE Min(after)
    BY DEF Original, NextIn
  <2>2. after \in SUBSET Nat /\ \A k \in after : k \in 0..Past
    <3>1. \A k \in Populated(Text) : k \in Nat /\ k \in 0..Past
      BY <1>1
    <3>2. QED
      BY <3>1
  <2>3. after # {} => Min(after) \in after
    BY <2>2, MinIs
  <2>4. 0 \in 0..Past
    BY <1>1
  <2>5. QED
    BY <2>1, <2>2, <2>3, <2>4
<1>3. \A l \in 0..Past : Reattached(l) \in 0..Past
  BY <1>1, <1>2 DEF Reattached
<1>4. TypeOK'
  <2>1. TypesTyped(types')
    BY <1>0, TypesNow
  <2>2. links' \in [0..Past -> 0..Past]
    BY <1>0, <1>3
  <2>3. QED
    BY <1>0, <2>1, <2>2, TypeOKNext DEF IInv, TypeOK, queueVars
<1>5. ChainInv' /\ TypesInv' /\ LevelsInv'
  BY <1>0 DEF ChainInv, TypesInv, LevelsInv, Walks
<1>6. PriorInv'
  BY <1>0 DEF IInv, PriorInv
<1>7. QueueInv' /\ QueueAccounts'
  BY <1>0, QueueStays
<1>8. QED
  BY <1>4, <1>5, <1>6, <1>7 DEF IInv

(* Nothing changes.                                                        *)
LEMMA StepStutter == ASSUME IInv, UNCHANGED vars PROVE IInv'
<1>0. /\ run' = run /\ phase' = phase /\ link' = link
      /\ UNCHANGED <<links, types, single, levels, priorLink, prior, neutralLink, lastLink>>
      /\ UNCHANGED <<queue, firstOpenPair, front, actualCount, pairCount, priorStrongLink>>
  BY DEF vars
<1>1. Text' = Text /\ Past' = Past /\ Own' = Own /\ Elements' = Elements /\ Chain' = Chain
  BY <1>0, RunStays
<1>2. TypeOK'
  BY <1>0, <1>1 DEF IInv, TypeOK
<1>3. ChainInv' /\ TypesInv' /\ PriorInv' /\ LevelsInv'
  BY <1>0, <1>1 DEF IInv, ChainInv, TypesInv, PriorInv, LevelsInv
<1>4. PairsAt' = PairsAt /\ OpenAt' = OpenAt /\ OpenPairCount' = OpenPairCount
  BY <1>0 DEF PairsAt, IsPair, OpenAt, IsOpen, OpenPairCount
<1>5. QueueInv'
  BY <1>0, <1>1, <1>4 DEF IInv, QueueInv
<1>6. QueueAccounts'
  <2>1. Accounts
    BY AccountsAre DEF IInv
  <2>2. Accounts'
    BY <1>0, <1>1, <1>4, <2>1 DEF Accounts
  <2>3. QED
    BY <2>2, AccountsAre
<1>7. QED
  BY <1>2, <1>3, <1>5, <1>6 DEF IInv

-----------------------------------------------------------------------------
(* The theorems.                                                           *)

(* The first invariant is inductive.                                       *)
LEMMA NextHolds == IInv /\ [Next]_vars => IInv'
<1> SUFFICES ASSUME IInv, [Next]_vars PROVE IInv'
  OBVIOUS
<1>1. CASE Attach
  BY <1>1, StepAttach
<1>2. CASE ResolveMarks
  BY <1>2, StepResolveMarks
<1>3. CASE BeginNumbers
  BY <1>3, StepBeginNumbers
<1>4. CASE ResolveNumbers
  BY <1>4, StepResolveNumbers
<1>5. CASE BeginBrackets
  BY <1>5, StepBeginBrackets
<1>6. CASE OpenPair
  BY <1>6, StepOpenPair
<1>7. CASE TooManyPairs
  BY <1>7, StepTooManyPairs
<1>8. CASE Fail
  BY <1>8, StepFail
<1>9. CASE ClosePair
  BY <1>9, StepClosePair
<1>10. CASE AssignInnerStrongType
  BY <1>10, StepAssignInnerStrongType
<1>11. CASE SkipOther
  BY <1>11, StepSkipOther
<1>12. CASE MarkPopulated
  BY <1>12, StepMarkPopulated
<1>13. CASE ResolvePair
  BY <1>13, StepResolvePair
<1>14. CASE BeginNeutrals
  BY <1>14, StepBeginNeutrals
<1>15. CASE PassStrong
  BY <1>15, StepPassStrong
<1>16. CASE ResolveNeutrals
  BY <1>16, StepResolveNeutrals
<1>17. CASE BeginImplicit
  BY <1>17, StepBeginImplicit
<1>18. CASE ResolveImplicitLevels
  BY <1>18, StepResolveImplicitLevels
<1>19. CASE AttachOriginal
  BY <1>19, StepAttachOriginal
<1>20. CASE Returned
  BY <1>20, StepStutter DEF Returned
<1>21. CASE UNCHANGED vars
  BY <1>21, StepStutter
<1>22. QED
  BY <1>1, <1>2, <1>3, <1>4, <1>5, <1>6, <1>7, <1>8, <1>9, <1>10, <1>11, <1>12, <1>13, <1>14,
     <1>15, <1>16, <1>17, <1>18, <1>19, <1>20, <1>21 DEF Next

(* The inductive invariant holds in every state.                           *)
THEOREM SpecIInv == Spec => []IInv
  BY InitHolds, NextHolds, PTL DEF Spec

(* The variables keep their types, for every input and limit of pairs: the *)
(* links stay in the text, only the ends of the chain have type Nil, and   *)
(* no level leaves the range of rules I1 and I2.                           *)
THEOREM SpecTypeOK == Spec => []TypeOK
<1>1. IInv => TypeOK
  BY DEF IInv
<1>2. QED
  BY SpecIInv, <1>1, PTL

(* The counters of the bracket queue agree with its elements, whatever     *)
(* brackets open, close and are invalidated, and no more pairs are open    *)
(* than the queue admits.                                                  *)
THEOREM SpecQueueAccounts == Spec => []QueueAccounts
<1>1. IInv => QueueAccounts
  BY DEF IInv
<1>2. QED
  BY SpecIInv, <1>1, PTL

(* The assertion of ResolveImplicitLevels holds: no neutral type is left   *)
(* when the walk of rules I1 and I2 meets a link.                          *)
THEOREM SpecNoNeutralLeft == Spec => []NoNeutralLeft
<1>1. IInv => NoNeutralLeft
  <2>1. SUFFICES ASSUME IInv, phase = "implicit", link # 0
                 PROVE  types[link] \in {"L", "R", "EN", "AN"}
    BY DEF NoNeutralLeft
  <2>2. link \in Chain
    BY <2>1, AtLink DEF Walks
  <2>3. QED
    BY <2>1, <2>2 DEF IInv, TypesInv, Resolved
<1>2. QED
  BY SpecIInv, <1>1, PTL

-----------------------------------------------------------------------------
(* Where the level runs of a sequence end and begin.                       *)

(* What After finds: the first position behind one, or past.               *)
LEMMA MinAfter ==
  ASSUME NEW past \in Nat, NEW S \in SUBSET (0..past), NEW i \in Nat
  PROVE  LET a == After(S, i, past) IN
         /\ (a \in S /\ i < a) \/ a = past
         /\ a <= past /\ \A k \in S : i < k => a <= k
<1> DEFINE T == {past} \cup {j \in S : j > i}
<1>1. T \in SUBSET Nat /\ T # {} /\ \A k \in T : k <= past
  <2>1. \A k \in S : k \in Nat /\ k <= past
    OBVIOUS
  <2>2. past \in T /\ past \in Nat /\ past <= past
    OBVIOUS
  <2>3. \A k \in T : k \in Nat /\ k <= past
    BY <2>1, <2>2
  <2>4. QED
    BY <2>2, <2>3
<1>2. Min(T) \in T /\ \A k \in T : Min(T) <= k
  BY <1>1, MinIs
<1>3. After(S, i, past) = Min(T)
  BY DEF After
<1>4. QED
  BY <1>1, <1>2, <1>3

(* The positions of the sequence.                                          *)
Seen == VisibleIn(Text)
OwnSeen == {i \in Seen : Text[i] # "X"}

(* Links that no rule may merge away: isolates, and what comes first, in   *)
(* the sequence or behind an isolate.                                      *)
Ends == {l \in Own : Text[l] = "RLI" \/ Before(Own, l) = 0 \/ Text[Before(Own, l)] = "RLI"}

(* DetermineLevels ends level runs at isolates only.                       *)
LEMMA PositionsAre ==
  ASSUME run \in Inputs
  PROVE  /\ Past \in Nat /\ Past = Len(Text) + 1 /\ Len(Text) \in Nat
         /\ Seen \in SUBSET (1..Len(Text)) /\ OwnSeen \in SUBSET (1..Len(Text))
         /\ Seen \in SUBSET (0..Past) /\ OwnSeen \in SUBSET (0..Past) /\ OwnSeen # {}
         /\ Populated(Text) \in SUBSET (1..Past) /\ Own \in SUBSET (1..Past)
         /\ Own \subseteq Populated(Text) /\ Own \subseteq OwnSeen
         /\ \A l \in Populated(Text) \ Own : l < Past => l \in Seen /\ Text[l] = "X"
         /\ \A i \in Seen : Text[i] \in {"X", "RLI", "PDI"} => i \in Populated(Text)
         /\ \A i \in OwnSeen : Text[i] \in {"RLI", "PDI"} => i \in Own
         /\ \A i \in Seen : Text[i] = "X" =>
              \/ Before(OwnSeen, i) = 0 \/ After(OwnSeen, i, Past) > Len(Text)
              \/ Text[Before(OwnSeen, i)] = "RLI" /\ Text[After(OwnSeen, i, Past)] = "PDI"
         /\ \A i \in OwnSeen : Text[i] = "RLI" =>
              After(Seen, i, Past) \in {Past} \cup {j \in Seen : Text[j] \in {"X", "PDI"}}
<1>1. /\ Len(Text) \in Nat /\ Past \in Nat /\ Past = Len(Text) + 1
      /\ Populated(Text) \in SUBSET (1..Past)
      /\ Own \in SUBSET Populated(Text) /\ Own \in SUBSET (1..Past)
      /\ \A l \in Own : l \in 1..Len(Text)
      /\ \A i \in 1..Len(Text) : Text[i] \in Units
  BY InputIs
<1>2. /\ Seen = {i \in 1..Len(Text) : Text[i] # "BN"}
  BY DEF Seen, VisibleIn
<1>3. \A l \in Populated(Text) : l \in Seen \/ l = Past
  BY <1>1 DEF Populated, Seen
<1>4. \A l \in Own : l < Past /\ Text[l] # "X" /\ l \in Seen
  BY <1>1, <1>3 DEF Own
<1>5. \A l \in Populated(Text) \ Own : l < Past => l \in Seen /\ Text[l] = "X"
  BY <1>1, <1>3 DEF Own
<1>6. \A i \in Seen : Text[i] \in {"X", "RLI", "PDI"} => i \in Populated(Text)
  <2>1. \A u \in {"X", "RLI", "PDI"} : TypeOf(u) \in SingleTypes
    BY DEF TypeOf, SingleTypes, Brackets, Openings, Closings
  <2>2. \A i \in Seen : Text[i] \in {"X", "RLI", "PDI"} => StartsLink(Text, i)
    BY <2>1 DEF StartsLink
  <2>3. QED
    BY <2>2 DEF Populated, Seen
<1>7. \A i \in OwnSeen : Text[i] \in {"RLI", "PDI"} => i \in Own
  <2>1. \A i \in OwnSeen : i \in Seen /\ i < Past /\ Text[i] # "X"
    BY <1>1, <1>2 DEF OwnSeen
  <2>2. QED
    BY <1>6, <2>1 DEF Own
<1>8. IsSequence(run)
  BY InputsAssumption
<1>9. /\ {i \in VisibleIn(run.text) : run.text[i] # "X"} # {}
      /\ \A i \in VisibleIn(run.text) : run.text[i] = "X" =>
           LET from == Before({j \in VisibleIn(run.text) : run.text[j] # "X"}, i)
               to   == After({j \in VisibleIn(run.text) : run.text[j] # "X"}, i, Len(run.text) + 1)
           IN  from = 0 \/ to > Len(run.text) \/ (run.text[from] = "RLI" /\ run.text[to] = "PDI")
      /\ \A i \in {j \in VisibleIn(run.text) : run.text[j] # "X"} : run.text[i] = "RLI" =>
           After(VisibleIn(run.text), i, Len(run.text) + 1)
             \in {Len(run.text) + 1} \cup {j \in VisibleIn(run.text) : run.text[j] \in {"X", "PDI"}}
  BY <1>8 DEF IsSequence
<1>10. /\ OwnSeen # {}
       /\ \A i \in Seen : Text[i] = "X" =>
            \/ Before(OwnSeen, i) = 0 \/ After(OwnSeen, i, Past) > Len(Text)
            \/ Text[Before(OwnSeen, i)] = "RLI" /\ Text[After(OwnSeen, i, Past)] = "PDI"
       /\ \A i \in OwnSeen : Text[i] = "RLI" =>
            After(Seen, i, Past) \in {Past} \cup {j \in Seen : Text[j] \in {"X", "PDI"}}
  BY <1>9 DEF Seen, OwnSeen, Text, Past
<1>11. /\ Seen \in SUBSET (1..Len(Text)) /\ OwnSeen \in SUBSET (1..Len(Text))
       /\ Seen \in SUBSET (0..Past) /\ OwnSeen \in SUBSET (0..Past)
  <2>1. \A i \in Seen : i \in 1..Len(Text) /\ i \in 0..Past
    BY <1>1, <1>2
  <2>2. \A i \in OwnSeen : i \in Seen
    BY DEF OwnSeen
  <2>3. QED
    BY <2>1, <2>2
<1>12. Own \subseteq Populated(Text) /\ Own \subseteq OwnSeen
  BY <1>1, <1>4 DEF OwnSeen
<1>13. QED
  BY <1>1, <1>5, <1>6, <1>7, <1>10, <1>11, <1>12

(* The next link of the sequence behind an initiator is its terminator.    *)
LEMMA TerminatorFollows ==
  ASSUME run \in Inputs, NEW q \in Own, Text[q] = "RLI", NEW l \in Own, q < l,
         \A k \in Own : q < k => l <= k
  PROVE  Text[l] = "PDI"
<1>1. /\ Past \in Nat /\ Past = Len(Text) + 1 /\ Len(Text) \in Nat
      /\ Seen \in SUBSET (1..Len(Text)) /\ OwnSeen \in SUBSET (1..Len(Text))
      /\ Seen \in SUBSET (0..Past) /\ OwnSeen \in SUBSET (0..Past)
      /\ Own \subseteq OwnSeen
      /\ \A i \in OwnSeen : Text[i] \in {"RLI", "PDI"} => i \in Own
      /\ \A i \in Seen : Text[i] = "X" =>
           \/ Before(OwnSeen, i) = 0 \/ After(OwnSeen, i, Past) > Len(Text)
           \/ Text[Before(OwnSeen, i)] = "RLI" /\ Text[After(OwnSeen, i, Past)] = "PDI"
      /\ \A i \in OwnSeen : Text[i] = "RLI" =>
           After(Seen, i, Past) \in {Past} \cup {j \in Seen : Text[j] \in {"X", "PDI"}}
  BY PositionsAre
<1>2. /\ \A i \in OwnSeen : i \in Seen /\ Text[i] # "X" /\ i \in Nat
      /\ \A i \in Seen : i \in 1..Len(Text) /\ i \in Nat
      /\ \A i \in Seen : Text[i] # "X" => i \in OwnSeen
  BY <1>1 DEF OwnSeen
<1>3. q \in OwnSeen /\ l \in OwnSeen /\ q \in Seen /\ l \in Seen
  BY <1>1, <1>2
<1>4. PICK d \in Seen : d = After(Seen, q, Past) /\ q < d /\ d <= l /\ \A k \in Seen : q < k => d <= k
  <2>1. LET a == After(Seen, q, Past) IN
        /\ (a \in Seen /\ q < a) \/ a = Past
        /\ a <= Past /\ \A k \in Seen : q < k => a <= k
    BY <1>1, <1>2, <1>3, MinAfter
  <2>2. l < Past /\ l \in Nat /\ q \in Nat
    BY <1>1, <1>2, <1>3
  <2> PICK a : a = After(Seen, q, Past)
    OBVIOUS
  <2>3. ((a \in Seen /\ q < a) \/ a = Past) /\ \A k \in Seen : q < k => a <= k
    BY <2>1
  <2>4. a <= l
    BY <1>3, <2>3
  <2>5. a # Past
    BY <1>1, <2>2, <2>4
  <2>6. QED
    BY <2>3, <2>4, <2>5
<1>5. Text[d] \in {"X", "PDI"}
  <2>1. d # Past
    BY <1>1, <1>2
  <2>2. QED
    BY <1>1, <1>3, <1>4, <2>1
<1>6. CASE Text[d] = "PDI"
  <2>1. d \in Own
    BY <1>1, <1>2, <1>6
  <2>2. d = l
    BY <1>2, <1>3, <1>4, <2>1
  <2>3. QED
    BY <1>6, <2>2
<1>7. CASE Text[d] = "X"
  <2>1. PICK to \in OwnSeen : to = After(OwnSeen, d, Past) /\ d < to /\ to <= l
    <3>1. LET a == After(OwnSeen, d, Past) IN
          /\ (a \in OwnSeen /\ d < a) \/ a = Past
          /\ a <= Past /\ \A k \in OwnSeen : d < k => a <= k
      BY <1>1, <1>2, MinAfter
    <3>2. d < l /\ l < Past
      <4>1. d # l
        BY <1>2, <1>3, <1>7
      <4>2. QED
        BY <1>1, <1>2, <1>3, <1>4, <4>1
    <3> PICK a : a = After(OwnSeen, d, Past)
      OBVIOUS
    <3>3. ((a \in OwnSeen /\ d < a) \/ a = Past) /\ \A k \in OwnSeen : d < k => a <= k
      BY <3>1
    <3>4. a <= l
      BY <1>3, <3>2, <3>3
    <3>5. a # Past
      BY <1>1, <1>2, <1>3, <3>2, <3>4
    <3>6. QED
      BY <3>3, <3>4, <3>5
  <2>2. Before(OwnSeen, d) # 0
    <3>1. OwnSeen \in SUBSET (1..Len(Text)) /\ d \in Nat
      BY <1>1, <1>2
    <3>2. \A k \in OwnSeen : k < d => k <= Before(OwnSeen, d)
      BY <1>1, <3>1, BeforeIs
    <3>3. q <= Before(OwnSeen, d) /\ q \in 1..Len(Text)
      BY <1>1, <1>3, <1>4, <3>2
    <3>4. QED
      BY <1>1, <3>3
  <2>3. to <= Len(Text)
    BY <1>1, <1>2
  <2>4. Text[to] = "PDI"
    <3>1. ~(to > Len(Text))
      BY <1>1, <1>2, <2>3
    <3>2. QED
      BY <1>1, <1>7, <2>1, <2>2, <3>1
  <2>5. to \in Own
    BY <1>1, <2>4
  <2>6. q < to
    BY <1>2, <1>3, <1>4, <2>1
  <2>7. to = l
    BY <1>2, <1>3, <2>1, <2>5, <2>6
  <2>8. QED
    BY <2>4, <2>7
<1>8. QED
  BY <1>5, <1>6, <1>7

(* Where another sequence is inside this one, an initiator comes before it.*)
LEMMA InitiatorBefore ==
  ASSUME run \in Inputs, NEW p \in Populated(Text), p \notin Own,
         NEW b \in Own, b < p, NEW f \in Own, p < f
  PROVE  \E from \in Own : Text[from] = "RLI" /\ from < p /\ \A k \in Own : k < p => k <= from
<1>1. /\ Past \in Nat /\ Past = Len(Text) + 1 /\ Len(Text) \in Nat
      /\ Seen \in SUBSET (1..Len(Text)) /\ OwnSeen \in SUBSET (1..Len(Text))
      /\ OwnSeen \in SUBSET (0..Past)
      /\ Populated(Text) \in SUBSET (1..Past)
      /\ Own \subseteq OwnSeen
      /\ \A l \in Populated(Text) \ Own : l < Past => l \in Seen /\ Text[l] = "X"
      /\ \A i \in OwnSeen : Text[i] \in {"RLI", "PDI"} => i \in Own
      /\ \A i \in Seen : Text[i] = "X" =>
           \/ Before(OwnSeen, i) = 0 \/ After(OwnSeen, i, Past) > Len(Text)
           \/ Text[Before(OwnSeen, i)] = "RLI" /\ Text[After(OwnSeen, i, Past)] = "PDI"
  BY PositionsAre
<1>2. /\ b \in OwnSeen /\ f \in OwnSeen /\ \A k \in OwnSeen : k \in 1..Len(Text) /\ k \in Nat
      /\ p \in 1..Past
  <2>1. \A k \in 1..Len(Text) : k \in Nat
    OBVIOUS
  <2>2. QED
    BY <1>1, <2>1
<1>3. p \in Seen /\ Text[p] = "X" /\ p \in Nat
  <2>1. p < Past
    BY <1>1, <1>2
  <2>2. QED
    BY <1>1, <1>2, <2>1
<1>4. PICK from : /\ from = Before(OwnSeen, p) /\ ((from \in OwnSeen /\ from < p) \/ from = 0)
                  /\ \A k \in OwnSeen : k < p => k <= from
  BY <1>1, <1>3, BeforeIs
<1>5. from # 0 /\ from \in OwnSeen /\ from < p
  BY <1>2, <1>4
<1>6. After(OwnSeen, p, Past) <= Len(Text)
  <2>1. PICK to : to = After(OwnSeen, p, Past)
    OBVIOUS
  <2>2. to <= f /\ (to \in OwnSeen \/ to = Past)
    BY <1>1, <1>2, <1>3, <2>1, MinAfter
  <2>3. f \in 1..Len(Text)
    BY <1>2
  <2>4. to \in Nat
    BY <1>1, <1>2, <2>2
  <2>5. QED
    BY <1>1, <2>1, <2>2, <2>3, <2>4
<1>7. Text[from] = "RLI"
  <2>1. PICK to \in Nat : to = After(OwnSeen, p, Past)
    <3>1. PICK to : to = After(OwnSeen, p, Past) /\ (to \in OwnSeen \/ to = Past)
      BY <1>1, <1>3, MinAfter
    <3>2. QED
      BY <1>1, <1>2, <3>1
  <2>2. ~(to > Len(Text))
    BY <1>1, <1>6, <2>1
  <2>3. QED
    BY <1>1, <1>3, <1>4, <1>5, <2>1, <2>2
<1>8. from \in Own
  BY <1>1, <1>5, <1>7
<1>9. QED
  BY <1>1, <1>4, <1>5, <1>7, <1>8

(* A level run begins at one of the ends.                                  *)
LEMMA RunsBeginAtEnds ==
  ASSUME run \in Inputs, NEW f \in Own, Before(Populated(Text), f) \notin Own
  PROVE  f \in Ends
<1>1. /\ Past \in Nat /\ Own \in SUBSET (1..Past) /\ Populated(Text) \in SUBSET (1..Past)
      /\ Own \subseteq Populated(Text)
  BY PositionsAre
<1>2. f \in Nat
  BY <1>1
<1>3. PICK b : /\ b = Before(Own, f) /\ ((b \in Own /\ b < f) \/ b = 0)
               /\ \A k \in Own : k < f => k <= b
  BY <1>1, <1>2, BeforeIs
<1>4. PICK p : /\ p = Before(Populated(Text), f) /\ ((p \in Populated(Text) /\ p < f) \/ p = 0)
               /\ \A k \in Populated(Text) : k < f => k <= p
  BY <1>1, <1>2, BeforeIs
<1>5. CASE b = 0
  BY <1>3, <1>5 DEF Ends
<1>6. CASE b # 0
  <2>1. b \in Own /\ b < f /\ b \in Populated(Text) /\ b \in 1..Past
    BY <1>1, <1>3, <1>6
  <2>2. b <= p /\ p # b
    BY <1>4, <2>1
  <2>3. p \in Populated(Text) /\ p < f /\ p \in Nat /\ b < p
    BY <1>1, <1>4, <2>1, <2>2
  <2>4. p \notin Own
    BY <1>4
  <2>5. PICK from \in Own : Text[from] = "RLI" /\ from < p /\ \A k \in Own : k < p => k <= from
    BY <2>1, <2>3, <2>4, InitiatorBefore
  <2>6. from \in Nat /\ from < f
    BY <1>1, <1>2, <2>3, <2>5
  <2>7. from = b
    BY <1>3, <2>1, <2>3, <2>5, <2>6
  <2>8. QED
    BY <1>3, <2>5, <2>7 DEF Ends
<1>7. QED
  BY <1>5, <1>6

(* A level run that others follow ends at an initiator.                    *)
LEMMA RunsEndAtEnds ==
  ASSUME run \in Inputs, NEW l \in Own, NextIn(Populated(Text), l) \notin Own,
         NEW k \in Own, l < k
  PROVE  Text[l] = "RLI"
<1>1. /\ Past \in Nat /\ Own \in SUBSET (1..Past) /\ Populated(Text) \in SUBSET (1..Past)
      /\ Own \subseteq Populated(Text)
  BY PositionsAre
<1>2. l \in Nat /\ k \in Nat /\ k \in Populated(Text) /\ Populated(Text) \in SUBSET Nat
  <2>1. \A i \in 1..Past : i \in Nat
    OBVIOUS
  <2>2. QED
    BY <1>1, <2>1
<1>3. PICK n : n = NextIn(Populated(Text), l) /\ IsNext(Populated(Text), l, n)
  BY <1>2, NextInIs
<1>4. n \in Populated(Text) /\ l < n /\ n <= k /\ \A i \in Populated(Text) : l < i => n <= i
  BY <1>2, <1>3 DEF IsNext
<1>5. n \notin Own /\ n # k /\ n \in Nat
  BY <1>2, <1>3, <1>4
<1>6. PICK from \in Own : Text[from] = "RLI" /\ from < n /\ \A i \in Own : i < n => i <= from
  <2>1. n < k
    BY <1>2, <1>4, <1>5
  <2>2. QED
    BY <1>4, <1>5, <2>1, InitiatorBefore
<1>7. from = l
  <2>1. from \in Nat /\ from \in Populated(Text)
    BY <1>1, <1>2
  <2>2. l <= from
    BY <1>4, <1>6
  <2>3. ~(l < from)
    BY <1>4, <1>5, <1>6, <2>1
  <2>4. QED
    BY <1>2, <2>1, <2>2, <2>3
<1>8. QED
  BY <1>6, <1>7

(* What does not go on behind another unit of the sequence starts a link.  *)
LEMMA LinkStarts ==
  ASSUME run \in Inputs, NEW i \in OwnSeen, i = 1 \/ i - 1 \notin OwnSeen
  PROVE  i \in Own
<1>1. /\ Past \in Nat /\ Past = Len(Text) + 1 /\ Len(Text) \in Nat
      /\ OwnSeen \in SUBSET (1..Len(Text))
  BY PositionsAre
<1>2. i \in 1..Len(Text) /\ i \in Seen /\ Text[i] # "X"
  BY <1>1 DEF OwnSeen
<1>3. Text[i] \in Units /\ Text[i] # "BN"
  BY <1>2, InputIs DEF Seen, VisibleIn
<1>4. StartsLink(Text, i)
  <2>1. CASE i = 1
    BY <2>1 DEF StartsLink
  <2>2. CASE i # 1
    <3>1. i - 1 \in 1..Len(Text) /\ i - 1 \notin OwnSeen
      BY <1>2, <2>2
    <3>2. Text[i - 1] \in {"X", "BN"}
      BY <3>1 DEF OwnSeen, Seen, VisibleIn
    <3>3. TypeOf(Text[i - 1]) = Text[i - 1]
      BY <3>2 DEF TypeOf, Brackets, Openings, Closings
    <3>4. TypeOf(Text[i]) \notin {"X", "BN"}
      BY <1>2, <1>3 DEF TypeOf, Units, Brackets, Openings, Closings, Isolates
    <3>5. QED
      BY <3>2, <3>3, <3>4 DEF StartsLink
  <2>3. QED
    BY <2>1, <2>2
<1>5. i < Past
  BY <1>1, <1>2
<1>6. i \in Populated(Text)
  BY <1>2, <1>4 DEF Populated, Seen
<1>7. QED
  BY <1>2, <1>5, <1>6 DEF Own

(* A sequence has a link.                                                  *)
LEMMA SomeLink ==
  ASSUME run \in Inputs
  PROVE  Own # {}
<1>1. OwnSeen \in SUBSET (1..Len(Text)) /\ OwnSeen # {}
  BY PositionsAre
<1>2. \A k \in 1..Len(Text) : k \in Nat
  OBVIOUS
<1>3. PICK i \in OwnSeen : \A k \in OwnSeen : i <= k
  <2>1. OwnSeen \in SUBSET Nat
    BY <1>1, <1>2
  <2>2. QED
    BY <1>1, <2>1, Numbers!LeastNatural
<1>4. i - 1 \notin OwnSeen
  BY <1>1, <1>2, <1>3
<1>5. i \in Own
  BY <1>4, LinkStarts
<1>6. QED
  BY <1>5

(* The link that a unit of the sequence belongs to.                        *)
LEMMA LinkOf ==
  ASSUME run \in Inputs, NEW i \in OwnSeen
  PROVE  \E s \in Own : s <= i /\ \A k \in s..i : k \in OwnSeen
<1> DEFINE T == {s \in 1..i : \A k \in s..i : k \in OwnSeen}
<1>1. OwnSeen \in SUBSET (1..Len(Text)) /\ Len(Text) \in Nat
  BY PositionsAre
<1>2. i \in 1..Len(Text) /\ i \in Nat
  BY <1>1
<1>3. i \in T /\ T \in SUBSET Nat
  BY <1>2
<1>4. PICK s \in T : \A k \in T : s <= k
  <2> HIDE DEF T
  <2>1. QED
    BY <1>3, Numbers!LeastNatural
<1>5. s \in 1..i /\ s \in OwnSeen /\ \A k \in s..i : k \in OwnSeen
  <2>1. s \in 1..i /\ \A k \in s..i : k \in OwnSeen
    OBVIOUS
  <2>2. s \in s..i
    BY <1>2, <2>1
  <2>3. QED
    BY <2>1, <2>2
<1>6. s = 1 \/ s - 1 \notin OwnSeen
  <2>1. SUFFICES ASSUME s # 1, s - 1 \in OwnSeen PROVE FALSE
    OBVIOUS
  <2>2. s - 1 \in 1..i /\ ~(s <= s - 1)
    BY <1>2, <1>5, <2>1
  <2>3. \A k \in (s - 1)..i : k = s - 1 \/ k \in s..i
    BY <1>2, <1>5
  <2>4. s - 1 \in T
    BY <1>5, <2>1, <2>2, <2>3
  <2>5. QED
    BY <1>4, <2>2, <2>4
<1>7. s \in Own
  BY <1>5, <1>6, LinkStarts
<1>8. QED
  BY <1>5, <1>7

(* AttachOriginalLinks, on P, the links of the paragraph, of which O are   *)
(* those of the sequence, C those that were not merged away, and T those   *)
(* that ended the level runs: the links lk become re.                      *)
Reattaches(past, P, O, C, lk, T, last, re) ==
  /\ past \in Nat /\ P \in SUBSET (1..past) /\ O \in SUBSET P /\ O # {} /\ C \in SUBSET O
  /\ Ascends(lk, past) /\ Spans(lk, C)
  /\ T = {l \in O : NextIn(P, l) \notin O}
  /\ \A f \in O : Before(P, f) \notin O => f \in C
  /\ \A l \in T : l \in C \/ \A k \in O : k <= l
  /\ last \in C \cup {0} /\ lk[last] = 0
  /\ \A l \in P \ O : lk[l] = NextIn(P, l)
  /\ re = [l \in 0..past |-> IF l = last THEN NextIn(P, Max(T))
                            ELSE IF l \in T \cup {0} THEN NextIn(P, l) ELSE lk[l]]

(* Then they go through the links of all sequences, but for merged ones.   *)
LEMMA RunsReattached ==
  ASSUME NEW past, NEW P, NEW O, NEW C, NEW lk, NEW T, NEW last, NEW re,
         Reattaches(past, P, O, C, lk, T, last, re)
  PROVE  Ascends(re, past) /\ Spans(re, (P \ O) \cup C)
<1> SUFFICES
      ASSUME past \in Nat, P \in SUBSET (1..past), O \in SUBSET P, O # {}, C \in SUBSET O,
             Ascends(lk, past), Spans(lk, C), T = {l \in O : NextIn(P, l) \notin O},
             \A f \in O : Before(P, f) \notin O => f \in C,
             \A l \in T : l \in C \/ \A k \in O : k <= l,
             last \in C \cup {0}, lk[last] = 0,
             \A l \in P \ O : lk[l] = NextIn(P, l),
             re = [l \in 0..past |-> IF l = last THEN NextIn(P, Max(T))
                                    ELSE IF l \in T \cup {0} THEN NextIn(P, l) ELSE lk[l]]
      PROVE  Ascends(re, past) /\ Spans(re, (P \ O) \cup C)
  BY DEF Reattaches
<1> DEFINE M == (P \ O) \cup C
<1>1. /\ P \in SUBSET Nat /\ \A l \in P : l \in 1..past /\ l \in 0..past /\ l # 0
      /\ \A l \in O : l \in P /\ \A m \in C : m \in O
      /\ 0 \in 0..past /\ 0 \notin P
  <2>1. \A l \in 1..past : l \in Nat /\ l \in 0..past /\ l # 0
    OBVIOUS
  <2>2. \A l \in P : l \in 1..past
    OBVIOUS
  <2>3. QED
    BY <2>1, <2>2
<1>2. \A l \in 0..past : IsNext(P, l, NextIn(P, l))
  <2>1. \A l \in 0..past : l \in Nat
    OBVIOUS
  <2>2. QED
    BY <1>1, <2>1, NextInIs
<1>3. \A k \in O : k \in Nat
  BY <1>1
<1>4. PICK mo \in O : \A k \in O : k <= mo
  <2>1. O \in SUBSET (0..past)
    BY <1>1
  <2>2. QED
    BY <2>1, MaxIs
<1>5. mo \in T /\ \A k \in T : k <= mo
  <2>1. IsNext(P, mo, NextIn(P, mo))
    BY <1>1, <1>2, <1>4
  <2>2. NextIn(P, mo) \notin O
    <3>1. PICK n : n = NextIn(P, mo)
      OBVIOUS
    <3>2. n = 0 \/ mo < n
      BY <2>1, <3>1 DEF IsNext
    <3>3. 0 \notin O /\ (n \in O => n \in Nat /\ mo \in Nat /\ n <= mo)
      BY <1>1, <1>3, <1>4
    <3>4. QED
      BY <3>1, <3>2, <3>3
  <2>3. QED
    BY <1>4, <2>2
<1>6. Max(T) = mo
  <2>1. T \in SUBSET (0..past) /\ T # {}
    BY <1>1, <1>5
  <2>2. Max(T) \in T /\ \A k \in T : k <= Max(T)
    BY <2>1, MaxIs
  <2>3. Max(T) \in Nat /\ mo \in Nat /\ mo <= Max(T) /\ Max(T) <= mo
    BY <1>3, <1>5, <2>2
  <2>4. QED
    BY <2>3
<1>7. last # 0 /\ last \in C /\ last \in O /\ \A k \in C : k <= last
  <2>1. IsNext(C, last, 0)
    BY DEF Spans
  <2>2. \A k \in C : k <= last
    BY <1>1, <2>1 DEF IsNext
  <2>3. PICK f \in O : \A k \in O : f <= k
    <3>1. O \in SUBSET Nat
      BY <1>3
    <3>2. QED
      BY <3>1, Numbers!LeastNatural
  <2>4. Before(P, f) \notin O
    <3>1. f \in Nat
      BY <1>3
    <3>2. PICK b : b = Before(P, f) /\ ((b \in P /\ b < f) \/ b = 0)
      BY <3>1, BeforeIs
    <3>3. b \notin O
      <4>1. 0 \notin O
        BY <1>1
      <4>2. b \in O => b \in Nat /\ f <= b
        BY <1>3, <2>3
      <4>3. QED
        BY <3>1, <3>2, <4>1, <4>2
    <3>4. QED
      BY <3>2, <3>3
  <2>5. f \in C
    BY <2>3, <2>4
  <2>6. last # 0
    BY <1>1, <2>2, <2>5
  <2>7. QED
    BY <2>2, <2>6
<1>8. \A l \in 0..past : lk[l] \in 0..past /\ (lk[l] = 0 \/ l < lk[l])
  BY DEF Ascends
<1>9. \A l \in 0..past : NextIn(P, l) \in 0..past /\ (NextIn(P, l) = 0 \/ l < NextIn(P, l))
  BY <1>1, <1>2 DEF IsNext
<1>10. \A l \in 0..past : re[l] = IF l = last THEN NextIn(P, mo)
                                  ELSE IF l \in T \cup {0} THEN NextIn(P, l) ELSE lk[l]
  BY <1>6
<1>11. mo \in 0..past /\ last <= mo /\ mo \in P /\ mo \in Nat /\ last \in Nat /\ last \in 0..past
  BY <1>1, <1>4, <1>7
<1>12. Ascends(re, past)
  <2>1. ASSUME NEW l \in 0..past PROVE re[l] \in 0..past /\ (re[l] = 0 \/ l < re[l])
    <3>1. CASE l = last
      <4>1. NextIn(P, mo) \in 0..past /\ (NextIn(P, mo) = 0 \/ mo < NextIn(P, mo))
        BY <1>9, <1>11
      <4>2. QED
        BY <1>10, <1>11, <3>1, <4>1
    <3>2. CASE l # last
      BY <1>8, <1>9, <1>10, <3>2
    <3>3. QED
      BY <3>1, <3>2
  <2>2. re \in [0..past -> 0..past]
    BY <2>1
  <2>3. QED
    BY <2>1, <2>2 DEF Ascends
<1>13. ASSUME NEW l \in 0..past, NEW n, n = NextIn(P, l),
              n # 0 /\ n \in O => Before(P, n) \notin O
       PROVE  IsNext(M, l, n)
  <2>1. IsNext(P, l, n)
    BY <1>2, <1>13
  <2>2. n = 0 \/ n \in M
    BY <1>13, <2>1 DEF IsNext
  <2>3. M \subseteq P
    BY <1>1
  <2>4. QED
    BY <1>1, <2>1, <2>2, <2>3 DEF IsNext
(* Before another link, a run of the sequence has ended.                   *)
<1>14. ASSUME NEW k \in P \ O, NEW l \in O, l < k
       PROVE  \E t \in T : l <= t /\ t < k
  <2>1. O \in SUBSET (1..past) /\ k \in Nat
    BY <1>1
  <2>2. PICK t : /\ t = Before(O, k) /\ ((t \in O /\ t < k) \/ t = 0)
                 /\ \A j \in O : j < k => j <= t
    BY <2>1, BeforeIs
  <2>3. l <= t /\ l \in Nat /\ l # 0
    <3>1. l \in O /\ l < k /\ l \in P
      BY <1>1, <1>14
    <3>2. l \in Nat /\ l # 0
      BY <1>1, <3>1
    <3>3. QED
      BY <2>2, <3>1, <3>2
  <2>4. t \in O /\ t < k /\ t \in Nat
    <3>1. t # 0
      BY <2>3
    <3>2. QED
      BY <1>3, <2>2, <3>1
  <2>5. IsNext(P, t, NextIn(P, t))
    BY <1>1, <1>2, <2>4
  <2>6. NextIn(P, t) \notin O
    <3>1. PICK n : n = NextIn(P, t)
      OBVIOUS
    <3>2. t < n /\ n <= k /\ n \in P
      <4>1. k \in P /\ t < k
        BY <2>4
      <4>2. QED
        BY <1>1, <2>1, <2>4, <2>5, <3>1, <4>1 DEF IsNext
    <3>3. n # k => n < k
      BY <1>1, <2>1, <3>2
    <3>4. n \notin O
      BY <1>1, <1>3, <2>2, <2>4, <3>2, <3>3
    <3>5. QED
      BY <3>1, <3>4
  <2>7. QED
    BY <2>3, <2>4, <2>6
<1>15. ASSUME NEW l \in M \cup {0} PROVE IsNext(M, l, re[l])
  <2>1. l \in 0..past
    BY <1>1, <1>15
  <2>2. CASE l = 0
    <3>1. re[l] = NextIn(P, l)
      BY <1>7, <1>10, <2>1, <2>2
    <3>2. ASSUME NEW n, n = NextIn(P, l), n # 0 /\ n \in O PROVE Before(P, n) \notin O
      <4>1. IsNext(P, 0, n)
        BY <1>2, <2>1, <2>2, <3>2
      <4>2. n \in P /\ \A k \in P : n <= k
        BY <1>1, <3>2, <4>1 DEF IsNext
      <4>3. n \in Nat
        BY <1>1, <4>2
      <4>4. PICK b : b = Before(P, n) /\ ((b \in P /\ b < n) \/ b = 0)
        BY <4>3, BeforeIs
      <4>5. b = 0
        <5>1. b \in P => b \in Nat /\ n <= b
          BY <1>1, <4>2
        <5>2. QED
          BY <4>3, <4>4, <5>1
      <4>6. QED
        BY <1>1, <4>4, <4>5
    <3>3. QED
      BY <1>13, <2>1, <3>1, <3>2
  <2>3. CASE l \in P \ O
    <3>1. re[l] = NextIn(P, l)
      <4>1. l # last /\ l \notin T \cup {0}
        BY <1>1, <1>7, <2>3
      <4>2. QED
        BY <1>10, <2>1, <2>3, <4>1
    <3>2. ASSUME NEW n, n = NextIn(P, l), n # 0 /\ n \in O PROVE Before(P, n) \notin O
      <4>1. IsNext(P, l, n)
        BY <1>2, <2>1, <3>2
      <4>2. n \in P /\ l < n /\ \A k \in P : l < k => n <= k
        BY <3>2, <4>1 DEF IsNext
      <4>3. n \in Nat /\ l \in Nat /\ l \in P
        BY <1>1, <2>3, <4>2
      <4>4. PICK b : /\ b = Before(P, n) /\ ((b \in P /\ b < n) \/ b = 0)
                     /\ \A k \in P : k < n => k <= b
        <5> PICK m \in Nat : m = n
          BY <4>3
        <5> PICK b : /\ b = Before(P, m) /\ ((b \in P /\ b < m) \/ b = 0)
                     /\ \A k \in P : k < m => k <= b
          BY BeforeIs
        <5> QED
          OBVIOUS
      <4>5. l <= b /\ b \in Nat
        <5>1. l <= b
          BY <4>2, <4>3, <4>4
        <5>2. \A x \in P : x \in Nat
          BY <1>1
        <5>3. b \in Nat
          <6>1. CASE b \in P
            BY <5>2, <6>1
          <6>2. CASE b = 0
            BY <6>2
          <6>3. QED
            BY <4>4, <6>1, <6>2
        <5>4. QED
          BY <5>1, <5>3
      <4>6. b = l
        <5>1. b \in P /\ b < n
          BY <1>1, <4>3, <4>4, <4>5
        <5>2. QED
          BY <4>2, <4>3, <4>5, <5>1
      <4>7. QED
        BY <2>3, <4>4, <4>6
    <3>3. QED
      BY <1>13, <2>1, <3>1, <3>2
  <2>4. CASE l \in T /\ l # last
    <3>1. re[l] = NextIn(P, l) /\ NextIn(P, l) \notin O
      BY <1>10, <2>1, <2>4
    <3>2. QED
      BY <1>13, <2>1, <3>1
  <2>5. CASE l \in C \ T /\ l # last
    <3>1. re[l] = lk[l] /\ IsNext(C, l, lk[l]) /\ l \in O /\ l \in Nat
      <4>1. l # 0
        BY <1>1, <2>5
      <4>2. QED
        BY <1>1, <1>10, <2>1, <2>5, <4>1 DEF Spans
    <3>2. PICK m : m = lk[l]
      OBVIOUS
    <3>3. m # 0
      <4>1. SUFFICES ASSUME m = 0 PROVE FALSE
        OBVIOUS
      <4>2. \A k \in C : k <= l
        BY <1>1, <3>1, <3>2, <4>1 DEF IsNext
      <4>3. last <= l /\ l <= last
        BY <1>7, <2>5, <4>2
      <4>4. QED
        BY <1>11, <2>5, <3>1, <4>3
    <3>4. m \in C /\ l < m /\ \A k \in C : l < k => m <= k
      BY <3>1, <3>2, <3>3 DEF IsNext
    <3>5. m \in Nat /\ m \in O
      BY <1>1, <3>4
    <3>6. ASSUME NEW k \in P \ O, l < k PROVE m <= k
      <4>1. SUFFICES ASSUME k < m PROVE FALSE
        BY <1>1, <3>5
      <4>2. PICK t \in T : l <= t /\ t < k
        BY <1>14, <3>1, <3>6
      <4>3. t \in Nat /\ k \in Nat
        BY <1>1, <4>2
      <4>4. l < t /\ t < m
        BY <2>5, <3>1, <3>5, <4>1, <4>2, <4>3
      <4>5. t \in C
        BY <3>5, <4>3, <4>4
      <4>6. QED
        BY <3>4, <3>5, <4>3, <4>4, <4>5
    <3>7. \A k \in M : l < k => m <= k
      BY <3>4, <3>6
    <3>8. QED
      BY <3>1, <3>2, <3>4, <3>7 DEF IsNext
  <2>6. CASE l = last
    <3>1. PICK n : n = NextIn(P, mo)
      OBVIOUS
    <3>2. re[l] = n /\ IsNext(P, mo, n) /\ n \notin O
      BY <1>2, <1>5, <1>10, <1>11, <2>1, <2>6, <3>1
    <3>3. ASSUME NEW k \in M, last < k PROVE k \in P \ O /\ mo < k
      <4>1. k \in P \ O /\ k \in Nat
        BY <1>1, <1>7, <1>11, <3>3
      <4>2. SUFFICES ASSUME ~(mo < k) PROVE FALSE
        BY <4>1
      <4>3. k # mo /\ k < mo
        BY <1>11, <4>1, <4>2
      <4>4. PICK t \in T : last <= t /\ t < k
        BY <1>7, <1>14, <3>3, <4>1
      <4>5. t \in Nat /\ t \in O /\ ~(mo <= t)
        BY <1>3, <1>11, <4>1, <4>3, <4>4
      <4>6. t \in C
        BY <1>4, <4>5
      <4>7. t = last
        BY <1>7, <1>11, <4>4, <4>5, <4>6
      <4>8. PICK f : IsNext(O, k, f) /\ f = NextIn(O, k)
        <5>1. O \in SUBSET Nat
          BY <1>3
        <5>2. QED
          BY <4>1, <5>1, NextInIs
      <4>9. f \in O /\ k < f /\ f \in Nat /\ \A j \in O : k < j => f <= j
        <5>1. ~(\A j \in O : j <= k)
          BY <1>4, <1>11, <4>1, <4>3
        <5>2. f \in O /\ k < f /\ \A j \in O : k < j => f <= j
          BY <4>8, <5>1 DEF IsNext
        <5>3. QED
          BY <1>3, <5>2
      <4>10. Before(P, f) \notin O
        <5>1. PICK b : /\ b = Before(P, f) /\ ((b \in P /\ b < f) \/ b = 0)
                       /\ \A j \in P : j < f => j <= b
          BY <4>9, BeforeIs
        <5>2. k <= b /\ b \in Nat
          <6>1. k <= b
            BY <4>1, <4>9, <5>1
          <6>2. \A x \in P : x \in Nat
            BY <1>1
          <6>3. b \in Nat
            <7>1. CASE b \in P
              BY <6>2, <7>1
            <7>2. CASE b = 0
              BY <7>2
            <7>3. QED
              BY <5>1, <7>1, <7>2
          <6>4. QED
            BY <6>1, <6>3
        <5>3. b < f
          BY <1>1, <4>1, <5>1, <5>2
        <5>4. b \notin O
          BY <4>1, <4>9, <5>2, <5>3
        <5>5. QED
          BY <5>1, <5>4
      <4>11. f \in C
        BY <4>9, <4>10
      <4>12. QED
        BY <1>7, <1>11, <3>3, <4>1, <4>9, <4>11
    <3>4. CASE n = 0
      <4>1. \A k \in P : k <= mo
        BY <1>1, <3>2, <3>4 DEF IsNext
      <4>2. \A k \in M : k <= last
        <5>1. ASSUME NEW k \in M PROVE ~(last < k) /\ k \in Nat
          BY <1>1, <1>11, <3>3, <4>1
        <5>2. QED
          BY <1>11, <5>1
      <4>3. QED
        BY <2>6, <3>2, <3>4, <4>2 DEF IsNext
    <3>5. CASE n # 0
      <4>1. n \in P \ O /\ mo < n /\ \A k \in P : mo < k => n <= k
        BY <3>2, <3>5 DEF IsNext
      <4>2. n \in M /\ last < n
        BY <1>1, <1>11, <4>1
      <4>3. \A k \in M : last < k => n <= k
        BY <3>3, <4>1
      <4>4. QED
        BY <2>6, <3>2, <4>2, <4>3 DEF IsNext
    <3>6. QED
      BY <3>4, <3>5
  <2>7. QED
    BY <2>2, <2>3, <2>4, <2>5, <2>6
<1>16. Spans(re, M)
  BY <1>15 DEF Spans
<1>17. QED
  BY <1>12, <1>16

-----------------------------------------------------------------------------
(* The other sequences of the paragraph.                                   *)

(* The last link of all is known, so that it can be tied to what follows.  *)
LastInv ==
  phase \in Walks \ {"weak", "numbers"} => lastLink \in Chain \cup {0} /\ links[lastLink] = 0

(* Merges spare the links that other level runs come behind.               *)
EndsInv == phase \in Walks => Ends \subseteq Chain

(* They do since isolates keep their types while links merge,              *)
IsolatesInv ==
  phase \in {"attach", "weak", "numbers"} =>
    \A l \in Own : \A t \in Isolates : types[l] = t <=> Text[l] = t

(* and since nothing comes before a mark at the start but sos.             *)
FirstInv == phase = "weak" /\ priorLink = 0 => prior.w1 \in {"L", "R"}

OthersInv ==
  \A l \in 1..Past : l \notin Own =>
    /\ links[l] = Original(l) /\ levels[l] = OtherLevel
    /\ types[l] = IF l = Past THEN "Nil" ELSE TypeOf(Text[l])

ResolvedInv ==
  phase = "resolved" =>
    Ends \subseteq Chain /\ Populated(Text) \ Own \subseteq Chain /\ Chain \subseteq Populated(Text)

KInv == LastInv /\ EndsInv /\ IsolatesInv /\ FirstInv /\ OthersInv /\ ResolvedInv

(* Only isolates have the types of isolates.                               *)
LEMMA IsolateTypes ==
  \A unit \in Units : \A t \in Isolates : TypeOf(unit) = t <=> unit = t
  BY DEF TypeOf, Units, Brackets, Openings, Closings, Isolates

(* The start, where the links are those of the paragraph.                  *)
LEMMA InitKeeps == Init => KInv
<1> SUFFICES ASSUME Init PROVE KInv
  OBVIOUS
<1>0. run \in Inputs /\ phase = "attach"
  BY DEF Init
<1>1. /\ Len(Text) \in Nat /\ Past \in Nat /\ Past = Len(Text) + 1
      /\ \A l \in 1..Len(Text) : Text[l] \in Units
      /\ \A l \in Own : l \in 1..Len(Text)
  BY <1>0, InputIs
<1>2. /\ links = [l \in 0..Past |-> NextIn(Populated(Text), l)]
      /\ types = [l \in 0..Past |-> IF l \in 1..Len(Text) THEN TypeOf(Text[l]) ELSE "Nil"]
      /\ levels = [l \in 0..Past |-> IF l \in Own THEN run.level ELSE OtherLevel]
  BY DEF Init
<1>3. \A l \in 1..Past : l \in 0..Past /\ (l \in 1..Len(Text) <=> l # Past)
  BY <1>1
<1>4. OthersInv
  BY <1>2, <1>3 DEF OthersInv, Original
<1>5. IsolatesInv
  <2>1. ASSUME NEW l \in Own PROVE types[l] = TypeOf(Text[l]) /\ Text[l] \in Units
    <3>1. l \in 1..Len(Text) /\ l \in 0..Past
      BY <1>1
    <3>2. QED
      BY <1>1, <1>2, <3>1
  <2>2. QED
    BY <2>1, IsolateTypes DEF IsolatesInv
<1>6. LastInv /\ EndsInv /\ FirstInv /\ ResolvedInv
  BY <1>0 DEF LastInv, EndsInv, FirstInv, ResolvedInv, Walks
<1>7. QED
  BY <1>4, <1>5, <1>6 DEF KInv

(* What is defined by the run stays with it.                               *)
LEMMA EndsStay ==
  ASSUME run' = run
  PROVE  /\ Text' = Text /\ Past' = Past /\ Own' = Own /\ Ends' = Ends
         /\ Populated(Text)' = Populated(Text)
         /\ links' = links => Chain' = Chain
  BY DEF Text, Past, Own, Ends, Chain

(* Steps that write to links of the sequence only.                         *)
LEMMA OthersStay ==
  ASSUME KInv, run' = run,
         \A l \in 1..Past : l \notin Own =>
           links'[l] = links[l] /\ levels'[l] = levels[l] /\ types'[l] = types[l]
  PROVE  OthersInv'
<1>1. Text' = Text /\ Past' = Past /\ Own' = Own
  BY EndsStay
<1>2. QED
  BY <1>1 DEF KInv, OthersInv, Original

(* Steps of the walks behind ResolveWeakTypes, which leave the links alone.*)
LEMMA WalksOn ==
  ASSUME IInv, KInv, run' = run, links' = links, lastLink' = lastLink,
         phase \in Walks \ {"weak", "numbers"},
         phase' \in (Walks \ {"weak", "numbers"}) \cup {"failed"},
         \A l \in 1..Past : l \notin Own => levels'[l] = levels[l] /\ types'[l] = types[l]
  PROVE  KInv'
<1>1. Text' = Text /\ Past' = Past /\ Own' = Own /\ Ends' = Ends /\ Chain' = Chain
  BY EndsStay
<1>2. OthersInv'
  BY OthersStay
<1>3. LastInv' /\ EndsInv'
  BY <1>1 DEF KInv, LastInv, EndsInv
<1>4. IsolatesInv' /\ FirstInv' /\ ResolvedInv'
  BY DEF IsolatesInv, FirstInv, ResolvedInv, Walks
<1>5. QED
  BY <1>2, <1>3, <1>4 DEF KInv

-----------------------------------------------------------------------------
(* Merges spare the ends.                                                  *)

(* What is at an end, and before it.                                       *)
LEMMA EndIs ==
  ASSUME run \in Inputs, NEW l \in Ends
  PROVE  /\ l \in Own /\ l \in 1..Past
         /\ \/ Text[l] = "RLI"
            \/ \A k \in Own : ~(k < l)
            \/ /\ Text[l] = "PDI"
               /\ \E q \in Own : Text[q] = "RLI" /\ q < l /\ \A k \in Own : k < l => k <= q
<1>1. Past \in Nat /\ Own \in SUBSET (1..Past)
  BY InputIs
<1>2. /\ l \in Own /\ l \in 1..Past /\ l \in Nat
      /\ Text[l] = "RLI" \/ Before(Own, l) = 0 \/ Text[Before(Own, l)] = "RLI"
  BY <1>1 DEF Ends
<1>3. PICK q : /\ q = Before(Own, l) /\ ((q \in Own /\ q < l) \/ q = 0)
               /\ \A k \in Own : k < l => k <= q
  BY <1>1, <1>2, BeforeIs
<1>4. CASE q = 0
  <2>1. \A k \in Own : k \in 1..Past
    BY <1>1
  <2>2. \A k \in Own : ~(k < l)
    BY <1>3, <1>4, <2>1
  <2>3. QED
    BY <1>2, <2>2
<1>5. CASE q # 0 /\ Text[q] = "RLI"
  <2>1. q \in Own /\ q < l
    BY <1>3, <1>5
  <2>2. \A k \in Own : q < k => l <= k
    <3>1. \A k \in Own : k \in 1..Past /\ (k < l => k <= q)
      BY <1>1, <1>3
    <3>2. q \in 1..Past
      BY <1>1, <2>1
    <3>3. QED
      BY <1>2, <3>1, <3>2
  <2>3. Text[l] = "PDI"
    BY <1>2, <1>5, <2>1, <2>2, TerminatorFollows
  <2>4. QED
    BY <1>2, <1>3, <1>5, <2>1, <2>3
<1>6. QED
  BY <1>2, <1>3, <1>4, <1>5

(* Where a walk that merges links is.                                      *)
LEMMA AtPrior ==
  ASSUME IInv, KInv, phase \in {"weak", "numbers"}, link # 0
  PROVE  /\ run \in Inputs /\ Past \in Nat
         /\ Own \in SUBSET (1..Past) /\ Own \in SUBSET Nat
         /\ Chain \subseteq Own /\ Ends \subseteq Chain /\ link \in Own
         /\ priorLink \in Chain \cup {0} /\ priorLink < link
         /\ \A k \in Chain : priorLink < k => link <= k
         /\ \A l \in Own : \A t \in Isolates : types[l] = t <=> Text[l] = t
         /\ types[0] = "Nil"
<1>0. phase \in Walks
  BY DEF Walks
<1>1. run \in Inputs /\ Past \in Nat /\ Own \in SUBSET (1..Past)
  BY InputIs DEF IInv, TypeOK
<1>2. Chain \subseteq Own /\ link \in Chain
  BY <1>0, AtLink
<1>3. Spans(links, Chain) /\ priorLink \in Chain \cup {0} /\ links[priorLink] = link
  BY <1>0 DEF IInv, ChainInv
<1>4. IsNext(Chain, priorLink, link)
  BY <1>3 DEF Spans
<1>5. priorLink < link /\ \A k \in Chain : priorLink < k => link <= k
  BY <1>4 DEF IsNext
<1>6. Own \in SUBSET Nat
  <2>1. \A k \in 1..Past : k \in Nat
    OBVIOUS
  <2>2. QED
    BY <1>1, <2>1
<1>7. types[0] = "Nil"
  <2>1. 0 \in 0..Past
    BY <1>1
  <2>2. QED
    BY <2>1 DEF IInv, TypeOK
<1>8. Ends \subseteq Chain /\ \A l \in Own : \A t \in Isolates : types[l] = t <=> Text[l] = t
  BY <1>0 DEF KInv, EndsInv, IsolatesInv
<1>9. QED
  BY <1>1, <1>2, <1>3, <1>5, <1>6, <1>7, <1>8

(* Types alike: an end is not merged with the link before it.              *)
LEMMA EndNotAlike ==
  ASSUME IInv, KInv, phase \in {"weak", "numbers"}, link # 0, link \in Ends,
         NEW type, type # "Nil", types[link] \in Isolates => type = types[link],
         types[priorLink] = type
  PROVE  FALSE
<1>1. /\ run \in Inputs /\ Own \in SUBSET Nat /\ Past \in Nat
      /\ Chain \subseteq Own /\ Ends \subseteq Chain /\ link \in Own
      /\ priorLink \in Chain \cup {0} /\ priorLink < link
      /\ \A k \in Chain : priorLink < k => link <= k
      /\ \A l \in Own : \A t \in Isolates : types[l] = t <=> Text[l] = t
      /\ types[0] = "Nil"
  BY AtPrior
<1>2. priorLink \in Chain /\ priorLink \in Own /\ priorLink \in Nat /\ link \in Nat
  <2>1. priorLink # 0
    BY <1>1
  <2>2. QED
    BY <1>1, <2>1
<1>3. "RLI" \in Isolates /\ "PDI" \in Isolates
  BY DEF Isolates
<1>4. CASE Text[link] = "RLI"
  <2>1. types[priorLink] = "RLI"
    BY <1>1, <1>3, <1>4
  <2>2. Text[priorLink] = "RLI"
    BY <1>1, <1>2, <1>3, <2>1
  <2>3. \A k \in Own : priorLink < k => link <= k
    <3>1. PICK a : IsNext(Own, priorLink, a)
      BY <1>1, <1>2, NextInIs
    <3>2. a \in Own /\ priorLink < a /\ a <= link /\ \A k \in Own : priorLink < k => a <= k
      <4>1. ~(link <= priorLink)
        BY <1>1, <1>2
      <4>2. QED
        BY <1>1, <3>1, <4>1 DEF IsNext
    <3>3. a \in Nat
      BY <1>1, <3>2
    <3>4. Before(Own, a) = priorLink
      <4>1. Own \in SUBSET (1..Past)
        BY <1>1, InputIs
      <4>2. PICK b : /\ b = Before(Own, a) /\ ((b \in Own /\ b < a) \/ b = 0)
                     /\ \A k \in Own : k < a => k <= b
        BY <1>1, <3>3, <4>1, BeforeIs
      <4>3. priorLink <= b /\ priorLink # 0
        BY <1>2, <3>2, <4>1, <4>2
      <4>4. b \in Own /\ b < a /\ b \in Nat
        <5>1. b # 0
          BY <1>2, <4>3
        <5>2. QED
          BY <1>1, <4>2, <5>1
      <4>5. ~(priorLink < b)
        BY <3>2, <3>3, <4>4
      <4>6. QED
        BY <1>2, <4>2, <4>3, <4>4, <4>5
    <3>5. a \in Chain
      BY <1>1, <2>2, <3>2, <3>4 DEF Ends
    <3>6. a = link
      BY <1>1, <1>2, <3>2, <3>3, <3>5
    <3>7. QED
      BY <3>2, <3>6
  <2>4. Text[link] = "PDI"
    BY <1>1, <1>2, <2>2, <2>3, TerminatorFollows
  <2>5. QED
    BY <1>4, <2>4
<1>5. CASE \A k \in Own : ~(k < link)
  BY <1>1, <1>2, <1>5
<1>6. CASE /\ Text[link] = "PDI"
           /\ \E q \in Own : Text[q] = "RLI" /\ q < link /\ \A k \in Own : k < link => k <= q
  <2>1. PICK q \in Own : Text[q] = "RLI" /\ q < link /\ \A k \in Own : k < link => k <= q
    BY <1>6
  <2>2. q \in Chain /\ q \in Nat
    BY <1>1, <2>1 DEF Ends
  <2>3. priorLink = q
    <3>1. priorLink <= q
      BY <1>1, <1>2, <2>1
    <3>2. ~(priorLink < q)
      BY <1>1, <1>2, <2>1, <2>2
    <3>3. QED
      BY <1>2, <2>2, <3>1, <3>2
  <2>4. types[priorLink] = "RLI" /\ types[link] = "PDI"
    BY <1>1, <1>3, <1>6, <2>1, <2>3
  <2>5. QED
    BY <1>3, <2>4
<1>7. QED
  BY <1>1, <1>4, <1>5, <1>6, EndIs

(* A mark behind what has become ON: it is none of the ends.               *)
LEMMA EndNotForced ==
  ASSUME IInv, KInv, phase = "weak", link # 0, link \in Ends, types[link] = "NSM",
         prior.w1 = "ON"
  PROVE  FALSE
<1>1. /\ run \in Inputs /\ Chain \subseteq Own /\ link \in Own
      /\ priorLink \in Chain \cup {0} /\ priorLink < link
      /\ \A l \in Own : \A t \in Isolates : types[l] = t <=> Text[l] = t
  BY AtPrior
<1>2. Text[link] # "RLI" /\ Text[link] # "PDI"
  <2>1. "RLI" \in Isolates /\ "PDI" \in Isolates
    BY DEF Isolates
  <2>2. QED
    BY <1>1, <2>1
<1>3. \A k \in Own : ~(k < link)
  BY <1>1, <1>2, EndIs
<1>4. priorLink = 0
  BY <1>1, <1>3
<1>5. QED
  BY <1>4 DEF KInv, FirstInv

(* A step that merges links, or does not.                                  *)
LEMMA EndsKept ==
  ASSUME IInv, KInv, phase \in {"weak", "numbers"}, link # 0, run' = run, phase' = phase,
         NEW type, NEW forceMerge, MergeOrGoOn(type, forceMerge),
         type # "Nil", types[link] \in Isolates => type = types[link],
         forceMerge => phase = "weak" /\ types[link] = "NSM" /\ prior.w1 = "ON",
         NEW written, types' = [types EXCEPT ![link] = written],
         \A t \in Isolates : written = t <=> types[link] = t
  PROVE  LastInv' /\ EndsInv' /\ IsolatesInv' /\ OthersInv' /\ ResolvedInv'
<1>1. /\ Own \in SUBSET (1..Past) /\ Ends \subseteq Chain /\ link \in Own
      /\ \A l \in Own : \A t \in Isolates : types[l] = t <=> Text[l] = t
  BY AtPrior
<1>2. /\ \/ Chain' = Chain
         \/ /\ Chain' = Chain \ {link}
            /\ \/ type # "ON" /\ types[priorLink] = type
               \/ forceMerge
      /\ \A l \in 1..Past : l \notin Own => links'[l] = links[l]
      /\ levels' = levels
  BY Merged
<1>3. Text' = Text /\ Past' = Past /\ Own' = Own /\ Ends' = Ends
  BY EndsStay
<1>4. Ends \subseteq Chain'
  <2>1. CASE link \in Ends
    <3>1. ~(type # "ON" /\ types[priorLink] = type)
      BY <2>1, EndNotAlike
    <3>2. ~forceMerge
      BY <2>1, EndNotForced
    <3>3. QED
      BY <1>1, <1>2, <3>1, <3>2
  <2>2. CASE link \notin Ends
    BY <1>1, <1>2, <2>2
  <2>3. QED
    BY <2>1, <2>2
<1>5. DOMAIN types = 0..Past
  BY DEF IInv, TypeOK
<1>6. \A l \in 0..Past : types'[l] = IF l = link THEN written ELSE types[l]
  BY <1>5
<1>7. \A l \in 1..Past : l \in 0..Past
  OBVIOUS
<1>8. \A l \in Own : \A t \in Isolates : types'[l] = t <=> Text[l] = t
  BY <1>1, <1>6, <1>7
<1>9. OthersInv'
  <2>1. \A l \in 1..Past : l \notin Own => types'[l] = types[l]
    BY <1>1, <1>6, <1>7
  <2>2. QED
    BY <1>2, <2>1, OthersStay
<1>10. EndsInv' /\ IsolatesInv'
  BY <1>3, <1>4, <1>8 DEF EndsInv, IsolatesInv
<1>11. LastInv' /\ ResolvedInv'
  BY DEF LastInv, ResolvedInv
<1>12. QED
  BY <1>9, <1>10, <1>11

-----------------------------------------------------------------------------
(* One lemma for each action, or for some that write alike.                *)

(* The ends are in the chain at first.                                     *)
LEMMA AttachKeeps == ASSUME IInv, KInv, Attach PROVE KInv'
<1>0. /\ phase = "attach" /\ phase' = "weak" /\ run' = run
      /\ prior' = [prior EXCEPT !.w1 = run.sos, !.w2 = run.sos]
      /\ types' = types /\ levels' = levels
  BY DEF Attach
<1>1. /\ Chain' = Own /\ \A l \in 1..Past : l \notin Own => links'[l] = links[l]
  BY AttachedIs
<1>2. Text' = Text /\ Past' = Past /\ Own' = Own /\ Ends' = Ends
  BY <1>0, EndsStay
<1>3. OthersInv'
  BY <1>0, <1>1, OthersStay
<1>4. EndsInv'
  BY <1>1, <1>2 DEF EndsInv, Ends
<1>5. IsolatesInv'
  BY <1>0, <1>2 DEF KInv, IsolatesInv
<1>6. FirstInv'
  <2>1. run.sos \in {"L", "R"}
    BY InputIs DEF IInv, TypeOK
  <2>2. QED
    BY <1>0, <2>1 DEF FirstInv
<1>7. LastInv' /\ ResolvedInv'
  BY <1>0 DEF LastInv, ResolvedInv
<1>8. QED
  BY <1>3, <1>4, <1>5, <1>6, <1>7 DEF KInv

(* W1 to W3 change no isolate, and merge none.                             *)
LEMMA MarksKeep == ASSUME IInv, KInv, ResolveMarks PROVE KInv'
<1> DEFINE isMark  == types[link] = "NSM"
           type    == IF ~isMark THEN types[link]
                      ELSE IF prior.w1 \in Isolates THEN "ON" ELSE prior.w1
           written == CASE type = "EN" /\ prior.w2 = "AL" -> "AN"
                        [] type = "AL" -> "R"
                        [] OTHER -> type
           forced  == isMark /\ prior.w1 = "ON"
<1>0. /\ phase = "weak" /\ phase' = "weak" /\ link # 0 /\ run' = run
      /\ types' = [types EXCEPT ![link] = written]
      /\ MergeOrGoOn(type, forced)
  BY DEF ResolveMarks, At
<1>1. types[link] \in Marked /\ prior.w1 \in Based
  <2>1. link \in Chain
    BY <1>0, AtLink DEF Walks
  <2>2. QED
    BY <1>0, <2>1 DEF IInv, TypesInv, PriorInv
<1>2. /\ type # "Nil"
      /\ types[link] \in Isolates => type = types[link]
      /\ \A t \in Isolates : type = t <=> types[link] = t
  BY <1>1 DEF Marked, Based, Isolates
<1>3. forced => types[link] = "NSM" /\ prior.w1 = "ON"
  OBVIOUS
<1> HIDE DEF type
<1>4. \A t \in Isolates : written = t <=> type = t
  <2>1. "AN" \notin Isolates /\ "R" \notin Isolates /\ "EN" \notin Isolates /\ "AL" \notin Isolates
    BY DEF Isolates
  <2>2. CASE type = "EN" /\ prior.w2 = "AL"
    <3>1. type # "AL"
      BY <2>2
    <3>2. written = "AN"
      BY <2>2, <3>1
    <3>3. QED
      BY <2>1, <2>2, <3>2
  <2>3. CASE type = "AL"
    <3>1. type # "EN"
      BY <2>3
    <3>2. written = "R"
      BY <2>3, <3>1
    <3>3. QED
      BY <2>1, <2>3, <3>2
  <2>4. CASE ~(type = "EN" /\ prior.w2 = "AL") /\ type # "AL"
    BY <2>4
  <2>5. QED
    BY <2>2, <2>3, <2>4
<1> HIDE DEF written, forced
<1>5. LastInv' /\ EndsInv' /\ IsolatesInv' /\ OthersInv' /\ ResolvedInv'
  <2>1. \A t \in Isolates : written = t <=> types[link] = t
    BY <1>2, <1>4
  <2>2. phase \in {"weak", "numbers"} /\ phase' = phase
    BY <1>0
  <2>3. QED
    BY <1>0, <1>2, <1>3, <2>1, <2>2, EndsKept
<1>6. FirstInv'
  <2>1. SUFFICES ASSUME priorLink' = 0 PROVE FALSE
    BY DEF FirstInv
  <2>2. priorLink = 0 /\ (types[priorLink] = type \/ forced)
    BY <1>0, <2>1 DEF MergeOrGoOn
  <2>3. types[0] = "Nil"
    BY <1>0, AtPrior
  <2>4. forced
    BY <1>2, <2>2, <2>3
  <2>5. prior.w1 \in {"L", "R"}
    BY <1>0, <2>2 DEF KInv, FirstInv
  <2>6. QED
    BY <1>3, <2>4, <2>5
<1>7. QED
  BY <1>5, <1>6 DEF KInv

(* Neither do W4 to W7.                                                    *)
LEMMA NumbersKeep == ASSUME IInv, KInv, ResolveNumbers PROVE KInv'
<1> DEFINE own     == types[link]
           next    == types[links[link]]
           fourth  == IF JoinsNumbers(own, next) THEN prior.w4 ELSE own
           fifth   == IF fourth = "ET" /\ (prior.w5 = "EN" \/ next = "EN") THEN "EN" ELSE fourth
           written == CASE fifth \in {"ET", "CS", "ES"} -> "ON"
                        [] fifth = "EN" /\ prior.w7 = "L" -> "L"
                        [] OTHER -> fifth
<1>0. /\ phase = "numbers" /\ phase' = "numbers" /\ link # 0 /\ run' = run
      /\ types' = [types EXCEPT ![link] = written]
      /\ MergeOrGoOn(fifth, FALSE)
  BY DEF ResolveNumbers, At
<1>1. types[link] \in AfterW3
  <2>1. link \in Chain
    BY <1>0, AtLink DEF Walks
  <2>2. QED
    BY <1>0, <2>1 DEF IInv, TypesInv
<1>2. fourth # "Nil" /\ \A t \in Isolates : fourth = t <=> types[link] = t
  <2>1. CASE JoinsNumbers(own, next)
    <3>1. own \in {"ES", "CS"} /\ fourth \in {"EN", "AN"}
      BY <2>1 DEF JoinsNumbers
    <3>2. QED
      BY <3>1 DEF Isolates
  <2>2. CASE ~JoinsNumbers(own, next)
    BY <1>1, <2>2 DEF AfterW3, Based, Marked
  <2>3. QED
    BY <2>1, <2>2
<1> HIDE DEF fourth
<1>3. fifth # "Nil" /\ \A t \in Isolates : fifth = t <=> types[link] = t
  BY <1>2 DEF Isolates
<1> HIDE DEF fifth
<1>4. \A t \in Isolates : written = t <=> fifth = t
  <2>1. \A t \in Isolates : t \notin {"ET", "CS", "ES", "EN", "ON", "L"}
    BY DEF Isolates
  <2>2. CASE fifth \in {"ET", "CS", "ES"}
    <3>1. fifth # "EN"
      BY <2>2
    <3>2. written = "ON"
      BY <2>2, <3>1
    <3>3. QED
      BY <2>1, <2>2, <3>2
  <2>3. CASE fifth = "EN" /\ prior.w7 = "L"
    <3>1. written = "L"
      BY <2>3
    <3>2. QED
      BY <2>1, <2>3, <3>1
  <2>4. CASE fifth \notin {"ET", "CS", "ES"} /\ ~(fifth = "EN" /\ prior.w7 = "L")
    BY <2>4
  <2>5. QED
    BY <2>2, <2>3, <2>4
<1> HIDE DEF written
<1>5. LastInv' /\ EndsInv' /\ IsolatesInv' /\ OthersInv' /\ ResolvedInv'
  <2>1. \A t \in Isolates : written = t <=> types[link] = t
    BY <1>3, <1>4
  <2>2. phase \in {"weak", "numbers"} /\ phase' = phase
    BY <1>0
  <2>3. types[link] \in Isolates => fifth = types[link]
    BY <1>3
  <2>4. QED
    BY <1>0, <1>3, <2>1, <2>2, <2>3, EndsKept
<1>6. FirstInv'
  BY <1>0 DEF FirstInv
<1>7. QED
  BY <1>5, <1>6 DEF KInv

(* The second walk begins with the chain of the first.                     *)
LEMMA BeginNumbersKeeps == ASSUME IInv, KInv, BeginNumbers PROVE KInv'
<1>0. /\ phase = "weak" /\ phase' = "numbers" /\ run' = run
      /\ links' = links /\ types' = types /\ levels' = levels
  BY DEF BeginNumbers, Walked, chainVars
<1>1. Text' = Text /\ Past' = Past /\ Own' = Own /\ Ends' = Ends /\ Chain' = Chain
  BY <1>0, EndsStay
<1>2. OthersInv'
  BY <1>0, OthersStay
<1>3. EndsInv' /\ IsolatesInv'
  BY <1>0, <1>1 DEF KInv, EndsInv, IsolatesInv, Walks
<1>4. LastInv' /\ FirstInv' /\ ResolvedInv'
  BY <1>0 DEF LastInv, FirstInv, ResolvedInv
<1>5. QED
  BY <1>2, <1>3, <1>4 DEF KInv

(* The prior link of the last walk that merges is the last link of all.    *)
LEMMA BeginBracketsKeeps == ASSUME IInv, KInv, BeginBrackets PROVE KInv'
<1>0. /\ phase = "numbers" /\ phase' = "brackets" /\ run' = run /\ link = 0
      /\ links' = links /\ types' = types /\ levels' = levels /\ lastLink' = priorLink
  BY DEF BeginBrackets, Walked, chainVars
<1>1. Text' = Text /\ Past' = Past /\ Own' = Own /\ Ends' = Ends /\ Chain' = Chain
  BY <1>0, EndsStay
<1>2. OthersInv'
  BY <1>0, OthersStay
<1>3. LastInv'
  <2>1. priorLink \in Chain \cup {0} /\ links[priorLink] = 0
    BY <1>0 DEF IInv, ChainInv
  <2>2. QED
    BY <1>0, <1>1, <2>1 DEF LastInv
<1>4. EndsInv'
  BY <1>0, <1>1 DEF KInv, EndsInv, Walks
<1>5. IsolatesInv' /\ FirstInv' /\ ResolvedInv'
  BY <1>0 DEF IsolatesInv, FirstInv, ResolvedInv
<1>6. QED
  BY <1>2, <1>3, <1>4, <1>5 DEF KInv

(* Rule N0, before its pairs are resolved.                                 *)
LEMMA BracketsKeepOthers ==
  ASSUME IInv, KInv,
         \/ OpenPair \/ TooManyPairs \/ Fail \/ ClosePair \/ AssignInnerStrongType
         \/ SkipOther \/ MarkPopulated
  PROVE  KInv'
<1>1. /\ phase = "brackets" /\ phase' \in {"brackets", "pairs", "neutrals", "failed"}
      /\ run' = run /\ links' = links /\ types' = types /\ levels' = levels /\ lastLink' = lastLink
  <2>1. CASE OpenPair \/ ClosePair
    BY <2>1 DEF OpenPair, ClosePair, InBrackets, At, BracketsKeep, chainVars
  <2>2. CASE TooManyPairs \/ Fail
    BY <2>2 DEF TooManyPairs, Fail, chainVars
  <2>3. CASE AssignInnerStrongType
    BY <2>3 DEF AssignInnerStrongType, At, BracketsKeep, chainVars
  <2>4. CASE SkipOther \/ MarkPopulated
    BY <2>4 DEF SkipOther, MarkPopulated, At, BracketsKeep, chainVars
  <2>5. QED
    BY <2>1, <2>2, <2>3, <2>4
<1>2. QED
  BY <1>1, WalksOn DEF Walks

(* The brackets of a pair are in the chain of the sequence.                *)
LEMMA PairsKeepOthers == ASSUME IInv, KInv, ResolvePair PROVE KInv'
<1> DEFINE pair == queue[front]
<1>0. /\ phase = "pairs" /\ pairCount > 0 /\ phase' = phase /\ run' = run /\ links' = links
      /\ types' = [types EXCEPT ![pair.opening] = PairType(pair), ![pair.closing] = PairType(pair)]
      /\ levels' = levels /\ lastLink' = lastLink
  BY DEF ResolvePair
<1>1. Past \in Nat /\ Chain \subseteq Own /\ types = [l \in 0..Past |-> types[l]]
  BY <1>0, AtLink, InputIs DEF Walks, IInv, TypeOK
<1>2. {pair.opening, pair.closing} \subseteq Chain \cup {0}
  <2>1. front \in 1..Len(queue)
    BY <1>0 DEF IInv, QueueInv, PairsAt
  <2>2. QED
    BY <1>0, <2>1 DEF IInv, QueueInv, None
<1>3. ASSUME NEW l \in 1..Past, l \notin Own PROVE types'[l] = types[l]
  <2>1. l # pair.opening /\ l # pair.closing
    BY <1>1, <1>2, <1>3
  <2>2. l \in 0..Past
    OBVIOUS
  <2> HIDE DEF pair
  <2>3. QED
    BY <1>0, <1>1, <2>1, <2>2
<1>4. QED
  <2> HIDE DEF pair
  <2>1. /\ phase \in Walks \ {"weak", "numbers"}
        /\ phase' \in (Walks \ {"weak", "numbers"}) \cup {"failed"}
    BY <1>0 DEF Walks
  <2>2. QED
    BY <1>0, <1>3, <2>1, WalksOn

(* The walks of rules N1 to I2.                                            *)
LEMMA NeutralsKeepOthers ==
  ASSUME IInv, KInv,
         BeginNeutrals \/ PassStrong \/ ResolveNeutrals \/ BeginImplicit \/ ResolveImplicitLevels
  PROVE  KInv'
<1>0. phase \in {"pairs", "neutrals", "implicit"} /\ phase' \in {"neutrals", "implicit"}
  BY DEF BeginNeutrals, PassStrong, ResolveNeutrals, BeginImplicit, ResolveImplicitLevels, At, Walked
<1>1. /\ Past \in Nat /\ Chain \subseteq Own
      /\ (link # 0 => link \in Own)
  <2>1. phase \in Walks
    BY <1>0 DEF Walks
  <2>2. QED
    BY <2>1, AtLink, InputIs DEF IInv, TypeOK
<1>2. \A l \in 1..Past : l \in 0..Past
  OBVIOUS
<1>3. /\ run' = run /\ links' = links /\ lastLink' = lastLink
      /\ \A l \in 1..Past : l \notin Own => levels'[l] = levels[l] /\ types'[l] = types[l]
  <2>1. CASE BeginNeutrals
    BY <2>1 DEF BeginNeutrals, chainVars
  <2>2. CASE PassStrong
    BY <2>2 DEF PassStrong, At, chainVars
  <2>3. CASE ResolveNeutrals
    <3>1. /\ run' = run /\ links' = links /\ lastLink' = lastLink /\ levels' = levels
      BY <2>3 DEF ResolveNeutrals, At
    <3>2. ASSUME NEW l \in 1..Past, l \notin Own PROVE types'[l] = types[l]
      <4>1. l \in 0..Past /\ l \notin Chain
        BY <1>1, <1>2, <3>2
      <4>2. QED
        BY <2>3, <4>1 DEF ResolveNeutrals
    <3>3. QED
      BY <3>1, <3>2
  <2>4. CASE BeginImplicit
    BY <2>4 DEF BeginImplicit, Walked, chainVars
  <2>5. CASE ResolveImplicitLevels
    <3>1. /\ run' = run /\ links' = links /\ lastLink' = lastLink /\ types' = types
          /\ levels' = [levels EXCEPT ![link] = Raised(@, types[link])] /\ link # 0
      BY <2>5 DEF ResolveImplicitLevels, At
    <3>2. levels = [l \in 0..Past |-> levels[l]]
      BY DEF IInv, TypeOK
    <3>3. ASSUME NEW l \in 1..Past, l \notin Own PROVE levels'[l] = levels[l]
      <4>1. l \in 0..Past /\ l # link
        BY <1>1, <1>2, <3>1, <3>3
      <4>2. QED
        BY <3>1, <3>2, <4>1
    <3>4. QED
      BY <3>1, <3>3
  <2>6. QED
    BY <2>1, <2>2, <2>3, <2>4, <2>5
<1>4. QED
  BY <1>0, <1>3, WalksOn DEF Walks

(* The chain of the paragraph is whole again, but for what was merged.     *)
LEMMA AttachOriginalKeeps == ASSUME IInv, KInv, AttachOriginal PROVE KInv'
<1>0. /\ phase = "implicit" /\ phase' = "resolved" /\ run' = run
      /\ links' = [l \in 0..Past |-> Reattached(l)]
      /\ types' = types /\ levels' = levels
  BY DEF AttachOriginal
<1>1. /\ run \in Inputs /\ Past \in Nat /\ Populated(Text) \in SUBSET (1..Past)
      /\ Own \in SUBSET Populated(Text) /\ Own \in SUBSET (1..Past)
  BY InputIs DEF IInv, TypeOK
<1>2. /\ Chain \subseteq Own /\ Ascends(links, Past) /\ Spans(links, Chain)
      /\ Chain \in SUBSET (1..Past)
  BY <1>0, AtLink DEF IInv, ChainInv, Walks
<1>3. lastLink \in Chain \cup {0} /\ links[lastLink] = 0 /\ Ends \subseteq Chain
  BY <1>0 DEF KInv, LastInv, EndsInv, Walks
<1>4. /\ Text' = Text /\ Past' = Past /\ Own' = Own
      /\ Ends' = Ends /\ Populated(Text)' = Populated(Text)
  BY <1>0, EndsStay
<1>5. \A l \in 1..Past : l \in 0..Past
  OBVIOUS
<1>6. Ascends(links', Past) /\ Spans(links', (Populated(Text) \ Own) \cup Chain)
  <2>1. Own # {}
    BY <1>1, SomeLink
  <2>2. \A f \in Own : Before(Populated(Text), f) \notin Own => f \in Chain
    BY <1>1, <1>3, RunsBeginAtEnds
  <2>3. LastLinks = {l \in Own : NextIn(Populated(Text), l) \notin Own}
    BY DEF LastLinks
  <2>4. \A l \in LastLinks : l \in Chain \/ \A k \in Own : k <= l
    <3>1. SUFFICES ASSUME NEW l \in LastLinks, NEW k \in Own, ~(k <= l) PROVE l \in Chain
      OBVIOUS
    <3>2. l \in Own /\ NextIn(Populated(Text), l) \notin Own
      BY <2>3
    <3>3. l < k
      <4>1. l \in 1..Past /\ k \in 1..Past
        BY <1>1, <3>2
      <4>2. QED
        BY <3>1, <4>1
    <3>4. Text[l] = "RLI"
      BY <1>1, <3>2, <3>3, RunsEndAtEnds
    <3>5. QED
      BY <1>3, <3>2, <3>4 DEF Ends
  <2>5. \A l \in Populated(Text) \ Own : links[l] = NextIn(Populated(Text), l)
    BY <1>1 DEF KInv, OthersInv, Original
  <2>6. links' = [l \in 0..Past |-> IF l = lastLink THEN NextIn(Populated(Text), Max(LastLinks))
                                    ELSE IF l \in LastLinks \cup {0} THEN NextIn(Populated(Text), l)
                                    ELSE links[l]]
    BY <1>0 DEF Reattached, Original
  <2>7. Chain \in SUBSET Own /\ Own \in SUBSET Populated(Text)
    BY <1>1, <1>2
  <2>8. Reattaches(Past, Populated(Text), Own, Chain, links, LastLinks, lastLink, links')
    BY <1>1, <1>2, <1>3, <2>1, <2>2, <2>3, <2>4, <2>5, <2>6, <2>7 DEF Reattaches
  <2>9. QED
    BY <2>8, RunsReattached
<1>7. Chain' = (Populated(Text) \ Own) \cup Chain
  <2>1. (Populated(Text) \ Own) \cup Chain \in SUBSET (1..Past)
    BY <1>1, <1>2
  <2>2. Reached(links', Past) = (Populated(Text) \ Own) \cup Chain
    BY <1>1, <1>6, <2>1, SpannedIsReached
  <2>3. QED
    BY <1>4, <2>2, ChainIsReached
<1>8. ResolvedInv'
  BY <1>1, <1>2, <1>3, <1>4, <1>7 DEF ResolvedInv
<1>9. OthersInv'
  <2>1. ASSUME NEW l \in 1..Past, l \notin Own PROVE links'[l] = links[l]
    <3>1. l # lastLink /\ l \notin LastLinks \cup {0}
      BY <1>2, <1>3, <2>1 DEF LastLinks
    <3>2. QED
      BY <1>0, <1>5, <3>1 DEF Reattached
  <2>2. QED
    BY <1>0, <2>1, OthersStay
<1>10. LastInv' /\ EndsInv' /\ IsolatesInv' /\ FirstInv'
  BY <1>0 DEF LastInv, EndsInv, IsolatesInv, FirstInv, Walks
<1>11. QED
  BY <1>8, <1>9, <1>10 DEF KInv

(* Nothing changes.                                                        *)
LEMMA StutterKeeps == ASSUME KInv, UNCHANGED vars PROVE KInv'
<1>0. /\ run' = run /\ phase' = phase /\ link' = link
      /\ UNCHANGED <<links, types, levels, priorLink, prior, lastLink>>
  BY DEF vars
<1>1. /\ Text' = Text /\ Past' = Past /\ Own' = Own /\ Ends' = Ends /\ Chain' = Chain
      /\ Populated(Text)' = Populated(Text)
  BY <1>0, EndsStay
<1>2. OthersInv'
  BY <1>0, OthersStay
<1>3. QED
  BY <1>0, <1>1, <1>2 DEF KInv, LastInv, EndsInv, IsolatesInv, FirstInv, ResolvedInv

(* The second invariant is inductive relative to the first.                *)
LEMMA NextKeeps == IInv /\ KInv /\ [Next]_vars => KInv'
<1> SUFFICES ASSUME IInv, KInv, [Next]_vars PROVE KInv'
  OBVIOUS
<1>1. CASE Attach
  BY <1>1, AttachKeeps
<1>2. CASE ResolveMarks
  BY <1>2, MarksKeep
<1>3. CASE BeginNumbers
  BY <1>3, BeginNumbersKeeps
<1>4. CASE ResolveNumbers
  BY <1>4, NumbersKeep
<1>5. CASE BeginBrackets
  BY <1>5, BeginBracketsKeeps
<1>6. CASE \/ OpenPair \/ TooManyPairs \/ Fail \/ ClosePair \/ AssignInnerStrongType
           \/ SkipOther \/ MarkPopulated
  BY <1>6, BracketsKeepOthers
<1>7. CASE ResolvePair
  BY <1>7, PairsKeepOthers
<1>8. CASE BeginNeutrals \/ PassStrong \/ ResolveNeutrals \/ BeginImplicit \/ ResolveImplicitLevels
  BY <1>8, NeutralsKeepOthers
<1>9. CASE AttachOriginal
  BY <1>9, AttachOriginalKeeps
<1>10. CASE Returned \/ UNCHANGED vars
  BY <1>10, StutterKeeps DEF Returned
<1>11. QED
  BY <1>1, <1>2, <1>3, <1>4, <1>5, <1>6, <1>7, <1>8, <1>9, <1>10 DEF Next

(* The second part of the inductive invariant holds in every state.        *)
THEOREM SpecKInv == Spec => []KInv
  BY InitKeeps, NextKeeps, SpecIInv, PTL DEF Spec

(* Where SaveLevels finds the level of each unit: that of a character at a *)
(* link of the sequence, that of another one at its own link.              *)
SavedFrom(i) == Max({l \in Chain : l <= i})

SavedFromOwn ==
  phase = "resolved" =>
    \A i \in VisibleIn(Text) :
      IF IsCharacter(Text[i]) THEN SavedFrom(i) \in Own
      ELSE SavedFrom(i) = i /\ levels[i] = OtherLevel

OthersAreKept ==
  \A l \in Populated(Text) \ Own :
    levels[l] = OtherLevel /\ types[l] = IF l = Past THEN "Nil" ELSE TypeOf(Text[l])

(* A link found for a character is no earlier than its level run.          *)
LEMMA LevelsAreFound == ASSUME IInv, KInv PROVE SavedFromOwn
<1> SUFFICES ASSUME phase = "resolved", NEW i \in Seen
             PROVE  IF IsCharacter(Text[i]) THEN SavedFrom(i) \in Own
                    ELSE SavedFrom(i) = i /\ levels[i] = OtherLevel
  BY DEF SavedFromOwn, Seen
<1>1. /\ run \in Inputs /\ Past \in Nat /\ Past = Len(Text) + 1 /\ Len(Text) \in Nat
      /\ Seen \in SUBSET (1..Len(Text)) /\ OwnSeen \in SUBSET (1..Len(Text))
      /\ Populated(Text) \in SUBSET (1..Past) /\ Own \in SUBSET (1..Past)
      /\ Own \subseteq Populated(Text)
      /\ \A l \in Populated(Text) \ Own : l < Past => l \in Seen /\ Text[l] = "X"
      /\ \A k \in Seen : Text[k] \in {"X", "RLI", "PDI"} => k \in Populated(Text)
  BY PositionsAre DEF IInv, TypeOK
<1>2. /\ Ends \subseteq Chain /\ Populated(Text) \ Own \subseteq Chain
      /\ Chain \subseteq Populated(Text)
  BY DEF KInv, ResolvedInv
<1>3. /\ i \in 1..Len(Text) /\ i \in 1..Past /\ i < Past /\ Text[i] # "BN"
      /\ \A k \in 1..Past : k \in Nat /\ k \in 0..Past
  BY <1>1 DEF Seen, VisibleIn
<1> DEFINE upTo == {l \in Chain : l <= i}
<1>4. upTo \in SUBSET (0..Past)
  BY <1>1, <1>2, <1>3
<1>5. ASSUME upTo # {} PROVE SavedFrom(i) \in upTo /\ \A k \in upTo : k <= SavedFrom(i)
  BY <1>1, <1>4, <1>5, MaxIs DEF SavedFrom
<1>6. CASE Text[i] = "X"
  <2>1. i \in Populated(Text) \ Own
    BY <1>1, <1>6 DEF Own
  <2>2. i \in upTo
    BY <1>2, <1>3, <2>1
  <2>3. SavedFrom(i) = i
    <3>1. PICK m : m = SavedFrom(i)
      OBVIOUS
    <3>2. m \in Chain /\ m <= i /\ i <= m
      BY <1>5, <2>2, <3>1
    <3>3. m \in Nat
      BY <1>1, <1>2, <1>3, <3>2
    <3>4. QED
      BY <1>3, <3>1, <3>2, <3>3
  <2>4. levels[i] = OtherLevel
    BY <1>3, <2>1 DEF KInv, OthersInv
  <2>5. QED
    BY <1>6, <2>3, <2>4 DEF IsCharacter
<1>7. CASE Text[i] # "X"
  <2>1. i \in OwnSeen
    BY <1>7 DEF OwnSeen
  <2>2. PICK s \in Own : s <= i /\ \A k \in s..i : k \in OwnSeen
    BY <1>1, <2>1, LinkOf
  <2>3. s \in Nat /\ i \in Nat
    BY <1>1, <1>3
  <2>4. PICK p : /\ p = Before(Populated(Text) \ Own, s)
                 /\ (p \in Populated(Text) \ Own /\ p < s) \/ p = 0
                 /\ \A k \in Populated(Text) \ Own : k < s => k <= p
    <3>1. Populated(Text) \ Own \in SUBSET (1..Past)
      BY <1>1
    <3>2. QED
      BY <1>1, <2>3, <3>1, BeforeIs
  <2>5. p \in Nat /\ p < s /\ p \notin Own
    <3>1. CASE p = 0
      <4>1. s \in 1..Past /\ 0 \notin 1..Past
        BY <1>1
      <4>2. QED
        BY <1>1, <3>1, <4>1
    <3>2. CASE p \in Populated(Text) \ Own /\ p < s
      BY <1>1, <1>3, <3>2
    <3>3. QED
      BY <2>4, <3>1, <3>2
  <2>6. PICK f \in Own : p < f /\ f <= s /\ \A k \in Own : p < k => f <= k
    <3>1. Own \in SUBSET Nat
      BY <1>1, <1>3
    <3>2. PICK f : IsNext(Own, p, f)
      BY <2>5, <3>1, NextInIs
    <3>3. ~(s <= p)
      BY <2>3, <2>5
    <3>4. QED
      BY <2>5, <3>2, <3>3 DEF IsNext
  <2>7. Before(Populated(Text), f) \notin Own
    <3>1. f \in Nat
      BY <1>1, <1>3
    <3>2. PICK b : /\ b = Before(Populated(Text), f)
                   /\ (b \in Populated(Text) /\ b < f) \/ b = 0
                   /\ \A k \in Populated(Text) : k < f => k <= b
      BY <1>1, <3>1, BeforeIs
    <3>3. SUFFICES ASSUME b \in Own PROVE FALSE
      BY <3>2
    <3>4. b \in Nat /\ b # 0 /\ b < f
      <4>1. b \in 1..Past
        BY <1>1, <3>3
      <4>2. QED
        BY <3>2, <4>1
    <3>5. p <= b
      <4>1. CASE p = 0
        BY <3>4, <4>1
      <4>2. CASE p \in Populated(Text)
        BY <2>6, <3>2, <4>2
      <4>3. QED
        BY <2>4, <4>1, <4>2
    <3>6. p < b
      BY <2>5, <3>3, <3>4, <3>5
    <3>7. f <= b
      BY <2>6, <3>3, <3>6
    <3>8. QED
      BY <3>1, <3>4, <3>7
  <2>8. f \in upTo
    <3>1. f \in Chain
      BY <1>1, <1>2, <2>7, RunsBeginAtEnds
    <3>2. f \in Nat
      BY <1>1, <1>3
    <3>3. QED
      BY <2>2, <2>3, <2>6, <3>1, <3>2
  <2>9. PICK m : m = SavedFrom(i)
    OBVIOUS
  <2>10. m \in Chain /\ m <= i /\ f <= m
    BY <1>5, <2>8, <2>9
  <2>11. m \in Own
    <3>1. SUFFICES ASSUME m \notin Own PROVE FALSE
      OBVIOUS
    <3>2. m \in Populated(Text) \ Own /\ m \in Nat
      BY <1>1, <1>2, <1>3, <2>10, <3>1
    <3>3. Text[m] = "X"
      <4>1. m < Past
        BY <1>1, <1>3, <2>10, <3>2
      <4>2. QED
        BY <1>1, <3>2, <4>1
    <3>4. m \notin s..i
      BY <2>2, <3>3 DEF OwnSeen
    <3>5. m < s
      BY <2>3, <2>10, <3>2, <3>4
    <3>6. m <= p
      BY <2>4, <3>2, <3>5
    <3>7. f \in Nat
      BY <1>1, <1>3
    <3>8. QED
      BY <2>5, <2>6, <2>10, <3>2, <3>6, <3>7
  <2>12. IsCharacter(Text[i])
    BY <1>3, <1>7 DEF IsCharacter
  <2>13. QED
    BY <2>9, <2>11, <2>12
<1>8. QED
  BY <1>6, <1>7

(* Resolving a sequence writes no type and no level of another one.        *)
THEOREM SpecOthersAreKept == Spec => []OthersAreKept
<1>1. IInv /\ KInv => OthersAreKept
  <2>1. SUFFICES ASSUME IInv, KInv PROVE OthersAreKept
    OBVIOUS
  <2>2. Populated(Text) \in SUBSET (1..Past)
    BY <2>1, InputIs DEF IInv, TypeOK
  <2>3. QED
    BY <2>1, <2>2 DEF KInv, OthersInv, OthersAreKept
<1>2. QED
  BY SpecIInv, SpecKInv, <1>1, PTL

(* When the sequence is resolved, the chain that SaveLevels walks has lost *)
(* no link of another sequence, and none that a level run begins with: no  *)
(* character gets the level of another sequence, and nothing outside gets  *)
(* a level of this one.                                                    *)
THEOREM SpecSavedFromOwn == Spec => []SavedFromOwn
<1>1. IInv /\ KInv => SavedFromOwn
  BY LevelsAreFound
<1>2. QED
  BY SpecIInv, SpecKInv, <1>1, PTL
==============================================================================
