---------------------- MODULE AttributeManager_proofs ----------------------
(***************************************************************************)
(* The attribute manager keeps its entries and its accounts, for any text  *)
(* length, registered attributes and attached values.                      *)
(*                                                                         *)
(* An invariant of the manager says three things (IInv, at the end): the   *)
(* entries hold dictionaries and cut the text (WellCut), every dictionary  *)
(* that was created is in an entry or in the cache (Spare is 0), and every *)
(* value is retained as often as entries hold it (Owes is 0).  The         *)
(* functions of AttributeManager.c call one another in states where none   *)
(* of this holds: a dictionary has been taken and not stored yet, entries  *)
(* have been removed and the later ones not moved.  The lemmas are about   *)
(* what each function does to Spare, Owes and the cuts, wherever they      *)
(* start from, and the calls of the text add them up.                      *)
(***************************************************************************)
EXTENDS AttributeManager, FiniteSetTheorems, SequenceTheorems, TLAPS

(* Induction over numbers, which needs no fold.                            *)
Numbers == INSTANCE FoldTheorems WITH Op <- LAMBDA env, st, e : st, Inv <- LAMBDA env, k, st : TRUE

(* The dictionaries: items in the order of their ids.                      *)
Items == [id : AttributeIDs, value : Values]

Dictionaries ==
  {d \in Seq(Items) : \A j, k \in 1..Len(d) : j < k => d[j].id < d[k].id}

(* Before how many items an id belongs.                                    *)
IsRank(d, id, q) ==
  /\ q \in 0..Len(d)
  /\ \A k \in 1..q : d[k].id < id
  /\ \A k \in (q + 1)..Len(d) : id <= d[k].id

(* at is what the search has to find.                                      *)
IsPlace(d, id, at) ==
  /\ at \in [index : 1..(Len(d) + 1), found : BOOLEAN]
  /\ at.found => at.index <= Len(d) /\ d[at.index].id = id
  /\ \A k \in 1..Len(d) : k < at.index => d[k].id < id
  /\ ~at.found => \A k \in 1..Len(d) : at.index <= k => id < d[k].id

SearchTurn(f, d, id, low, high) ==
  LET mid == low + ((high - low) \div 2)
      at == d[mid + 1].id
  IN  IF low >= high THEN [index |-> low + 1, found |-> FALSE]
      ELSE IF at = id THEN [index |-> mid + 1, found |-> TRUE]
      ELSE IF at < id THEN f[<<mid + 1, high>>]
      ELSE f[<<low, mid>>]

IsSearch(f, d, id) ==
  f = [r \in (0..Len(d)) \X (0..Len(d)) |-> SearchTurn(f, d, id, r[1], r[2])]

(* The search of the code is a function that IsSearch describes.           *)
LEMMA SearchUnfolds ==
  ASSUME NEW d, NEW id
  PROVE  BinarySearchIndex(d, id) = (CHOOSE f : IsSearch(f, d, id))[<<0, Len(d)>>]
  BY DEF BinarySearchIndex, IsSearch, SearchTurn

(* What is known of a dictionary and of its items.                         *)
LEMMA DictionaryFacts ==
  ASSUME NEW d \in Dictionaries
  PROVE  /\ d \in Seq(Items) /\ Len(d) \in Nat /\ DOMAIN d = 1..Len(d)
         /\ \A k \in 1..Len(d) : d[k] \in Items /\ d[k].id \in AttributeIDs
                                 /\ d[k].id \in Int /\ d[k].value \in Values
         /\ \A j, k \in 1..Len(d) : j < k => d[j].id < d[k].id
<1>1. d \in Seq(Items) /\ \A j, k \in 1..Len(d) : j < k => d[j].id < d[k].id
  BY DEF Dictionaries
<1>2. Len(d) \in Nat /\ DOMAIN d = 1..Len(d)
  BY <1>1
<1>3. ASSUME NEW k \in 1..Len(d)
      PROVE  d[k] \in Items /\ d[k].id \in AttributeIDs /\ d[k].id \in Int /\ d[k].value \in Values
  <2>1. d[k] \in Items
    BY <1>1, <1>2, <1>3, ElementOfSeq
  <2>2. d[k].id \in AttributeIDs /\ d[k].value \in Values
    BY <2>1 DEF Items
  <2>3. d[k].id \in Int
    BY <2>2, InfosAssumption DEF AttributeIDs
  <2>4. QED
    BY <2>1, <2>2, <2>3
<1>4. QED
  BY <1>1, <1>2, <1>3

(* Every id belongs somewhere in a dictionary.                             *)
LEMMA RankExists ==
  ASSUME NEW d \in Dictionaries, NEW id \in Int
  PROVE  \E q : IsRank(d, id, q)
<1> DEFINE T == {q \in 0..Len(d) : q = Len(d) \/ id <= d[q + 1].id}
<1>1. /\ Len(d) \in Nat
      /\ \A k \in 1..Len(d) : d[k].id \in Int
      /\ \A j, k \in 1..Len(d) : j < k => d[j].id < d[k].id
  BY DictionaryFacts
<1>2. Len(d) \in T /\ T \in SUBSET Nat
  BY <1>1
<1>3. PICK q \in T : \A k \in T : q <= k
  <2> HIDE DEF T
  <2>1. T # {}
    BY <1>2
  <2>2. QED
    BY <1>2, <2>1, Numbers!LeastNatural
<1>4. q \in 0..Len(d)
  OBVIOUS
<1>5. ASSUME NEW k \in 1..q PROVE d[k].id < id
  <2>1. k - 1 \in 0..Len(d) /\ k - 1 # Len(d) /\ k - 1 + 1 = k /\ ~(q <= k - 1)
    BY <1>1, <1>4
  <2>2. k - 1 \notin T
    <3> HIDE DEF T
    <3>1. QED
      BY <1>3, <2>1
  <2>3. ~(id <= d[k].id)
    BY <2>1, <2>2
  <2>4. k \in 1..Len(d)
    BY <1>1, <1>4
  <2>5. QED
    BY <1>1, <2>3, <2>4
<1>6. ASSUME NEW k \in (q + 1)..Len(d) PROVE id <= d[k].id
  <2>1. q # Len(d) /\ q + 1 \in 1..Len(d) /\ k \in 1..Len(d) /\ (k = q + 1 \/ q + 1 < k)
    BY <1>1, <1>4
  <2>2. id <= d[q + 1].id
    BY <2>1
  <2>3. CASE k = q + 1
    BY <2>2, <2>3
  <2>4. CASE q + 1 < k
    <3>1. d[q + 1].id < d[k].id
      BY <1>1, <2>1, <2>4
    <3>2. d[q + 1].id \in Int /\ d[k].id \in Int
      BY <1>1, <2>1
    <3>3. QED
      BY <2>2, <3>1, <3>2
  <2>5. QED
    BY <2>1, <2>3, <2>4
<1>7. QED
  BY <1>4, <1>5, <1>6 DEF IsRank

(* What a search between low and high finds, where q is the rank.          *)
Sought(d, id, q, low, high) ==
  IF low <= q /\ q < high /\ d[q + 1].id = id THEN [index |-> q + 1, found |-> TRUE]
  ELSE IF q < low \/ high <= low THEN [index |-> low + 1, found |-> FALSE]
  ELSE IF q > high THEN [index |-> high + 1, found |-> FALSE]
  ELSE [index |-> q + 1, found |-> FALSE]

(* The middle of a range lies in it.                                       *)
LEMMA MiddleBetween ==
  ASSUME NEW low \in Nat, NEW high \in Nat, low < high
  PROVE  /\ low + ((high - low) \div 2) \in Nat
         /\ low <= low + ((high - low) \div 2)
         /\ low + ((high - low) \div 2) < high
  OBVIOUS

(* Where shorter ranges are searched as they should be, so is this one.    *)
LEMMA SoughtSolves ==
  ASSUME NEW d \in Dictionaries, NEW id \in Int, NEW q, IsRank(d, id, q),
         NEW f, NEW low \in 0..Len(d), NEW high \in 0..Len(d),
         \A a, b \in 0..Len(d) : (low < high => b - a < high - low) =>
             f[<<a, b>>] = Sought(d, id, q, a, b)
  PROVE  SearchTurn(f, d, id, low, high) = Sought(d, id, q, low, high)
<1>1. /\ Len(d) \in Nat
      /\ \A k \in 1..Len(d) : d[k].id \in Int
      /\ \A j, k \in 1..Len(d) : j < k => d[j].id < d[k].id
  BY DictionaryFacts
<1>2. q \in 0..Len(d) /\ (\A k \in 1..q : d[k].id < id) /\ \A k \in (q + 1)..Len(d) : id <= d[k].id
  BY DEF IsRank
<1>3. CASE low >= high
  BY <1>1, <1>2, <1>3 DEF SearchTurn, Sought
<1>4. CASE low < high
  <2>1. PICK mid \in Nat : mid = low + ((high - low) \div 2) /\ low <= mid /\ mid < high
    BY <1>4, MiddleBetween
  <2>2. SearchTurn(f, d, id, low, high) =
          IF d[mid + 1].id = id THEN [index |-> mid + 1, found |-> TRUE]
          ELSE IF d[mid + 1].id < id THEN f[<<mid + 1, high>>]
          ELSE f[<<low, mid>>]
    BY <1>4, <2>1 DEF SearchTurn
  <2>3. mid + 1 \in 1..Len(d) /\ mid + 1 \in 0..Len(d) /\ mid \in 0..Len(d)
    BY <1>1, <2>1
  <2>4. d[mid + 1].id \in Int
    BY <1>1, <2>3
  <2>5. CASE d[mid + 1].id = id
    <3>1. mid >= q
      BY <1>2, <2>3, <2>5, <2>4
    <3>2. ~(q < mid)
      <4>1. SUFFICES ASSUME q < mid PROVE FALSE
        OBVIOUS
      <4>2. q + 1 \in 1..Len(d) /\ q + 1 \in (q + 1)..Len(d) /\ q + 1 < mid + 1
        BY <1>2, <2>3, <4>1
      <4>3. id <= d[q + 1].id /\ d[q + 1].id < d[mid + 1].id /\ d[q + 1].id \in Int
        BY <1>1, <1>2, <2>3, <4>2
      <4>4. QED
        BY <2>5, <4>3
    <3>3. mid = q
      BY <1>2, <3>1, <3>2
    <3>4. Sought(d, id, q, low, high) = [index |-> q + 1, found |-> TRUE]
      BY <2>1, <2>5, <3>3 DEF Sought
    <3>5. QED
      BY <2>2, <2>5, <3>3, <3>4
  <2>6. CASE d[mid + 1].id # id /\ d[mid + 1].id < id
    <3>1. mid < q
      <4>1. SUFFICES ASSUME q <= mid PROVE FALSE
        BY <1>2, <2>1
      <4>2. mid + 1 \in (q + 1)..Len(d)
        BY <1>2, <2>3, <4>1
      <4>3. id <= d[mid + 1].id
        BY <1>2, <4>2
      <4>4. QED
        BY <2>4, <2>6, <4>3
    <3>2. f[<<mid + 1, high>>] = Sought(d, id, q, mid + 1, high)
      <4>1. high - (mid + 1) < high - low
        BY <2>1
      <4>2. QED
        BY <2>3, <4>1
    <3>3. Sought(d, id, q, mid + 1, high) = Sought(d, id, q, low, high)
      <4>1. CASE mid + 1 = high
        <5>1. q = high \/ q > high
          BY <1>1, <1>2, <3>1, <4>1
        <5>2. low \in Nat /\ high \in Nat /\ q \in Nat
          BY <1>1, <1>2
        <5>3. Sought(d, id, q, mid + 1, high) = [index |-> mid + 1 + 1, found |-> FALSE]
          BY <2>1, <3>1, <4>1, <5>1, <5>2 DEF Sought
        <5>4. Sought(d, id, q, low, high) = [index |-> high + 1, found |-> FALSE]
          <6>1. ~(q < high) /\ ~(q < low \/ high <= low)
            BY <2>1, <5>1, <5>2
          <6>2. CASE q = high
            <7>1. ~(q > high) /\ q + 1 = high + 1
              BY <5>2, <6>2
            <7>2. QED
              BY <6>1, <7>1 DEF Sought
          <6>3. CASE q > high
            BY <6>1, <6>3 DEF Sought
          <6>4. QED
            BY <5>1, <6>2, <6>3
        <5>5. mid + 1 + 1 = high + 1
          BY <4>1
        <5>6. QED
          BY <5>3, <5>4, <5>5
      <4>2. CASE mid + 1 < high
        BY <1>1, <1>2, <2>1, <3>1, <4>2 DEF Sought
      <4>3. QED
        BY <1>1, <2>1, <4>1, <4>2
    <3>4. QED
      BY <2>2, <2>6, <3>2, <3>3
  <2>7. CASE d[mid + 1].id # id /\ ~(d[mid + 1].id < id)
    <3>1. q <= mid
      <4>1. SUFFICES ASSUME mid < q PROVE FALSE
        BY <1>2, <2>1
      <4>2. mid + 1 \in 1..q
        BY <1>2, <2>3, <4>1
      <4>3. QED
        BY <1>2, <2>7, <4>2
    <3>2. f[<<low, mid>>] = Sought(d, id, q, low, mid)
      <4>1. mid - low < high - low
        BY <2>1
      <4>2. QED
        BY <2>3, <4>1
    <3>3. CASE q < mid
      BY <1>2, <2>1, <2>2, <2>7, <3>2, <3>3 DEF Sought
    <3>4. CASE q = mid
      BY <1>2, <2>1, <2>2, <2>7, <3>2, <3>4 DEF Sought
    <3>5. QED
      BY <1>2, <2>1, <3>1, <3>3, <3>4
  <2>8. QED
    BY <2>5, <2>6, <2>7
<1>5. QED
  BY <1>3, <1>4

(* The binary search finds the item of id, or where it belongs.            *)
LEMMA SearchFinds ==
  ASSUME NEW d \in Dictionaries, NEW id \in Int
  PROVE  IsPlace(d, id, BinarySearchIndex(d, id))
<1>1. /\ Len(d) \in Nat
      /\ \A k \in 1..Len(d) : d[k].id \in Int
      /\ \A j, k \in 1..Len(d) : j < k => d[j].id < d[k].id
  BY DictionaryFacts
<1>2. PICK q : IsRank(d, id, q)
  BY RankExists
<1> DEFINE g == [r \in (0..Len(d)) \X (0..Len(d)) |-> Sought(d, id, q, r[1], r[2])]
           f == CHOOSE f : IsSearch(f, d, id)
<1>3. IsSearch(g, d, id)
  <2>1. \A a, b \in 0..Len(d) : g[<<a, b>>] = Sought(d, id, q, a, b)
    OBVIOUS
  <2>2. \A a, b \in 0..Len(d) : SearchTurn(g, d, id, a, b) = Sought(d, id, q, a, b)
    <3> HIDE DEF g
    <3>1. QED
      BY <1>2, <2>1, SoughtSolves, SMTT(30)
  <2>3. QED
    BY <2>2 DEF IsSearch
<1>4. IsSearch(f, d, id)
  BY <1>3
<1> HIDE DEF f
<1>5. \A a, b \in 0..Len(d) : f[<<a, b>>] = SearchTurn(f, d, id, a, b)
  BY <1>4 DEF IsSearch
<1> DEFINE T == {n \in Nat : \A a, b \in 0..Len(d) : b - a <= n => f[<<a, b>>] = Sought(d, id, q, a, b)}
<1>6. ASSUME NEW n \in Nat, \A a, b \in 0..Len(d) : b - a < n => f[<<a, b>>] = Sought(d, id, q, a, b)
      PROVE  n \in T
  <2>1. ASSUME NEW a \in 0..Len(d), NEW b \in 0..Len(d), b - a <= n
        PROVE  f[<<a, b>>] = Sought(d, id, q, a, b)
    <3>1. CASE a < b
      <4>1. \A x, y \in 0..Len(d) : (a < b => y - x < b - a) => f[<<x, y>>] = Sought(d, id, q, x, y)
        BY <1>1, <1>6, <2>1, <3>1
      <4>2. SearchTurn(f, d, id, a, b) = Sought(d, id, q, a, b)
        BY <1>2, <4>1, SoughtSolves, ZenonT(30)
      <4>3. QED
        BY <1>5, <4>2
    <3>2. CASE ~(a < b)
      <4>1. SearchTurn(f, d, id, a, b) = [index |-> a + 1, found |-> FALSE]
        BY <1>1, <3>2 DEF SearchTurn
      <4>2. Sought(d, id, q, a, b) = [index |-> a + 1, found |-> FALSE]
        BY <1>1, <1>2, <3>2 DEF Sought, IsRank
      <4>3. QED
        BY <1>5, <4>1, <4>2
    <3>3. QED
      BY <3>1, <3>2
  <2>2. QED
    BY <2>1
<1>7. Len(d) \in T
  <2>1. 0 \in T
    <3>1. ASSUME NEW a \in 0..Len(d), NEW b \in 0..Len(d), b - a <= 0
          PROVE  f[<<a, b>>] = Sought(d, id, q, a, b)
      <4>1. SearchTurn(f, d, id, a, b) = [index |-> a + 1, found |-> FALSE]
        BY <1>1, <3>1 DEF SearchTurn
      <4>2. Sought(d, id, q, a, b) = [index |-> a + 1, found |-> FALSE]
        BY <1>1, <1>2, <3>1 DEF Sought, IsRank
      <4>3. QED
        BY <1>5, <4>1, <4>2
    <3>2. QED
      BY <3>1
  <2>2. ASSUME NEW k \in 0..(Len(d) - 1), k \in T PROVE k + 1 \in T
    <3>1. \A a, b \in 0..Len(d) : b - a < k + 1 => f[<<a, b>>] = Sought(d, id, q, a, b)
      BY <1>1, <2>2
    <3>2. k + 1 \in Nat
      OBVIOUS
    <3>3. QED
      BY <1>6, <3>1, <3>2
  <2> HIDE DEF T
  <2>3. \A k \in 0..Len(d) : k \in T
    BY <1>1, <2>1, <2>2, Numbers!UpToInduction
  <2>4. QED
    BY <1>1, <2>3
<1>8. BinarySearchIndex(d, id) = Sought(d, id, q, 0, Len(d))
  <2>1. f[<<0, Len(d)>>] = Sought(d, id, q, 0, Len(d))
    BY <1>1, <1>7
  <2>2. QED
    BY <2>1, SearchUnfolds DEF f
<1>9. q \in 0..Len(d) /\ (\A k \in 1..q : d[k].id < id) /\ \A k \in (q + 1)..Len(d) : id <= d[k].id
  BY <1>2 DEF IsRank
<1>10. PICK at : at = BinarySearchIndex(d, id)
  OBVIOUS
<1>11. CASE q < Len(d) /\ d[q + 1].id = id
  <2>1. at = [index |-> q + 1, found |-> TRUE]
    BY <1>1, <1>8, <1>9, <1>10, <1>11 DEF Sought
  <2>2. \A k \in 1..Len(d) : k < q + 1 => d[k].id < id
    BY <1>1, <1>9
  <2>3. q + 1 \in 1..Len(d)
    BY <1>1, <1>9, <1>11
  <2>4. QED
    BY <1>1, <1>10, <1>11, <2>1, <2>2, <2>3 DEF IsPlace
<1>12. CASE ~(q < Len(d) /\ d[q + 1].id = id)
  <2>1. at = [index |-> q + 1, found |-> FALSE]
    <3>1. CASE Len(d) = 0
      BY <1>1, <1>8, <1>9, <1>10, <3>1 DEF Sought
    <3>2. CASE Len(d) # 0
      BY <1>1, <1>8, <1>9, <1>10, <1>12, <3>2 DEF Sought
    <3>3. QED
      BY <3>1, <3>2
  <2>2. \A k \in 1..Len(d) : k < q + 1 => d[k].id < id
    BY <1>1, <1>9
  <2>3. ASSUME NEW k \in 1..Len(d), q + 1 <= k PROVE id < d[k].id
    <3>1. q + 1 \in 1..Len(d) /\ k \in (q + 1)..Len(d) /\ q + 1 \in (q + 1)..Len(d)
      BY <1>1, <1>9, <2>3
    <3>2. d[q + 1].id # id /\ id <= d[q + 1].id /\ d[q + 1].id \in Int
      BY <1>1, <1>9, <1>12, <3>1
    <3>3. k = q + 1 \/ d[q + 1].id < d[k].id
      BY <1>1, <2>3, <3>1
    <3>4. d[k].id \in Int
      BY <1>1
    <3>5. QED
      BY <3>2, <3>3, <3>4
  <2>4. q + 1 \in 1..(Len(d) + 1)
    BY <1>1, <1>9
  <2>5. QED
    BY <1>1, <1>10, <2>1, <2>2, <2>3, <2>4 DEF IsPlace
<1>13. QED
  BY <1>11, <1>12

(* s is seq with the elements from a + 1 up to b - 1 replaced by those of new. *)
IsReplaced(s, seq, a, new, b) ==
  /\ Len(s) = a + Len(new) + (Len(seq) - b + 1)
  /\ \A k \in 1..a : s[k] = seq[k]
  /\ \A k \in 1..Len(new) : s[a + k] = new[k]
  /\ \A k \in b..Len(seq) : s[k - b + 1 + a + Len(new)] = seq[k]
  /\ \A k \in 1..Len(s) : \/ k \in 1..a
                          \/ \E j \in 1..Len(new) : k = a + j
                          \/ \E j \in b..Len(seq) : k = j - b + 1 + a + Len(new)

(* A sequence with a part of it replaced, element by element.              *)
LEMMA ReplacedIs ==
  ASSUME NEW S, NEW seq \in Seq(S), NEW new \in Seq(S), NEW a \in Nat, NEW b \in Nat,
         a < b, b <= Len(seq) + 1
  PROVE  /\ SubSeq(seq, 1, a) \o new \o SubSeq(seq, b, Len(seq)) \in Seq(S)
         /\ IsReplaced(SubSeq(seq, 1, a) \o new \o SubSeq(seq, b, Len(seq)), seq, a, new, b)
<1>1. PICK n \in Nat : n = Len(seq)
  OBVIOUS
<1>2. PICK c \in Nat : c = Len(new)
  OBVIOUS
<1>3. PICK left : left = SubSeq(seq, 1, a)
  OBVIOUS
<1>4. PICK right : right = SubSeq(seq, b, Len(seq))
  OBVIOUS
<1>5. left \in Seq(S) /\ Len(left) = a /\ \A k \in 1..a : left[k] = seq[k]
  <2>1. \A k \in 1..a : seq[k] \in S
    BY <1>1, ElementOfSeq
  <2>2. QED
    BY <1>1, <1>3, <2>1, SubSeqProperties
<1>6. PICK m \in Nat : m = n - b + 1
  BY <1>1
<1>7. right \in Seq(S) /\ Len(right) = m /\ \A k \in 1..m : right[k] = seq[k + b - 1]
  <2>1. \A k \in b..n : seq[k] \in S
    BY <1>1, ElementOfSeq
  <2>2. right \in Seq(S) /\ Len(right) = m
    BY <1>1, <1>4, <1>6, <2>1, SubSeqProperties
  <2>3. ASSUME NEW k \in 1..m PROVE right[k] = seq[k + b - 1]
    <3>1. right[k] = seq[b + k - 1]
      BY <1>1, <1>4, <1>6, <2>1, SubSeqProperties
    <3>2. b + k - 1 = k + b - 1
      OBVIOUS
    <3>3. QED
      BY <3>1, <3>2
  <2>4. QED
    BY <2>2, <2>3
<1>8. PICK half : half = left \o new
  OBVIOUS
<1>9. /\ half \in Seq(S) /\ Len(half) = a + c
      /\ \A k \in 1..a : half[k] = seq[k]
      /\ \A k \in 1..c : half[a + k] = new[k]
  <2>1. half \in Seq(S) /\ Len(half) = a + c
    BY <1>2, <1>5, <1>8, ConcatProperties
  <2>2. ASSUME NEW k \in 1..a PROVE half[k] = seq[k]
    <3>1. half[k] = left[k]
      BY <1>2, <1>5, <1>8
    <3>2. QED
      BY <1>5, <3>1
  <2>3. ASSUME NEW k \in 1..c PROVE half[a + k] = new[k]
    <3>1. half[a + k] = new[a + k - a]
      BY <1>2, <1>5, <1>8
    <3>2. a + k - a = k
      OBVIOUS
    <3>3. QED
      BY <3>1, <3>2
  <2>4. QED
    BY <2>1, <2>2, <2>3
<1>10. PICK s : s = half \o right
  OBVIOUS
<1>11. s \in Seq(S) /\ Len(s) = a + c + m
  BY <1>7, <1>9, <1>10, ConcatProperties
<1>12. \A k \in 1..(a + c) : s[k] = half[k]
  BY <1>7, <1>9, <1>10
<1>13. ASSUME NEW k \in 1..m PROVE s[a + c + k] = right[k]
  <2>1. s[a + c + k] = right[a + c + k - (a + c)]
    <3>1. a + c + k \in (Len(half) + 1)..(Len(half) + Len(right))
      BY <1>7, <1>9
    <3>2. half \in Seq(S) /\ right \in Seq(S) /\ Len(half) = a + c
      BY <1>7, <1>9
    <3>3. QED
      BY <1>10, <3>1, <3>2, ConcatProperties
  <2>2. a + c + k - (a + c) = k
    OBVIOUS
  <2>3. QED
    BY <2>1, <2>2
<1>14. \A k \in 1..a : s[k] = seq[k]
  BY <1>9, <1>12
<1>15. \A k \in 1..c : s[a + k] = new[k]
  BY <1>9, <1>12
<1>16. ASSUME NEW k \in b..n PROVE s[k - b + 1 + a + c] = seq[k]
  <2>1. PICK j \in 1..m : j = k - b + 1
    BY <1>6
  <2>2. s[a + c + j] = seq[j + b - 1]
    BY <1>7, <1>13
  <2>3. j + b - 1 = k /\ a + c + j = k - b + 1 + a + c
    BY <2>1
  <2>4. QED
    BY <2>2, <2>3
<1>17. ASSUME NEW k \in 1..(a + c + m)
       PROVE  \/ k \in 1..a
              \/ \E j \in 1..c : k = a + j
              \/ \E j \in b..n : k = j - b + 1 + a + c
  <2>1. CASE k <= a
    BY <2>1
  <2>2. CASE a < k /\ k <= a + c
    <3>1. k - a \in 1..c /\ k = a + (k - a)
      BY <2>2
    <3>2. QED
      BY <3>1
  <2>3. CASE a + c < k
    <3>1. k - a - c + b - 1 \in b..n /\ k = (k - a - c + b - 1) - b + 1 + a + c
      BY <1>6, <2>3
    <3>2. QED
      BY <3>1
  <2>4. QED
    BY <2>1, <2>2, <2>3
<1>18. IsReplaced(s, seq, a, new, b)
  <2>1. Len(s) = a + c + (n - b + 1) /\ Len(s) = a + c + m
    BY <1>6, <1>11
  <2>2. QED
    BY <1>1, <1>2, <1>14, <1>15, <1>16, <1>17, <2>1, ZenonT(30) DEF IsReplaced
<1>19. QED
  BY <1>3, <1>4, <1>8, <1>10, <1>11, <1>18

(* s is seq with e before what was at p.                                   *)
IsInsertion(s, seq, p, e) ==
  /\ Len(s) = Len(seq) + 1
  /\ \A k \in 1..(p - 1) : s[k] = seq[k]
  /\ s[p] = e
  /\ \A k \in p..Len(seq) : s[k + 1] = seq[k]

(* InsertAt of SequencesExt, element by element.                           *)
LEMMA InsertAtIs ==
  ASSUME NEW S, NEW seq \in Seq(S), NEW e \in S, NEW p \in 1..(Len(seq) + 1)
  PROVE  InsertAt(seq, p, e) \in Seq(S) /\ IsInsertion(InsertAt(seq, p, e), seq, p, e)
<1>1. PICK s : s = InsertAt(seq, p, e)
  OBVIOUS
<1>2. Len(seq) \in Nat /\ p - 1 \in Nat /\ p \in Nat /\ p - 1 < p /\ p <= Len(seq) + 1
  OBVIOUS
<1>3. <<e>> \in Seq(S) /\ Len(<<e>>) = 1 /\ <<e>>[1] = e
  OBVIOUS
<1>4. s \in Seq(S) /\ IsReplaced(s, seq, p - 1, <<e>>, p)
  BY <1>1, <1>2, <1>3, ReplacedIs DEF InsertAt
<1>5. Len(s) = p - 1 + 1 + (Len(seq) - p + 1)
  BY <1>3, <1>4 DEF IsReplaced
<1>6. \A k \in 1..(p - 1) : s[k] = seq[k]
  BY <1>4 DEF IsReplaced
<1>7. s[p - 1 + 1] = e
  <2>1. 1 \in 1..Len(<<e>>)
    BY <1>3
  <2>2. QED
    BY <1>3, <1>4, <2>1 DEF IsReplaced
<1>8. ASSUME NEW k \in p..Len(seq) PROVE s[k + 1] = seq[k]
  <2>1. s[k - p + 1 + (p - 1) + 1] = seq[k]
    BY <1>3, <1>4 DEF IsReplaced
  <2>2. k - p + 1 + (p - 1) + 1 = k + 1
    BY <1>2
  <2>3. QED
    BY <2>1, <2>2
<1>9. p - 1 + 1 = p /\ p - 1 + 1 + (Len(seq) - p + 1) = Len(seq) + 1
  BY <1>2
<1>10. QED
  BY <1>1, <1>4, <1>5, <1>6, <1>7, <1>8, <1>9 DEF IsInsertion

(* A sequence without a part of it.                                        *)
LEMMA JoinedIs ==
  ASSUME NEW S, NEW seq \in Seq(S), NEW a \in Nat, NEW b \in Nat, a < b, b <= Len(seq) + 1
  PROVE  /\ SubSeq(seq, 1, a) \o SubSeq(seq, b, Len(seq)) \in Seq(S)
         /\ IsReplaced(SubSeq(seq, 1, a) \o SubSeq(seq, b, Len(seq)), seq, a, <<>>, b)
<1>1. <<>> \in Seq(S)
  BY EmptySeq
<1>2. SubSeq(seq, 1, a) \in Seq(S)
  <2>1. \A k \in 1..a : seq[k] \in S
    BY ElementOfSeq
  <2>2. QED
    BY <2>1, SubSeqProperties
<1>3. SubSeq(seq, 1, a) \o <<>> = SubSeq(seq, 1, a)
  BY <1>2, ConcatEmptySeq
<1>4. QED
  BY <1>1, <1>3, ReplacedIs

(* RemoveAt of SequencesExt is such a sequence.                            *)
LEMMA RemoveAtIs ==
  ASSUME NEW S, NEW seq \in Seq(S), NEW p \in 1..Len(seq)
  PROVE  /\ RemoveAt(seq, p) \in Seq(S) /\ Len(RemoveAt(seq, p)) = Len(seq) - 1
         /\ \A k \in 1..(p - 1) : RemoveAt(seq, p)[k] = seq[k]
         /\ \A k \in p..(Len(seq) - 1) : RemoveAt(seq, p)[k] = seq[k + 1]
<1>1. PICK s : s = RemoveAt(seq, p)
  OBVIOUS
<1>2. PICK n \in Nat : n = Len(seq)
  OBVIOUS
<1>3. p - 1 \in Nat /\ p + 1 \in Nat /\ p - 1 < p + 1 /\ p + 1 <= n + 1
  BY <1>2
<1>4. s \in Seq(S) /\ IsReplaced(s, seq, p - 1, <<>>, p + 1)
  BY <1>1, <1>2, <1>3, JoinedIs DEF RemoveAt
<1>5. Len(<<>>) = 0
  OBVIOUS
<1>6. Len(s) = p - 1 + 0 + (n - (p + 1) + 1)
  BY <1>2, <1>4, <1>5 DEF IsReplaced
<1>7. \A k \in 1..(p - 1) : s[k] = seq[k]
  BY <1>4 DEF IsReplaced
<1>8. ASSUME NEW k \in p..(n - 1) PROVE s[k] = seq[k + 1]
  <2>1. k + 1 \in (p + 1)..n
    BY <1>3
  <2>2. s[k + 1 - (p + 1) + 1 + (p - 1) + 0] = seq[k + 1]
    BY <1>2, <1>4, <1>5, <2>1 DEF IsReplaced
  <2>3. k + 1 - (p + 1) + 1 + (p - 1) + 0 = k
    BY <1>3
  <2>4. QED
    BY <2>2, <2>3
<1>9. p - 1 + 0 + (n - (p + 1) + 1) = n - 1
  BY <1>2
<1>10. QED
  BY <1>1, <1>2, <1>4, <1>6, <1>7, <1>8, <1>9

(* How often each value is retained.  Within a call a count may be below   *)
(* what the entries hold, so the numbers are not bounded yet.              *)
References == [Values -> Int]

(* What an operation on a dictionary returns.                              *)
Outcomes == [dict : Dictionaries, refs : References, unchanged : BOOLEAN]

Bump(b) == IF b THEN 1 ELSE 0

(* The ids under which a dictionary holds v, and how many these are.       *)
Has(d, id, v) == \E k \in 1..Len(d) : d[k].id = id /\ d[k].value = v

(* Under id a dictionary holds value, or nothing; elsewhere two are alike. *)
HoldsAt(d, id, value) == \A v : Has(d, id, v) <=> value = v

Lacks(d, id) == \A v : ~Has(d, id, v)

AlikeElsewhere(e, d, id) == \A i, v : i # id => (Has(e, i, v) <=> Has(d, i, v))

Carried(d, v) == {id \in AttributeIDs : Has(d, id, v)}

Count(d, v) == Cardinality(Carried(d, v))

(* There are finitely many registered attributes.                          *)
LEMMA AttributeIDsFinite ==
  /\ IsFiniteSet(AttributeIDs)
  /\ AttributeIDs \in SUBSET Int
<1>1. Len(Infos) \in Int
  BY InfosAssumption
<1>2. QED
  BY <1>1, FS_Interval DEF AttributeIDs

(* A value is held under finitely many ids.                                *)
LEMMA CountIsNat ==
  ASSUME NEW d, NEW v
  PROVE  IsFiniteSet(Carried(d, v)) /\ Count(d, v) \in Nat
<1>1. Carried(d, v) \in SUBSET AttributeIDs
  BY DEF Carried
<1>2. IsFiniteSet(Carried(d, v))
  BY <1>1, AttributeIDsFinite, FS_Subset
<1>3. QED
  BY <1>2, FS_CardinalityType DEF Count

(* References are not the NULL registry, so that they count.               *)
LEMMA ReferencesAreCounted ==
  ASSUME NEW refs \in References
  PROVE  refs # NoRegistry
<1>1. DOMAIN refs = Values /\ Values # {}
  BY InfosAssumption DEF References
<1>2. DOMAIN NoRegistry = {}
  BY DEF NoRegistry
<1>3. QED
  BY <1>1, <1>2

(* Retaining a value counts it once more.                                  *)
LEMMA RetainIs ==
  ASSUME NEW refs \in References, NEW v \in Values
  PROVE  /\ Retain(refs, v) \in References
         /\ \A w \in Values : Retain(refs, v)[w] = refs[w] + Bump(v = w)
<1>1. Retain(refs, v) = [refs EXCEPT ![v] = @ + 1]
  BY ReferencesAreCounted DEF Retain
<1>2. QED
  BY <1>1 DEF References, Bump

(* Releasing a value counts it once less.                                  *)
LEMMA ReleaseIs ==
  ASSUME NEW refs \in References, NEW v \in Values
  PROVE  /\ Release(refs, v) \in References
         /\ \A w \in Values : Release(refs, v)[w] = refs[w] - Bump(v = w)
<1>1. Release(refs, v) = [refs EXCEPT ![v] = @ - 1]
  BY ReferencesAreCounted DEF Release
<1>2. QED
  BY <1>1 DEF References, Bump

(* Two sets that differ in one element at most.                            *)
LEMMA DifferInOne ==
  ASSUME NEW S, NEW T, IsFiniteSet(S), IsFiniteSet(T), NEW x, S \ {x} = T \ {x}
  PROVE  /\ Cardinality(S) \in Nat /\ Cardinality(T) \in Nat
         /\ Cardinality(T) - Bump(x \in T) = Cardinality(S) - Bump(x \in S)
<1>1. Cardinality(S) \in Nat /\ Cardinality(T) \in Nat
  BY FS_CardinalityType
<1>2. ASSUME NEW U, IsFiniteSet(U) PROVE Cardinality(U \ {x}) = Cardinality(U) - Bump(x \in U)
  <2>1. CASE x \in U
    BY <1>2, <2>1, FS_RemoveElement DEF Bump
  <2>2. CASE x \notin U
    <3>1. U \ {x} = U
      BY <2>2
    <3>2. Cardinality(U) \in Nat
      BY <1>2, FS_CardinalityType
    <3>3. Bump(x \in U) = 0
      BY <2>2 DEF Bump
    <3>4. Cardinality(U \ {x}) = Cardinality(U)
      BY <3>1
    <3>5. QED
      BY <3>2, <3>3, <3>4
  <2>3. QED
    BY <2>1, <2>2
<1>3. QED
  BY <1>1, <1>2

(* A dictionary where only the item of id changes.                         *)
LEMMA CountDiffers ==
  ASSUME NEW d, NEW e, NEW v, NEW id \in AttributeIDs,
         AlikeElsewhere(e, d, id)
  PROVE  /\ Count(d, v) \in Nat /\ Count(e, v) \in Nat
         /\ Count(e, v) - Bump(Has(e, id, v)) = Count(d, v) - Bump(Has(d, id, v))
<1>1. Carried(d, v) \ {id} = Carried(e, v) \ {id}
  BY DEF Carried, AlikeElsewhere
<1>2. IsFiniteSet(Carried(d, v)) /\ IsFiniteSet(Carried(e, v))
  BY CountIsNat
<1>3. (id \in Carried(d, v) <=> Has(d, id, v)) /\ (id \in Carried(e, v) <=> Has(e, id, v))
  BY DEF Carried
<1>4. Count(e, v) - Bump(id \in Carried(e, v)) = Count(d, v) - Bump(id \in Carried(d, v))
  BY <1>1, <1>2, DifferInOne DEF Count
<1>5. Bump(id \in Carried(e, v)) = Bump(Has(e, id, v)) /\ Bump(id \in Carried(d, v)) = Bump(Has(d, id, v))
  BY <1>3 DEF Bump
<1>6. QED
  BY <1>4, <1>5, CountIsNat

(* A dictionary holds one value under an id.                               *)
LEMMA HasOneAt ==
  ASSUME NEW d \in Dictionaries, NEW id, NEW value,
         \E p \in 1..Len(d) : d[p].id = id /\ d[p].value = value
  PROVE  HoldsAt(d, id, value)
<1>1. PICK p \in 1..Len(d) : d[p].id = id /\ d[p].value = value
  OBVIOUS
<1>2. \A k \in 1..Len(d) : d[k].id = id => k = p
  BY <1>1, DictionaryFacts
<1>3. QED
  BY <1>1, <1>2 DEF Has, HoldsAt

(* FindValue tells whether a dictionary holds v under id.                  *)
LEMMA FindValueIs ==
  ASSUME NEW d \in Dictionaries, NEW id \in AttributeIDs, NEW v
  PROVE  FindValue(d, id) = {v} <=> Has(d, id, v)
<1>1. id \in Int
  BY AttributeIDsFinite
<1>2. PICK at : at = BinarySearchIndex(d, id)
  OBVIOUS
<1>3. IsPlace(d, id, at)
  BY <1>1, <1>2, SearchFinds
<1>4. Len(d) \in Nat /\ \A k \in 1..Len(d) : d[k].id \in Int
  BY DictionaryFacts
<1>5. CASE at.found
  <2>1. at.index \in 1..Len(d) /\ d[at.index].id = id
    BY <1>3, <1>4, <1>5 DEF IsPlace
  <2>2. FindValue(d, id) = {d[at.index].value}
    BY <1>2, <1>5 DEF FindValue
  <2>3. Has(d, id, v) <=> d[at.index].value = v
    <3>1. PICK w : w = d[at.index].value
      OBVIOUS
    <3>2. \E p \in 1..Len(d) : d[p].id = id /\ d[p].value = w
      BY <2>1, <3>1
    <3>3. HoldsAt(d, id, w)
      BY <3>2, HasOneAt
    <3>4. QED
      BY <3>1, <3>3 DEF HoldsAt
  <2>4. QED
    BY <2>2, <2>3
<1>6. CASE ~at.found
  <2>1. FindValue(d, id) = {}
    BY <1>2, <1>6 DEF FindValue
  <2>2. \A k \in 1..Len(d) : d[k].id # id
    <3>1. \A k \in 1..Len(d) : d[k].id < id \/ id < d[k].id
      BY <1>3, <1>4, <1>6 DEF IsPlace
    <3>2. QED
      BY <1>1, <1>4, <3>1
  <2>3. ~Has(d, id, v)
    BY <2>2 DEF Has
  <2>4. QED
    BY <2>1, <2>3
<1>7. QED
  BY <1>5, <1>6

(* Items in the order of their ids make a dictionary.                      *)
LEMMA DictionaryFrom ==
  ASSUME NEW d \in Seq(Items), \A j, k \in 1..Len(d) : j < k => d[j].id < d[k].id
  PROVE  d \in Dictionaries
  BY DEF Dictionaries

(* The empty dictionary.                                                   *)
LEMMA EmptyDictionary ==
  /\ <<>> \in Dictionaries
  /\ \A v : Count(<<>>, v) = 0
<1>1. <<>> \in Seq(Items) /\ Len(<<>>) = 0
  BY EmptySeq
<1>a. <<>> \in Dictionaries
  BY <1>1 DEF Dictionaries
<1>2. ASSUME NEW v PROVE Count(<<>>, v) = 0
  <2>1. ASSUME NEW x \in Carried(<<>>, v) PROVE FALSE
    BY <1>1, <2>1 DEF Carried, Has
  <2>2. Carried(<<>>, v) = {}
    BY <2>1
  <2>3. QED
    BY <2>2, FS_EmptySet DEF Count
<1>3. QED
  BY <1>a, <1>2

(* The item at p gets another value.                                       *)
IsRevalued(e, d, p, id, value) ==
  p \in 1..Len(d) /\ d[p].id = id /\ e = [d EXCEPT ![p].value = value]

(* A dictionary in which an item gets another value.                       *)
LEMMA ValueChanges ==
  ASSUME NEW d \in Dictionaries, NEW p, NEW id, NEW value \in Values,
         NEW e, IsRevalued(e, d, p, id, value)
  PROVE  /\ e \in Dictionaries
         /\ AlikeElsewhere(e, d, id)
         /\ HoldsAt(e, id, value)
<1>1. /\ d \in Seq(Items) /\ Len(d) \in Nat /\ DOMAIN d = 1..Len(d)
      /\ \A k \in 1..Len(d) : d[k] \in Items /\ d[k].id \in Int
      /\ \A j, k \in 1..Len(d) : j < k => d[j].id < d[k].id
  BY DictionaryFacts
<1>a. p \in 1..Len(d) /\ d[p].id = id
  BY DEF IsRevalued
<1>2. PICK item : item = [d[p] EXCEPT !.value = value]
  OBVIOUS
<1>3. item \in Items /\ item.id = id /\ item.value = value
  BY <1>1, <1>a, <1>2 DEF Items
<1>4. e = [d EXCEPT ![p] = item]
  BY <1>2 DEF IsRevalued
<1>5. e \in Seq(Items) /\ Len(e) = Len(d) /\ \A k \in 1..Len(d) : e[k] = IF k = p THEN item ELSE d[k]
  BY <1>1, <1>a, <1>3, <1>4, ExceptSeq
<1>6. \A k \in 1..Len(d) : e[k].id = d[k].id
  BY <1>a, <1>3, <1>5
<1>7. e \in Dictionaries
  BY <1>1, <1>5, <1>6, DictionaryFrom
<1>8. ASSUME NEW i, NEW v, i # id PROVE Has(e, i, v) <=> Has(d, i, v)
  <2>1. \A k \in 1..Len(d) : e[k].id = i /\ e[k].value = v <=> d[k].id = i /\ d[k].value = v
    BY <1>a, <1>3, <1>5, <1>8
  <2>2. QED
    BY <1>5, <2>1 DEF Has
<1>9. HoldsAt(e, id, value)
  <2>1. \E q \in 1..Len(e) : e[q].id = id /\ e[q].value = value
    BY <1>a, <1>3, <1>5
  <2>2. QED
    BY <1>7, <2>1, HasOneAt
<1>10. AlikeElsewhere(e, d, id)
  BY <1>8 DEF AlikeElsewhere
<1>11. QED
  BY <1>7, <1>9, <1>10

(* An item that gets the value it has.                                     *)
LEMMA SameValue ==
  ASSUME NEW d \in Dictionaries, NEW p, NEW id, NEW value,
         NEW e, IsRevalued(e, d, p, id, value), d[p].value = value
  PROVE  e = d
<1>1. d \in Seq(Items) /\ Len(d) \in Nat /\ DOMAIN d = 1..Len(d) /\ p \in 1..Len(d)
  BY DictionaryFacts DEF IsRevalued
<1>2. d[p] \in Items
  BY <1>1, DictionaryFacts
<1>3. [d[p] EXCEPT !.value = value] = d[p]
  BY <1>2 DEF Items
<1>4. PICK item : item = [d[p] EXCEPT !.value = value]
  OBVIOUS
<1>5. e = [d EXCEPT ![p] = item]
  BY <1>4 DEF IsRevalued
<1>6. item = d[p]
  BY <1>3, <1>4
<1>7. \A k \in 1..Len(d) : e[k] = d[k]
  BY <1>1, <1>5, <1>6
<1>8. e \in Seq(Items) /\ Len(e) = Len(d)
  BY <1>1, <1>2, <1>5, <1>6, ExceptSeq
<1>9. QED
  BY <1>1, <1>7, <1>8, SeqEqual

(* An item is inserted where the search says.                              *)
IsInserted(e, d, p, id, value) == e = InsertAt(d, p, [id |-> id, value |-> value])

(* A dictionary with an item more.                                         *)
LEMMA ItemInserted ==
  ASSUME NEW d \in Dictionaries, NEW id \in AttributeIDs, NEW value \in Values, NEW at,
         IsPlace(d, id, at), ~at.found,
         NEW e, IsInserted(e, d, at.index, id, value)
  PROVE  /\ e \in Dictionaries
         /\ AlikeElsewhere(e, d, id)
         /\ HoldsAt(e, id, value)
         /\ Lacks(d, id)
<1>1. /\ d \in Seq(Items) /\ Len(d) \in Nat
      /\ \A k \in 1..Len(d) : d[k] \in Items /\ d[k].id \in Int
      /\ \A j, k \in 1..Len(d) : j < k => d[j].id < d[k].id
  BY DictionaryFacts
<1>2. PICK n \in Nat : n = Len(d)
  BY <1>1
<1>3. PICK p \in 1..(n + 1) : p = at.index
  BY <1>2 DEF IsPlace
<1>4. PICK item : item = [id |-> id, value |-> value]
  OBVIOUS
<1>5. item \in Items /\ item.id = id /\ item.value = value
  BY <1>4 DEF Items
<1>6. /\ e \in Seq(Items) /\ Len(e) = n + 1
      /\ \A k \in 1..(p - 1) : e[k] = d[k]
      /\ e[p] = item
      /\ \A k \in p..n : e[k + 1] = d[k]
  <2>1. e = InsertAt(d, p, item) /\ p \in 1..(Len(d) + 1)
    BY <1>2, <1>3, <1>4 DEF IsInserted
  <2>2. p \in 1..(Len(d) + 1)
    BY <1>2
  <2>3. e \in Seq(Items) /\ IsInsertion(e, d, p, item)
    BY <1>1, <1>5, <2>1, <2>2, InsertAtIs
  <2>4. QED
    BY <1>2, <2>3 DEF IsInsertion
<1>7. id \in Int
  BY AttributeIDsFinite
<1>8. (\A k \in 1..n : k < p => d[k].id < id) /\ \A k \in 1..n : p <= k => id < d[k].id
  BY <1>2, <1>3 DEF IsPlace
<1>9. ASSUME NEW j \in 1..(n + 1), NEW k \in 1..(n + 1), j < k PROVE e[j].id < e[k].id
  <2>1. CASE k < p
    <3>1. j \in 1..(p - 1) /\ k \in 1..(p - 1) /\ j \in 1..n /\ k \in 1..n
      BY <1>9, <2>1
    <3>2. QED
      BY <1>1, <1>2, <1>6, <1>9, <3>1
  <2>2. CASE k = p
    <3>1. j \in 1..(p - 1) /\ j \in 1..n /\ j < p
      BY <1>9, <2>2
    <3>2. e[j] = d[j] /\ e[k] = item /\ d[j].id < id
      BY <1>6, <1>8, <2>2, <3>1
    <3>3. QED
      BY <1>5, <3>2
  <2>3. CASE p < k
    <3>1. PICK l \in p..n : k = l + 1
      <4>1. k - 1 \in p..n /\ k = k - 1 + 1
        BY <2>3
      <4>2. QED
        BY <4>1
    <3>2. l \in 1..n /\ e[k] = d[l]
      BY <1>6, <3>1
    <3>3. CASE j < p
      <4>1. j \in 1..(p - 1) /\ j \in 1..n /\ j < l
        BY <3>1, <3>3
      <4>2. e[j] = d[j]
        BY <1>6, <4>1
      <4>3. QED
        BY <1>1, <1>2, <3>2, <4>1, <4>2
    <3>4. CASE j = p
      <4>1. p <= l
        BY <3>1
      <4>2. id < d[l].id
        BY <1>8, <3>2, <4>1
      <4>3. QED
        BY <1>5, <1>6, <3>2, <3>4, <4>2
    <3>5. CASE p < j
      <4>1. PICK m \in p..n : j = m + 1
        <5>1. j - 1 \in p..n /\ j = j - 1 + 1
          BY <3>5, <1>9
        <5>2. QED
          BY <5>1
      <4>2. m \in 1..n /\ e[j] = d[m] /\ m < l
        BY <1>6, <1>9, <3>1, <4>1
      <4>3. QED
        BY <1>1, <1>2, <3>2, <4>2
    <3>6. QED
      BY <3>3, <3>4, <3>5
  <2>4. QED
    BY <2>1, <2>2, <2>3
<1>10. e \in Dictionaries
  BY <1>6, <1>9, DictionaryFrom
<1>11. HoldsAt(e, id, value)
  <2>1. \E q \in 1..Len(e) : e[q].id = id /\ e[q].value = value
    BY <1>5, <1>6
  <2>2. QED
    BY <1>10, <2>1, HasOneAt
<1>12. ASSUME NEW v PROVE ~Has(d, id, v)
  <2>1. \A k \in 1..n : d[k].id < id \/ id < d[k].id
    BY <1>8
  <2>2. \A k \in 1..n : d[k].id # id
    BY <1>1, <1>2, <1>7, <2>1
  <2>3. QED
    BY <1>2, <2>2 DEF Has
<1>13. ASSUME NEW i, NEW v, i # id PROVE Has(e, i, v) <=> Has(d, i, v)
  <2>1. ASSUME Has(e, i, v) PROVE Has(d, i, v)
    <3>1. PICK k \in 1..(n + 1) : e[k].id = i /\ e[k].value = v
      BY <1>6, <2>1 DEF Has
    <3>2. k # p
      BY <1>5, <1>6, <1>13, <3>1
    <3>3. CASE k < p
      <4>1. k \in 1..(p - 1) /\ k \in 1..n
        BY <3>3
      <4>2. e[k] = d[k]
        BY <1>6, <4>1
      <4>3. QED
        BY <1>2, <3>1, <4>1, <4>2 DEF Has
    <3>4. CASE p < k
      <4>1. PICK l \in p..n : k = l + 1
        <5>1. k - 1 \in p..n /\ k = k - 1 + 1
          BY <3>4
        <5>2. QED
          BY <5>1
      <4>2. l \in 1..n /\ e[k] = d[l]
        BY <1>6, <4>1
      <4>3. QED
        BY <1>2, <3>1, <4>2 DEF Has
    <3>5. QED
      BY <3>2, <3>3, <3>4
  <2>2. ASSUME Has(d, i, v) PROVE Has(e, i, v)
    <3>1. PICK k \in 1..n : d[k].id = i /\ d[k].value = v
      BY <1>2, <2>2 DEF Has
    <3>2. CASE k < p
      <4>1. k \in 1..(p - 1) /\ k \in 1..(n + 1)
        BY <3>2
      <4>2. e[k] = d[k]
        BY <1>6, <4>1
      <4>3. QED
        BY <1>6, <3>1, <4>1, <4>2 DEF Has
    <3>3. CASE p <= k
      <4>1. k \in p..n /\ k + 1 \in 1..(n + 1)
        BY <3>3
      <4>2. e[k + 1] = d[k]
        BY <1>6, <4>1
      <4>3. QED
        BY <1>6, <3>1, <4>1, <4>2 DEF Has
    <3>4. QED
      BY <3>2, <3>3
  <2>3. QED
    BY <2>1, <2>2
<1>14. QED
  BY <1>10, <1>11, <1>12, <1>13 DEF AlikeElsewhere, Lacks

(* The item at p is taken out.                                             *)
IsWithout(e, d, p, id) == p \in 1..Len(d) /\ d[p].id = id /\ e = RemoveAt(d, p)

(* A dictionary with an item less.                                         *)
LEMMA ItemRemoved ==
  ASSUME NEW d \in Dictionaries, NEW p, NEW id, NEW e, IsWithout(e, d, p, id)
  PROVE  /\ e \in Dictionaries
         /\ AlikeElsewhere(e, d, id)
         /\ Lacks(e, id)
<1>1. /\ d \in Seq(Items) /\ Len(d) \in Nat
      /\ \A k \in 1..Len(d) : d[k] \in Items /\ d[k].id \in Int
      /\ \A j, k \in 1..Len(d) : j < k => d[j].id < d[k].id
  BY DictionaryFacts
<1>a. p \in 1..Len(d) /\ d[p].id = id /\ e = RemoveAt(d, p)
  BY DEF IsWithout
<1>2. PICK n \in Nat : n = Len(d)
  BY <1>1
<1>3. p \in 1..n
  BY <1>a, <1>2
<1>4. /\ e \in Seq(Items) /\ Len(e) = n - 1
      /\ \A k \in 1..(p - 1) : e[k] = d[k]
      /\ \A k \in p..(n - 1) : e[k] = d[k + 1]
  BY <1>1, <1>a, <1>2, RemoveAtIs
<1> USE <1>3
(* Where the k-th item was.                                                *)
<1>5. ASSUME NEW k \in 1..(n - 1)
      PROVE  \E l \in 1..n : l # p /\ e[k] = d[l] /\ l = IF k < p THEN k ELSE k + 1
  <2>1. CASE k < p
    <3>1. k \in 1..(p - 1) /\ k \in 1..n /\ k # p
      BY <2>1
    <3>2. QED
      BY <1>4, <2>1, <3>1
  <2>2. CASE ~(k < p)
    <3>1. k \in p..(n - 1) /\ k + 1 \in 1..n /\ k + 1 # p
      BY <2>2
    <3>2. QED
      BY <1>4, <2>2, <3>1
  <2>3. QED
    BY <2>1, <2>2
<1>6. ASSUME NEW j \in 1..(n - 1), NEW k \in 1..(n - 1), j < k PROVE e[j].id < e[k].id
  <2>1. PICK l \in 1..n : l # p /\ e[j] = d[l] /\ l = IF j < p THEN j ELSE j + 1
    BY <1>5
  <2>2. PICK m \in 1..n : m # p /\ e[k] = d[m] /\ m = IF k < p THEN k ELSE k + 1
    BY <1>5
  <2>3. l < m
    BY <1>3, <1>6, <2>1, <2>2
  <2>4. QED
    BY <1>1, <1>2, <2>1, <2>2, <2>3
<1>7. e \in Dictionaries
  BY <1>4, <1>6, DictionaryFrom
<1>8. \A k \in 1..n : k # p => d[k].id # id
  BY <1>1, <1>a, <1>2, <1>3
<1>9. ASSUME NEW v PROVE ~Has(e, id, v)
  <2>1. \A k \in 1..(n - 1) : e[k].id # id
    BY <1>5, <1>8
  <2>2. QED
    BY <1>4, <2>1 DEF Has
<1>10. ASSUME NEW i, NEW v, i # id PROVE Has(e, i, v) <=> Has(d, i, v)
  <2>1. ASSUME Has(e, i, v) PROVE Has(d, i, v)
    <3>1. PICK k \in 1..(n - 1) : e[k].id = i /\ e[k].value = v
      BY <1>4, <2>1 DEF Has
    <3>2. PICK l \in 1..n : e[k] = d[l]
      BY <1>5
    <3>3. QED
      BY <1>2, <3>1, <3>2 DEF Has
  <2>2. ASSUME Has(d, i, v) PROVE Has(e, i, v)
    <3>1. PICK k \in 1..n : d[k].id = i /\ d[k].value = v
      BY <1>2, <2>2 DEF Has
    <3>2. k # p
      BY <1>a, <1>10, <3>1
    <3>3. CASE k < p
      <4>1. k \in 1..(p - 1) /\ k \in 1..(n - 1)
        BY <1>3, <3>3
      <4>2. e[k] = d[k]
        BY <1>4, <4>1
      <4>3. QED
        BY <1>4, <3>1, <4>1, <4>2 DEF Has
    <3>4. CASE p < k
      <4>1. PICK l \in p..(n - 1) : k = l + 1
        <5>1. k - 1 \in p..(n - 1) /\ k = k - 1 + 1
          BY <3>4
        <5>2. QED
          BY <5>1
      <4>2. l \in 1..(n - 1) /\ e[l] = d[k]
        BY <1>4, <4>1
      <4>3. QED
        BY <1>4, <3>1, <4>2 DEF Has
    <3>5. QED
      BY <3>2, <3>3, <3>4
  <2>3. QED
    BY <2>1, <2>2
<1>11. QED
  BY <1>7, <1>9, <1>10 DEF AlikeElsewhere, Lacks

(* A change of d to e that the references follow.                          *)
IsPaid(d, refs, e, after) ==
  \A v \in Values : after[v] - Count(e, v) = refs[v] - Count(d, v)

(* The counts on either side of a change are numbers.                      *)
LEMMA CountsAreInts ==
  ASSUME NEW refs \in References, NEW v \in Values, NEW d
  PROVE  refs[v] \in Int /\ Count(d, v) \in Int
  BY CountIsNat DEF References

(* Put leaves a dictionary that has the item, and the references follow.   *)
LEMMA PutResult ==
  ASSUME NEW d \in Dictionaries, NEW refs \in References, NEW id \in AttributeIDs,
         NEW value \in Values
  PROVE  \E e \in Dictionaries, after \in References, b \in BOOLEAN :
           /\ Put(d, refs, id, value) = [dict |-> e, refs |-> after, unchanged |-> b]
           /\ IsPaid(d, refs, e, after)
           /\ Has(d, id, value) => e = d /\ b = TRUE
<1>1. PICK at : at = BinarySearchIndex(d, id)
  OBVIOUS
<1>2. IsPlace(d, id, at)
  BY <1>1, AttributeIDsFinite, SearchFinds
<1>3. CASE at.found
  <2>1. PICK p \in 1..Len(d) : p = at.index /\ d[p].id = id
    BY <1>2, <1>3, DictionaryFacts DEF IsPlace
  <2>2. PICK old \in Values : old = d[p].value
    BY DictionaryFacts
  <2>3. PICK e : e = [d EXCEPT ![p].value = value]
    OBVIOUS
  <2>4. PICK retained : retained = Retain(refs, value)
    OBVIOUS
  <2>5. PICK after : after = Release(retained, old)
    OBVIOUS
  <2>6. PICK b \in BOOLEAN : b = (old = value)
    OBVIOUS
  <2>7. Put(d, refs, id, value) = [dict |-> e, refs |-> after, unchanged |-> b]
    BY <1>1, <1>3, <2>1, <2>2, <2>3, <2>4, <2>5, <2>6 DEF Put, IsEqualAttribute
  <2>a. IsRevalued(e, d, p, id, value)
    BY <2>1, <2>3 DEF IsRevalued
  <2>8. e \in Dictionaries /\ AlikeElsewhere(e, d, id) /\ HoldsAt(e, id, value)
    BY <2>a, ValueChanges
  <2>9. HoldsAt(d, id, old)
    <3>1. \E k \in 1..Len(d) : d[k].id = id /\ d[k].value = old
      BY <2>1, <2>2
    <3>2. QED
      BY <3>1, HasOneAt
  <2>10. retained \in References /\ \A v \in Values : retained[v] = refs[v] + Bump(value = v)
    BY <2>4, RetainIs
  <2>11. after \in References /\ \A v \in Values : after[v] = retained[v] - Bump(old = v)
    BY <2>5, <2>10, ReleaseIs, SMTT(30)
  <2>12. ASSUME NEW v \in Values PROVE after[v] - Count(e, v) = refs[v] - Count(d, v)
    <3>1. /\ Count(d, v) \in Nat /\ Count(e, v) \in Nat
          /\ Count(e, v) - Bump(Has(e, id, v)) = Count(d, v) - Bump(Has(d, id, v))
      BY <2>8, CountDiffers
    <3>2. PICK new \in Int : new = Bump(value = v)
      BY DEF Bump
    <3>3. PICK lost \in Int : lost = Bump(old = v)
      BY DEF Bump
    <3>4. Bump(Has(e, id, v)) = new /\ Bump(Has(d, id, v)) = lost
      BY <2>8, <2>9, <3>2, <3>3 DEF Bump, HoldsAt
    <3>5. refs[v] \in Int /\ retained[v] = refs[v] + new /\ after[v] = retained[v] - lost
      BY <2>10, <2>11, <3>2, <3>3 DEF References
    <3>6. QED
      BY <3>1, <3>4, <3>5
  <2>13. ASSUME Has(d, id, value) PROVE e = d /\ b = TRUE
    <3>1. d[p].value = value /\ old = value
      BY <2>2, <2>9, <2>13 DEF HoldsAt
    <3>2. e = d
      BY <2>a, <3>1, SameValue
    <3>3. QED
      BY <2>6, <3>1, <3>2
  <2>14. QED
    BY <2>7, <2>8, <2>11, <2>12, <2>13 DEF IsPaid
<1>4. CASE ~at.found
  <2>1. PICK e : e = InsertAt(d, at.index, [id |-> id, value |-> value])
    OBVIOUS
  <2>2. PICK after : after = Retain(refs, value)
    OBVIOUS
  <2>3. Put(d, refs, id, value) = [dict |-> e, refs |-> after, unchanged |-> FALSE]
    BY <1>1, <1>4, <2>1, <2>2 DEF Put
  <2>4. e \in Dictionaries /\ AlikeElsewhere(e, d, id) /\ HoldsAt(e, id, value) /\ Lacks(d, id)
    <3>1. IsInserted(e, d, at.index, id, value)
      BY <2>1 DEF IsInserted
    <3>2. QED
      BY <1>2, <1>4, <3>1, ItemInserted
  <2>5. after \in References /\ \A v \in Values : after[v] = refs[v] + Bump(value = v)
    BY <2>2, RetainIs
  <2>6. ASSUME NEW v \in Values PROVE after[v] - Count(e, v) = refs[v] - Count(d, v)
    <3>1. /\ Count(d, v) \in Nat /\ Count(e, v) \in Nat
          /\ Count(e, v) - Bump(Has(e, id, v)) = Count(d, v) - Bump(Has(d, id, v))
      BY <2>4, CountDiffers
    <3>2. PICK new \in Int : new = Bump(value = v)
      BY DEF Bump
    <3>3. Bump(Has(e, id, v)) = new /\ Bump(Has(d, id, v)) = 0
      BY <2>4, <3>2 DEF Bump, HoldsAt, Lacks
    <3>4. refs[v] \in Int /\ after[v] = refs[v] + new
      BY <2>5, <3>2 DEF References
    <3>5. QED
      BY <3>1, <3>3, <3>4
  <2>7. QED
    BY <2>3, <2>4, <2>5, <2>6 DEF IsPaid, Lacks
<1>5. QED
  BY <1>3, <1>4

(* RemoveItem leaves a dictionary, and the references follow.              *)
LEMMA RemoveItemResult ==
  ASSUME NEW d \in Dictionaries, NEW refs \in References, NEW id \in AttributeIDs
  PROVE  \E e \in Dictionaries, after \in References, b \in BOOLEAN :
           /\ RemoveItem(d, refs, id) = [dict |-> e, refs |-> after, unchanged |-> b]
           /\ IsPaid(d, refs, e, after)
<1>1. PICK at : at = BinarySearchIndex(d, id)
  OBVIOUS
<1>2. IsPlace(d, id, at)
  BY <1>1, AttributeIDsFinite, SearchFinds
<1>3. CASE at.found
  <2>1. PICK p \in 1..Len(d) : p = at.index /\ d[p].id = id
    BY <1>2, <1>3, DictionaryFacts DEF IsPlace
  <2>2. PICK e : e = RemoveAt(d, p)
    OBVIOUS
  <2>3. PICK old \in Values : old = d[p].value
    BY DictionaryFacts
  <2>4. PICK after : after = Release(refs, old)
    OBVIOUS
  <2>5. RemoveItem(d, refs, id) = [dict |-> e, refs |-> after, unchanged |-> FALSE]
    BY <1>1, <1>3, <2>1, <2>2, <2>3, <2>4 DEF RemoveItem
  <2>6. e \in Dictionaries /\ AlikeElsewhere(e, d, id) /\ Lacks(e, id)
    <3>1. IsWithout(e, d, p, id)
      BY <2>1, <2>2 DEF IsWithout
    <3>2. QED
      BY <3>1, ItemRemoved
  <2>7. after \in References /\ \A v \in Values : after[v] = refs[v] - Bump(old = v)
    BY <2>4, ReleaseIs
  <2>8. HoldsAt(d, id, old)
    <3>1. \E k \in 1..Len(d) : d[k].id = id /\ d[k].value = old
      BY <2>1, <2>3
    <3>2. QED
      BY <3>1, HasOneAt
  <2>9. ASSUME NEW v \in Values PROVE after[v] - Count(e, v) = refs[v] - Count(d, v)
    <3>1. /\ Count(d, v) \in Nat /\ Count(e, v) \in Nat
          /\ Count(e, v) - Bump(Has(e, id, v)) = Count(d, v) - Bump(Has(d, id, v))
      BY <2>6, CountDiffers
    <3>2. Bump(Has(e, id, v)) = 0 /\ Bump(Has(d, id, v)) = Bump(old = v)
      BY <2>6, <2>8 DEF Bump, HoldsAt, Lacks
    <3>3. Bump(old = v) \in Int /\ refs[v] \in Int
      BY DEF Bump, References
    <3>4. QED
      BY <2>7, <3>1, <3>2, <3>3
  <2>10. QED
    BY <2>5, <2>6, <2>7, <2>9 DEF IsPaid
<1>4. CASE ~at.found
  <2>1. RemoveItem(d, refs, id) = [dict |-> d, refs |-> refs, unchanged |-> TRUE]
    BY <1>1, <1>4 DEF RemoveItem
  <2>2. IsPaid(d, refs, d, refs)
    BY DEF IsPaid
  <2>3. QED
    BY <2>1, <2>2
<1>5. QED
  BY <1>3, <1>4

(* What a client puts into an empty dictionary.                            *)
LEMMA PutIntoEmpty ==
  ASSUME NEW id \in AttributeIDs, NEW value \in Values, NEW refs
  PROVE  Put(<<>>, refs, id, value).dict \in Dictionaries
<1>1. PICK d \in Dictionaries : d = <<>>
  BY EmptyDictionary
<1>2. PICK at : at = BinarySearchIndex(d, id)
  OBVIOUS
<1>3. IsPlace(d, id, at)
  BY <1>2, AttributeIDsFinite, SearchFinds
<1>4. ~at.found
  <2>1. Len(d) = 0
    BY <1>1
  <2>2. QED
    BY <1>3, <2>1 DEF IsPlace
<1>5. Put(d, refs, id, value).dict = InsertAt(d, at.index, [id |-> id, value |-> value])
  BY <1>2, <1>4 DEF Put
<1>6. InsertAt(d, at.index, [id |-> id, value |-> value]) \in Dictionaries
  <2>1. IsInserted(InsertAt(d, at.index, [id |-> id, value |-> value]), d, at.index, id, value)
    BY DEF IsInserted
  <2>2. QED
    BY <1>3, <1>4, <2>1, ItemInserted
<1>7. QED
  BY <1>1, <1>5, <1>6

(* The ids under which the first k items hold v.                           *)
HasTo(d, k, id, v) == \E j \in 1..k : d[j].id = id /\ d[j].value = v

CarriedTo(d, k, v) == {id \in AttributeIDs : HasTo(d, k, id, v)}

CountTo(d, k, v) == Cardinality(CarriedTo(d, k, v))

(* The count starts at nothing and ends at what the dictionary holds.      *)
LEMMA CountToEnds ==
  ASSUME NEW d, NEW v
  PROVE  CountTo(d, 0, v) = 0 /\ CountTo(d, Len(d), v) = Count(d, v)
<1>1. CarriedTo(d, 0, v) = {}
  BY DEF CarriedTo, HasTo
<1>2. CarriedTo(d, Len(d), v) = Carried(d, v)
  BY DEF CarriedTo, Carried, HasTo, Has
<1>3. QED
  BY <1>1, <1>2, FS_EmptySet DEF CountTo, Count

(* Item by item the count grows by the values that are v.                  *)
LEMMA CountToStep ==
  ASSUME NEW d \in Dictionaries, NEW k \in 1..Len(d), NEW v
  PROVE  /\ CountTo(d, k, v) \in Nat /\ CountTo(d, k - 1, v) \in Nat
         /\ CountTo(d, k, v) = CountTo(d, k - 1, v) + Bump(d[k].value = v)
<1>1. Len(d) \in Nat /\ \A j, l \in 1..Len(d) : j < l => d[j].id < d[l].id
  BY DictionaryFacts
<1>2. PICK id \in AttributeIDs : id = d[k].id
  BY DictionaryFacts
<1>3. \A j \in 1..(k - 1) : d[j].id # id
  <2>1. ASSUME NEW j \in 1..(k - 1) PROVE d[j].id # id
    <3>1. j \in 1..Len(d) /\ j < k
      BY <1>1
    <3>2. d[j].id < d[k].id /\ d[j].id \in Int
      BY <1>1, <3>1, DictionaryFacts
    <3>3. QED
      BY <1>2, <3>2
  <2>2. QED
    BY <2>1
<1>4. \A i : HasTo(d, k, i, v) <=> HasTo(d, k - 1, i, v) \/ (i = id /\ d[k].value = v)
  <2>1. 1..k = (1..(k - 1)) \cup {k}
    BY <1>1
  <2>2. QED
    BY <1>2, <2>1 DEF HasTo
<1>5. ~HasTo(d, k - 1, id, v)
  BY <1>3 DEF HasTo
<1>6. CarriedTo(d, k - 1, v) \ {id} = CarriedTo(d, k, v) \ {id}
  BY <1>4 DEF CarriedTo
<1>7. IsFiniteSet(CarriedTo(d, k - 1, v)) /\ IsFiniteSet(CarriedTo(d, k, v))
  <2>1. CarriedTo(d, k - 1, v) \in SUBSET AttributeIDs /\ CarriedTo(d, k, v) \in SUBSET AttributeIDs
    BY DEF CarriedTo
  <2>2. QED
    BY <2>1, AttributeIDsFinite, FS_Subset
<1>8. /\ CountTo(d, k - 1, v) \in Nat /\ CountTo(d, k, v) \in Nat
      /\ CountTo(d, k, v) - Bump(id \in CarriedTo(d, k, v))
         = CountTo(d, k - 1, v) - Bump(id \in CarriedTo(d, k - 1, v))
  BY <1>6, <1>7, DifferInOne DEF CountTo
<1>9. Bump(id \in CarriedTo(d, k - 1, v)) = 0
  BY <1>5 DEF CarriedTo, Bump
<1>10. PICK b \in Int : b = Bump(d[k].value = v)
  BY DEF Bump
<1>11. Bump(id \in CarriedTo(d, k, v)) = b
  <2>1. id \in CarriedTo(d, k, v) <=> d[k].value = v
    BY <1>4, <1>5 DEF CarriedTo
  <2>2. QED
    BY <1>10, <2>1 DEF Bump
<1>12. QED
  BY <1>8, <1>9, <1>10, <1>11

-----------------------------------------------------------------------------
(* Releasing and retaining all that a dictionary holds.                    *)

ReleaseTurn(env, r, item) == Release(r, item.value)

ReleaseInv(env, k, r) ==
  /\ r \in References
  /\ \A v \in Values : r[v] = env.refs[v] - CountTo(env.dict, k, v)

Releases == INSTANCE FoldTheorems WITH Op <- ReleaseTurn, Inv <- ReleaseInv

(* The loop of ReleaseAll, as the fold that Releases reasons on.           *)
LEMMA ReleaseAllIsFold ==
  ASSUME NEW refs, NEW d, NEW env
  PROVE  ReleaseAll(refs, d) = Releases!Folded(env, refs, d)
  BY DEF ReleaseAll, Releases!Folded, FoldLeft, MapThenFoldSet, Max, Releases!Max, ReleaseTurn

(* ReleaseAll gives every value back as often as the dictionary holds it.  *)
LEMMA ReleaseAllIs ==
  ASSUME NEW refs \in References, NEW d \in Dictionaries
  PROVE  /\ ReleaseAll(refs, d) \in References
         /\ \A v \in Values : ReleaseAll(refs, d)[v] = refs[v] - Count(d, v)
<1>1. PICK env : env = [refs |-> refs, dict |-> d]
  OBVIOUS
<1>2. env.refs = refs /\ env.dict = d
  BY <1>1
<1>3. PICK n \in Nat : n = Len(d) /\ DOMAIN d = 1..n
  BY DictionaryFacts
<1>4. ReleaseInv(env, 0, refs)
  <2>1. \A v \in Values : refs[v] \in Int /\ CountTo(d, 0, v) = 0
    BY CountToEnds DEF References
  <2>2. QED
    BY <1>2, <2>1 DEF ReleaseInv
<1>5. ASSUME NEW k \in 1..n, NEW r, ReleaseInv(env, k - 1, r)
      PROVE  ReleaseInv(env, k, ReleaseTurn(env, r, d[k]))
  <2>1. PICK value \in Values : value = d[k].value
    BY <1>3, DictionaryFacts
  <2>2. PICK s : s = Release(r, value)
    OBVIOUS
  <2>3. r \in References /\ \A v \in Values : r[v] = refs[v] - CountTo(d, k - 1, v)
    BY <1>2, <1>5 DEF ReleaseInv
  <2>4. s \in References /\ \A v \in Values : s[v] = r[v] - Bump(value = v)
    BY <2>2, <2>3, ReleaseIs
  <2>5. ASSUME NEW v \in Values PROVE s[v] = refs[v] - CountTo(d, k, v)
    <3>1. /\ CountTo(d, k, v) \in Nat /\ CountTo(d, k - 1, v) \in Nat
          /\ CountTo(d, k, v) = CountTo(d, k - 1, v) + Bump(value = v)
      BY <1>3, <2>1, CountToStep
    <3>2. PICK b \in Int : b = Bump(value = v)
      BY DEF Bump
    <3>3. refs[v] \in Int /\ s[v] = r[v] - b /\ r[v] = refs[v] - CountTo(d, k - 1, v)
      BY <2>3, <2>4, <3>2 DEF References
    <3>4. QED
      BY <3>1, <3>2, <3>3
  <2>6. ReleaseInv(env, k, s)
    BY <1>2, <2>4, <2>5 DEF ReleaseInv
  <2>7. QED
    BY <2>1, <2>2, <2>6 DEF ReleaseTurn
<1>6. ReleaseInv(env, n, Releases!Folded(env, refs, d))
  BY <1>3, <1>4, <1>5, Releases!FoldLeftInvariant
<1>7. ReleaseInv(env, n, ReleaseAll(refs, d))
  BY <1>6, ReleaseAllIsFold
<1>8. \A v : CountTo(d, n, v) = Count(d, v)
  BY <1>3, CountToEnds
<1>9. QED
  BY <1>2, <1>7, <1>8 DEF ReleaseInv

RetainTurn(env, r, item) == Retain(r, item.value)

RetainInv(env, k, r) ==
  /\ r \in References
  /\ \A v \in Values : r[v] = env.refs[v] + CountTo(env.dict, k, v)

Retains == INSTANCE FoldTheorems WITH Op <- RetainTurn, Inv <- RetainInv

(* An empty dictionary becomes a copy of d.                                *)
LEMMA RefsAfterSetIsFold ==
  ASSUME NEW refs, NEW d, NEW env
  PROVE  RefsAfterSet(refs, <<>>, d) = Retains!Folded(env, ReleaseAll(refs, <<>>), d)
  BY DEF RefsAfterSet, Retains!Folded, FoldLeft, MapThenFoldSet, Max, Retains!Max, RetainTurn

(* Nothing is released with the empty dictionary.                          *)
LEMMA ReleaseNothing ==
  ASSUME NEW refs \in References
  PROVE  ReleaseAll(refs, <<>>) = refs
<1>1. PICK d \in Dictionaries : d = <<>> /\ \A v : Count(d, v) = 0
  BY EmptyDictionary
<1>2. PICK r : r = ReleaseAll(refs, d)
  OBVIOUS
<1>3. r \in References /\ \A v \in Values : r[v] = refs[v] - 0
  BY <1>1, <1>2, ReleaseAllIs
<1>4. r = refs
  BY <1>3 DEF References
<1>5. QED
  BY <1>1, <1>2, <1>4

(* A dictionary that becomes a copy of d retains what d holds.             *)
LEMMA RefsAfterSetIs ==
  ASSUME NEW refs \in References, NEW d \in Dictionaries
  PROVE  /\ RefsAfterSet(refs, <<>>, d) \in References
         /\ \A v \in Values : RefsAfterSet(refs, <<>>, d)[v] = refs[v] + Count(d, v)
<1>1. PICK env : env = [refs |-> refs, dict |-> d]
  OBVIOUS
<1>2. env.refs = refs /\ env.dict = d
  BY <1>1
<1>3. PICK n \in Nat : n = Len(d) /\ DOMAIN d = 1..n
  BY DictionaryFacts
<1>4. RetainInv(env, 0, refs)
  <2>1. \A v \in Values : refs[v] \in Int /\ CountTo(d, 0, v) = 0
    BY CountToEnds DEF References
  <2>2. QED
    BY <1>2, <2>1 DEF RetainInv
<1>5. ASSUME NEW k \in 1..n, NEW r, RetainInv(env, k - 1, r)
      PROVE  RetainInv(env, k, RetainTurn(env, r, d[k]))
  <2>1. PICK value \in Values : value = d[k].value
    BY <1>3, DictionaryFacts
  <2>2. PICK s : s = Retain(r, value)
    OBVIOUS
  <2>3. r \in References /\ \A v \in Values : r[v] = refs[v] + CountTo(d, k - 1, v)
    BY <1>2, <1>5 DEF RetainInv
  <2>4. s \in References /\ \A v \in Values : s[v] = r[v] + Bump(value = v)
    BY <2>2, <2>3, RetainIs
  <2>5. ASSUME NEW v \in Values PROVE s[v] = refs[v] + CountTo(d, k, v)
    <3>1. /\ CountTo(d, k, v) \in Nat /\ CountTo(d, k - 1, v) \in Nat
          /\ CountTo(d, k, v) = CountTo(d, k - 1, v) + Bump(value = v)
      BY <1>3, <2>1, CountToStep
    <3>2. PICK b \in Int : b = Bump(value = v)
      BY DEF Bump
    <3>3. refs[v] \in Int /\ s[v] = r[v] + b /\ r[v] = refs[v] + CountTo(d, k - 1, v)
      BY <2>3, <2>4, <3>2 DEF References
    <3>4. QED
      BY <3>1, <3>2, <3>3
  <2>6. RetainInv(env, k, s)
    BY <1>2, <2>4, <2>5 DEF RetainInv
  <2>7. QED
    BY <2>1, <2>2, <2>6 DEF RetainTurn
<1>6. RetainInv(env, n, Retains!Folded(env, refs, d))
  BY <1>3, <1>4, <1>5, Retains!FoldLeftInvariant
<1>7. RetainInv(env, n, RefsAfterSet(refs, <<>>, d))
  BY <1>6, RefsAfterSetIsFold, ReleaseNothing
<1>8. \A v : CountTo(d, n, v) = Count(d, v)
  BY <1>3, CountToEnds
<1>9. QED
  BY <1>2, <1>7, <1>8 DEF RetainInv

(* What an operation on d and refs returns: a dictionary for which the     *)
(* references are paid.                                                    *)
IsOutcome(r, d, refs) ==
  /\ r \in [dict : Dictionaries, refs : References, unchanged : BOOLEAN]
  /\ IsPaid(d, refs, r.dict, r.refs)

(* Whether all items of other are in d already.                            *)
IsWithin(other, d) == \A k \in 1..Len(other) : Has(d, other[k].id, other[k].value)

MergeTurn(env, s, item) ==
  LET put == Put(s.dict, s.refs, item.id, item.value)
  IN  [put EXCEPT !.unchanged = @ /\ s.unchanged]

MergeInv(env, k, s) ==
  /\ IsOutcome(s, env.dict, env.refs)
  /\ IsWithin(env.other, env.dict) => s.dict = env.dict /\ s.unchanged = TRUE

Merges == INSTANCE FoldTheorems WITH Op <- MergeTurn, Inv <- MergeInv

(* The loop of Merge, as the fold that Merges reasons on.                  *)
LEMMA MergeIsFold ==
  ASSUME NEW d, NEW refs, NEW other, NEW env
  PROVE  Merge(d, refs, other)
         = Merges!Folded(env, [dict |-> d, refs |-> refs, unchanged |-> TRUE], other)
  BY DEF Merge, Merges!Folded, FoldLeft, MapThenFoldSet, Max, Merges!Max, MergeTurn

(* Merge leaves a dictionary, and the references follow; merging what a    *)
(* dictionary has changes nothing.                                         *)
LEMMA MergeResult ==
  ASSUME NEW d \in Dictionaries, NEW refs \in References, NEW other \in Seq(Items)
  PROVE  /\ IsOutcome(Merge(d, refs, other), d, refs)
         /\ IsWithin(other, d) =>
              Merge(d, refs, other).dict = d /\ Merge(d, refs, other).unchanged = TRUE
<1>1. PICK env : env = [dict |-> d, refs |-> refs, other |-> other]
  OBVIOUS
<1>2. env.refs = refs /\ env.dict = d /\ env.other = other
  BY <1>1
<1>3. PICK n \in Nat : n = Len(other) /\ DOMAIN other = 1..n
  OBVIOUS
<1>4. PICK base : base = [dict |-> d, refs |-> refs, unchanged |-> TRUE]
  OBVIOUS
<1>5. MergeInv(env, 0, base)
  <2>1. base.dict = d /\ base.refs = refs /\ base.unchanged = TRUE
        /\ base \in [dict : Dictionaries, refs : References, unchanged : BOOLEAN]
    BY <1>4
  <2>2. IsPaid(d, refs, base.dict, base.refs)
    BY <2>1 DEF IsPaid
  <2>3. QED
    BY <1>2, <2>1, <2>2 DEF MergeInv, IsOutcome
<1>6. ASSUME NEW k \in 1..n, NEW s, MergeInv(env, k - 1, s)
      PROVE  MergeInv(env, k, MergeTurn(env, s, other[k]))
  <2>1. PICK item \in Items : item = other[k]
    BY <1>3, ElementOfSeq
  <2>2. item.id \in AttributeIDs /\ item.value \in Values
    BY <2>1 DEF Items
  <2>3. PICK sd \in Dictionaries, sr \in References, su \in BOOLEAN :
          s = [dict |-> sd, refs |-> sr, unchanged |-> su]
    BY <1>6 DEF MergeInv, IsOutcome
  <2>4. s.dict = sd /\ s.refs = sr /\ s.unchanged = su
    BY <2>3
  <2>5. IsPaid(d, refs, sd, sr) /\ (IsWithin(other, d) => sd = d /\ su = TRUE)
    BY <1>2, <1>6, <2>4 DEF MergeInv, IsOutcome
  <2>6. PICK e \in Dictionaries, after \in References, b \in BOOLEAN :
          /\ Put(sd, sr, item.id, item.value) = [dict |-> e, refs |-> after, unchanged |-> b]
          /\ IsPaid(sd, sr, e, after)
          /\ Has(sd, item.id, item.value) => e = sd /\ b = TRUE
    BY <2>2, PutResult
  <2>7. PICK u \in BOOLEAN : u = (b /\ su)
    OBVIOUS
  <2>8. PICK t : t = [dict |-> e, refs |-> after, unchanged |-> u]
    OBVIOUS
  <2>9. MergeTurn(env, s, item) = t
    BY <2>4, <2>6, <2>7, <2>8 DEF MergeTurn
  <2>10. t.dict = e /\ t.refs = after /\ t.unchanged = u
         /\ t \in [dict : Dictionaries, refs : References, unchanged : BOOLEAN]
    BY <2>8
  <2>11. IsPaid(d, refs, e, after)
    <3>1. ASSUME NEW v \in Values PROVE after[v] - Count(e, v) = refs[v] - Count(d, v)
      <4>1. after[v] - Count(e, v) = sr[v] - Count(sd, v)
        BY <2>6 DEF IsPaid
      <4>2. sr[v] - Count(sd, v) = refs[v] - Count(d, v)
        BY <2>5 DEF IsPaid
      <4>3. QED
        BY <4>1, <4>2
    <3>2. QED
      BY <3>1 DEF IsPaid
  <2>12. ASSUME IsWithin(other, d) PROVE e = d /\ u = TRUE
    <3>1. Has(d, item.id, item.value)
      BY <1>3, <2>1, <2>12 DEF IsWithin
    <3>2. sd = d /\ su = TRUE
      BY <2>5, <2>12
    <3>3. e = sd /\ b = TRUE
      BY <2>6, <3>1, <3>2
    <3>4. QED
      BY <2>7, <3>2, <3>3
  <2>13. MergeInv(env, k, t)
    BY <1>2, <2>10, <2>11, <2>12 DEF MergeInv, IsOutcome
  <2>14. QED
    BY <2>1, <2>9, <2>13
<1>7. MergeInv(env, n, Merges!Folded(env, base, other))
  BY <1>3, <1>5, <1>6, Merges!FoldLeftInvariant
<1>8. MergeInv(env, n, Merge(d, refs, other))
  BY <1>4, <1>7, MergeIsFold
<1>9. QED
  BY <1>2, <1>8 DEF MergeInv

-----------------------------------------------------------------------------
(* The items that pass a filter.                                           *)

FilterTurn(env, kept, item) ==
  IF CheckAttributeMatchesFilter(item, env.scope, env.group) THEN Append(kept, item) ELSE kept

FilterInv(env, k, kept) == kept \in Seq(Items) /\ IsWithin(kept, env.dict)

Filterings == INSTANCE FoldTheorems WITH Op <- FilterTurn, Inv <- FilterInv

(* The loop of Filter, as the fold that Filters reasons on.                *)
LEMMA FilterIsFold ==
  ASSUME NEW d, NEW scope, NEW group, NEW env, env.scope = scope, env.group = group
  PROVE  Filter(d, scope, group) = Filterings!Folded(env, <<>>, d)
  BY DEF Filter, Filterings!Folded, FoldLeft, MapThenFoldSet, Max, Filterings!Max, FilterTurn

(* What passes a filter is of the dictionary.                              *)
LEMMA FilterResult ==
  ASSUME NEW d \in Dictionaries, NEW scope, NEW group
  PROVE  Filter(d, scope, group) \in Seq(Items) /\ IsWithin(Filter(d, scope, group), d)
<1>1. PICK env : env = [dict |-> d, scope |-> scope, group |-> group]
  OBVIOUS
<1>2. env.dict = d /\ env.scope = scope /\ env.group = group
  BY <1>1
<1>3. PICK n \in Nat : n = Len(d) /\ DOMAIN d = 1..n
  BY DictionaryFacts
<1>4. FilterInv(env, 0, <<>>)
  BY EmptySeq DEF FilterInv, IsWithin
<1>5. ASSUME NEW k \in 1..n, NEW kept, FilterInv(env, k - 1, kept)
      PROVE  FilterInv(env, k, FilterTurn(env, kept, d[k]))
  <2>1. PICK item \in Items : item = d[k]
    BY <1>3, DictionaryFacts
  <2>2. kept \in Seq(Items) /\ IsWithin(kept, d)
    BY <1>2, <1>5 DEF FilterInv
  <2>3. Has(d, item.id, item.value)
    BY <1>3, <2>1 DEF Has
  <2>4. PICK longer : longer = Append(kept, item)
    OBVIOUS
  <2>5. longer \in Seq(Items) /\ Len(longer) = Len(kept) + 1
        /\ \A j \in 1..Len(longer) : longer[j] = item \/ (j \in 1..Len(kept) /\ longer[j] = kept[j])
    BY <2>2, <2>4
  <2>6. IsWithin(longer, d)
    BY <2>2, <2>3, <2>5 DEF IsWithin
  <2>7. FilterTurn(env, kept, item) \in {longer, kept}
    BY <2>4 DEF FilterTurn
  <2>8. QED
    BY <1>2, <2>1, <2>2, <2>5, <2>6, <2>7 DEF FilterInv
<1>6. FilterInv(env, n, Filterings!Folded(env, <<>>, d))
  BY <1>3, <1>4, <1>5, Filterings!FoldLeftInvariant
<1>7. FilterInv(env, n, Filter(d, scope, group))
  BY <1>2, <1>6, FilterIsFold
<1>8. QED
  BY <1>2, <1>7 DEF FilterInv

-----------------------------------------------------------------------------
(* The operations over a range.                                            *)

Operations ==
  [type : {"apply"}, attributes : Seq(Items)] \cup [type : {"remove"}, id : AttributeIDs]

(* Setting or removing leaves a dictionary, and the references follow.     *)
LEMMA OperateResult ==
  ASSUME NEW d \in Dictionaries, NEW refs \in References, NEW operation \in Operations
  PROVE  IsOutcome(Operate(d, refs, operation), d, refs)
<1>1. CASE operation.type = "apply"
  <2>1. operation.attributes \in Seq(Items)
    BY <1>1 DEF Operations
  <2>2. QED
    BY <1>1, <2>1, MergeResult DEF Operate
<1>2. CASE operation.type # "apply"
  <2>1. operation.id \in AttributeIDs
    BY <1>2 DEF Operations
  <2>2. PICK e \in Dictionaries, after \in References, b \in BOOLEAN :
          /\ RemoveItem(d, refs, operation.id) = [dict |-> e, refs |-> after, unchanged |-> b]
          /\ IsPaid(d, refs, e, after)
    BY <2>1, RemoveItemResult
  <2>3. PICK r : r = [dict |-> e, refs |-> after, unchanged |-> b]
    OBVIOUS
  <2>4. r.dict = e /\ r.refs = after
        /\ r \in [dict : Dictionaries, refs : References, unchanged : BOOLEAN]
    BY <2>3
  <2>5. IsOutcome(r, d, refs)
    BY <2>2, <2>4 DEF IsOutcome
  <2>6. Operate(d, refs, operation) = r
    BY <1>2, <2>2, <2>3 DEF Operate
  <2>7. QED
    BY <2>5, <2>6
<1>3. QED
  BY <1>1, <1>2

(* An operation with nothing new.                                          *)
LEMMA OperateOnOwn ==
  ASSUME NEW d \in Dictionaries, NEW refs \in References, NEW own \in Seq(Items),
         IsWithin(own, d)
  PROVE  Operate(d, refs, Apply(own)).unchanged = TRUE
<1>1. Apply(own).type = "apply" /\ Apply(own).attributes = own
  BY DEF Apply
<1>2. Operate(d, refs, Apply(own)) = Merge(d, refs, own)
  BY <1>1 DEF Operate
<1>3. QED
  BY <1>2, MergeResult

(* The operations that the text's calls ask for.                           *)
LEMMA OperationTypes ==
  /\ \A own \in Seq(Items) : Apply(own) \in Operations
  /\ \A id \in AttributeIDs : Removal(id) \in Operations
  BY DEF Operations, Apply, Removal

-----------------------------------------------------------------------------
(* How often the entries of a list hold a value.                           *)

Entry == [index : Int, attributes : Dictionaries]

(* The places among the first k entries where v is held.                   *)
HoldersTo(E, k, v) ==
  {p \in (1..k) \X AttributeIDs : Has(E[p[1]].attributes, p[2], v)}

TotalTo(E, k, v) == Cardinality(HoldersTo(E, k, v))

Total(E, v) == TotalTo(E, Len(E), v)

(* A value is held at finitely many places.                                *)
LEMMA TotalIsNat ==
  ASSUME NEW E, NEW k \in Nat, NEW v
  PROVE  IsFiniteSet(HoldersTo(E, k, v)) /\ TotalTo(E, k, v) \in Nat
<1>1. IsFiniteSet(1..k)
  BY FS_Interval
<1>2. IsFiniteSet((1..k) \X AttributeIDs)
  BY <1>1, AttributeIDsFinite, FS_Product
<1>3. HoldersTo(E, k, v) \in SUBSET ((1..k) \X AttributeIDs)
  BY DEF HoldersTo
<1>4. IsFiniteSet(HoldersTo(E, k, v))
  BY <1>2, <1>3, FS_Subset
<1>5. QED
  BY <1>4, FS_CardinalityType DEF TotalTo

(* No entries hold nothing.                                                *)
LEMMA TotalOfNone ==
  ASSUME NEW E, NEW v
  PROVE  TotalTo(E, 0, v) = 0
<1>1. HoldersTo(E, 0, v) = {}
  BY DEF HoldersTo
<1>2. QED
  BY <1>1, FS_EmptySet DEF TotalTo

(* An entry more adds what it holds.                                       *)
LEMMA TotalStep ==
  ASSUME NEW E, NEW k \in Nat, NEW v
  PROVE  TotalTo(E, k + 1, v) = TotalTo(E, k, v) + Count(E[k + 1].attributes, v)
<1> DEFINE Slice == {k + 1} \X Carried(E[k + 1].attributes, v)
<1>1. HoldersTo(E, k + 1, v) = HoldersTo(E, k, v) \cup Slice
  <2>1. 1..(k + 1) = (1..k) \cup {k + 1}
    OBVIOUS
  <2>2. QED
    BY <2>1 DEF HoldersTo, Carried
<1>2. HoldersTo(E, k, v) \cap Slice = {}
  <2>1. k + 1 \notin 1..k
    OBVIOUS
  <2>2. QED
    BY <2>1 DEF HoldersTo
<1>3. IsFiniteSet(Slice) /\ Cardinality(Slice) = Count(E[k + 1].attributes, v)
  <2>1. IsFiniteSet({k + 1}) /\ Cardinality({k + 1}) = 1
    BY FS_Singleton
  <2>2. IsFiniteSet(Carried(E[k + 1].attributes, v)) /\ Count(E[k + 1].attributes, v) \in Nat
    BY CountIsNat
  <2>3. IsFiniteSet(Slice) /\ Cardinality(Slice) = 1 * Cardinality(Carried(E[k + 1].attributes, v))
    BY <2>1, <2>2, FS_Product
  <2>4. QED
    BY <2>2, <2>3 DEF Count
<1>4. IsFiniteSet(HoldersTo(E, k, v)) /\ TotalTo(E, k, v) \in Nat
  BY TotalIsNat
<1> HIDE DEF Slice
<1>5. Cardinality(HoldersTo(E, k, v) \cup Slice) = TotalTo(E, k, v) + Cardinality(Slice) - 0
  BY <1>2, <1>3, <1>4, FS_Union, FS_EmptySet DEF TotalTo
<1>6. PICK c \in Nat : c = Count(E[k + 1].attributes, v)
  BY CountIsNat
<1>7. TotalTo(E, k + 1, v) = TotalTo(E, k, v) + Cardinality(Slice) - 0
  BY <1>1, <1>5 DEF TotalTo
<1>8. TotalTo(E, k, v) + c - 0 = TotalTo(E, k, v) + c
  BY <1>4
<1>9. QED
  BY <1>3, <1>6, <1>7, <1>8

(* Two lists whose entries agree in their attributes over a stretch grow   *)
(* alike over it.                                                          *)
AgreeOver(E, a, F, b, n) == \A k \in 1..n : E[a + k].attributes = F[b + k].attributes

GrowAlike(E, a, F, b, n, v) ==
  TotalTo(E, a + n, v) - TotalTo(E, a, v) = TotalTo(F, b + n, v) - TotalTo(F, b, v)

(* Where two lists agree their totals grow alike.                          *)
LEMMA TotalsGrowAlike ==
  ASSUME NEW E, NEW F, NEW a \in Nat, NEW b \in Nat, NEW n \in Nat, NEW v,
         AgreeOver(E, a, F, b, n)
  PROVE  GrowAlike(E, a, F, b, n, v)
<1> DEFINE T == {k \in 0..n : GrowAlike(E, a, F, b, k, v)}
<1>1. 0 \in T
  <2>1. a + 0 = a /\ b + 0 = b
    OBVIOUS
  <2>2. TotalTo(E, a, v) - TotalTo(E, a, v) = 0 /\ TotalTo(F, b, v) - TotalTo(F, b, v) = 0
    BY TotalIsNat
  <2>3. QED
    BY <2>1, <2>2 DEF GrowAlike
<1>2. ASSUME NEW k \in 0..(n - 1), k \in T PROVE k + 1 \in T
  <2>1. PICK s \in Nat, t \in Nat : s = a + k /\ t = b + k
    OBVIOUS
  <2>2. E[s + 1].attributes = F[t + 1].attributes
    <3>1. k + 1 \in 1..n /\ a + (k + 1) = s + 1 /\ b + (k + 1) = t + 1
      BY <2>1
    <3>2. QED
      BY <3>1 DEF AgreeOver
  <2>3. TotalTo(E, s + 1, v) = TotalTo(E, s, v) + Count(E[s + 1].attributes, v)
    BY TotalStep
  <2>4. TotalTo(F, t + 1, v) = TotalTo(F, t, v) + Count(E[s + 1].attributes, v)
    BY <2>2, TotalStep
  <2>5. /\ TotalTo(E, s, v) \in Nat /\ TotalTo(F, t, v) \in Nat
        /\ TotalTo(E, a, v) \in Nat /\ TotalTo(F, b, v) \in Nat
        /\ Count(E[s + 1].attributes, v) \in Nat
    BY TotalIsNat, CountIsNat
  <2>6. TotalTo(E, s, v) - TotalTo(E, a, v) = TotalTo(F, t, v) - TotalTo(F, b, v)
    BY <1>2, <2>1 DEF GrowAlike
  <2>7. TotalTo(E, s + 1, v) - TotalTo(E, a, v) = TotalTo(F, t + 1, v) - TotalTo(F, b, v)
    BY <2>3, <2>4, <2>5, <2>6
  <2>8. s + 1 = a + (k + 1) /\ t + 1 = b + (k + 1)
    BY <2>1
  <2>9. k + 1 \in 0..n /\ GrowAlike(E, a, F, b, k + 1, v)
    BY <2>7, <2>8 DEF GrowAlike
  <2>10. QED
    BY <2>9
<1>3. n \in T
  <2> HIDE DEF T
  <2>1. \A k \in 0..n : k \in T
    BY <1>1, <1>2, Numbers!UpToInduction
  <2>2. QED
    BY <2>1
<1>4. QED
  BY <1>3

(* Lists that agree from the start have the same total.                    *)
LEMMA TotalsAlike ==
  ASSUME NEW E, NEW F, NEW n \in Nat, NEW v,
         \A k \in 1..n : E[k].attributes = F[k].attributes
  PROVE  TotalTo(E, n, v) = TotalTo(F, n, v)
<1>1. AgreeOver(E, 0, F, 0, n)
  BY DEF AgreeOver
<1>2. TotalTo(E, 0 + n, v) - TotalTo(E, 0, v) = TotalTo(F, 0 + n, v) - TotalTo(F, 0, v)
  <2>1. GrowAlike(E, 0, F, 0, n, v)
    BY <1>1, TotalsGrowAlike
  <2>2. QED
    BY <2>1 DEF GrowAlike
<1>3. 0 + n = n /\ TotalTo(E, n, v) \in Nat /\ TotalTo(F, n, v) \in Nat
  BY TotalIsNat
<1>4. QED
  BY <1>2, <1>3, TotalOfNone

(* What a replacement does to the total.                                   *)
LEMMA TotalOfReplaced ==
  ASSUME NEW E \in Seq(Entry), NEW F, NEW new \in Seq(Entry), NEW a \in Nat, NEW b \in Nat, NEW v,
         a < b, b <= Len(E) + 1, IsReplaced(F, E, a, new, b)
  PROVE  /\ Total(F, v) \in Nat /\ Total(E, v) \in Nat /\ Total(new, v) \in Nat
         /\ TotalTo(E, b - 1, v) \in Nat /\ TotalTo(E, a, v) \in Nat
         /\ Total(F, v) = Total(E, v) - (TotalTo(E, b - 1, v) - TotalTo(E, a, v)) + Total(new, v)
<1>1. PICK n \in Nat : n = Len(E)
  OBVIOUS
<1>2. PICK c \in Nat : c = Len(new)
  OBVIOUS
<1>3. PICK m \in Nat : m = n - b + 1
  BY <1>1
<1>4. PICK q \in Nat : q = b - 1
  OBVIOUS
<1>5. Len(F) = a + c + m /\ q + m = n
  BY <1>1, <1>2, <1>3, <1>4 DEF IsReplaced
<1>6. TotalTo(F, a, v) = TotalTo(E, a, v)
  <2>1. \A k \in 1..a : F[k].attributes = E[k].attributes
    BY DEF IsReplaced
  <2>2. QED
    BY <2>1, TotalsAlike
<1>7. TotalTo(F, a + c, v) - TotalTo(F, a, v) = TotalTo(new, 0 + c, v) - TotalTo(new, 0, v)
  <2>1. AgreeOver(F, a, new, 0, c)
    BY <1>2 DEF IsReplaced, AgreeOver
  <2>2. GrowAlike(F, a, new, 0, c, v)
    BY <2>1, TotalsGrowAlike
  <2>3. QED
    BY <2>2 DEF GrowAlike
<1>20. PICK p \in Nat : p = a + c
  OBVIOUS
<1>8. TotalTo(F, p + m, v) - TotalTo(F, p, v) = TotalTo(E, q + m, v) - TotalTo(E, q, v)
  <2>1. ASSUME NEW k \in 1..m PROVE F[p + k].attributes = E[q + k].attributes
    <3>1. PICK j \in b..n : j = q + k
      BY <1>3, <1>4
    <3>2. F[j - b + 1 + a + c] = E[j]
      BY <1>1, <1>2 DEF IsReplaced
    <3>3. j - b + 1 + a + c = p + k
      BY <1>4, <1>20, <3>1
    <3>4. QED
      BY <3>1, <3>2, <3>3
  <2>2. GrowAlike(F, p, E, q, m, v)
    <3>1. AgreeOver(F, p, E, q, m)
      BY <2>1 DEF AgreeOver
    <3>2. QED
      BY <3>1, TotalsGrowAlike
  <2>3. QED
    BY <2>2 DEF GrowAlike
<1>9. /\ TotalTo(F, a, v) \in Nat /\ TotalTo(F, p, v) \in Nat /\ TotalTo(F, p + m, v) \in Nat
      /\ TotalTo(E, a, v) \in Nat /\ TotalTo(E, q, v) \in Nat /\ TotalTo(E, n, v) \in Nat
      /\ TotalTo(new, c, v) \in Nat /\ TotalTo(new, 0, v) = 0 /\ 0 + c = c
  BY TotalIsNat, TotalOfNone
<1>10. TotalTo(F, p + m, v) = TotalTo(E, n, v) - (TotalTo(E, q, v) - TotalTo(E, a, v)) + TotalTo(new, c, v)
  <2>1. TotalTo(F, p, v) - TotalTo(F, a, v) = TotalTo(new, c, v) - 0
    BY <1>7, <1>9, <1>20
  <2>2. TotalTo(F, p + m, v) - TotalTo(F, p, v) = TotalTo(E, n, v) - TotalTo(E, q, v)
    BY <1>5, <1>8
  <2>3. PICK f1 \in Nat, f2 \in Nat, f3 \in Nat : f1 = TotalTo(F, a, v) /\ f2 = TotalTo(F, p, v)
                                               /\ f3 = TotalTo(F, p + m, v)
    BY <1>9
  <2>4. PICK e1 \in Nat, e2 \in Nat, e3 \in Nat : e1 = TotalTo(E, a, v) /\ e2 = TotalTo(E, q, v)
                                               /\ e3 = TotalTo(E, n, v)
    BY <1>9
  <2>5. PICK g \in Nat : g = TotalTo(new, c, v)
    BY <1>9
  <2>6. f1 = e1 /\ f2 - f1 = g - 0 /\ f3 - f2 = e3 - e2
    BY <1>6, <2>1, <2>2, <2>3, <2>4, <2>5
  <2>7. f3 = e3 - (e2 - e1) + g
    BY <2>6
  <2>8. QED
    BY <2>3, <2>4, <2>5, <2>7
<1>11. Len(F) = p + m
  BY <1>5, <1>20
<1>12. QED
  BY <1>1, <1>2, <1>4, <1>9, <1>10, <1>11 DEF Total

(* The total of one entry.                                                 *)
LEMMA TotalOfOne ==
  ASSUME NEW x, NEW v
  PROVE  Total(<<x>>, v) = Count(x.attributes, v)
<1>1. Len(<<x>>) = 1 /\ <<x>>[0 + 1] = x
  OBVIOUS
<1>2. TotalTo(<<x>>, 0 + 1, v) = TotalTo(<<x>>, 0, v) + Count(x.attributes, v)
  BY <1>1, TotalStep
<1>3. Count(x.attributes, v) \in Nat
  BY CountIsNat
<1>4. QED
  BY <1>1, <1>2, <1>3, TotalOfNone DEF Total

(* The total of two entries.                                               *)
LEMMA TotalOfTwo ==
  ASSUME NEW x, NEW y, NEW v
  PROVE  Total(<<x, y>>, v) = Count(x.attributes, v) + Count(y.attributes, v)
<1>1. Len(<<x, y>>) = 2 /\ <<x, y>>[0 + 1] = x /\ <<x, y>>[1 + 1] = y /\ 0 + 1 = 1 /\ 1 + 1 = 2
  OBVIOUS
<1>2. TotalTo(<<x, y>>, 0 + 1, v) = TotalTo(<<x, y>>, 0, v) + Count(x.attributes, v)
  BY <1>1, TotalStep
<1>3. TotalTo(<<x, y>>, 1 + 1, v) = TotalTo(<<x, y>>, 1, v) + Count(y.attributes, v)
  BY <1>1, TotalStep
<1>4. Count(x.attributes, v) \in Nat
  BY CountIsNat
<1>5. QED
  BY <1>1, <1>2, <1>3, <1>4, TotalOfNone DEF Total

(* The total of no entry.                                                  *)
LEMMA TotalOfEmpty ==
  ASSUME NEW v
  PROVE  Total(<<>>, v) = 0
<1>1. Len(<<>>) = 0
  OBVIOUS
<1>2. QED
  BY <1>1, TotalOfNone DEF Total

(* The changes of a list of entries that occur: an entry is inserted, or   *)
(* gets other attributes.                                                  *)
LEMMA TotalOfInsertion ==
  ASSUME NEW E \in Seq(Entry), NEW F, NEW x \in Entry, NEW p \in 1..(Len(E) + 1), NEW v,
         IsInsertion(F, E, p, x)
  PROVE  Total(F, v) = Total(E, v) + Count(x.attributes, v)
<1>1. PICK n \in Nat : n = Len(E)
  OBVIOUS
<1>2. PICK a \in Nat : a = p - 1
  OBVIOUS
<1>3. p \in Nat /\ p = a + 1
  BY <1>2
<1>4. PICK m \in Nat : m = n - a
  BY <1>1, <1>2
<1>5. Len(F) = p + m /\ n = a + m
  BY <1>1, <1>2, <1>4 DEF IsInsertion
<1>6. TotalTo(F, a, v) = TotalTo(E, a, v)
  <2>1. \A k \in 1..a : F[k].attributes = E[k].attributes
    BY <1>2 DEF IsInsertion
  <2>2. QED
    BY <2>1, TotalsAlike
<1>7. TotalTo(F, p, v) = TotalTo(F, a, v) + Count(x.attributes, v)
  <2>1. F[a + 1] = x
    BY <1>3 DEF IsInsertion
  <2>2. QED
    BY <1>3, <2>1, TotalStep
<1>8. TotalTo(F, p + m, v) - TotalTo(F, p, v) = TotalTo(E, a + m, v) - TotalTo(E, a, v)
  <2>1. ASSUME NEW k \in 1..m PROVE F[p + k].attributes = E[a + k].attributes
    <3>1. PICK j \in p..Len(E) : j = a + k
      BY <1>1, <1>2, <1>4
    <3>2. F[j + 1] = E[j]
      BY DEF IsInsertion
    <3>3. j + 1 = p + k
      BY <1>2, <3>1
    <3>4. QED
      BY <3>1, <3>2, <3>3
  <2>2. AgreeOver(F, p, E, a, m)
    BY <2>1 DEF AgreeOver
  <2>3. GrowAlike(F, p, E, a, m, v)
    BY <1>3, <2>2, TotalsGrowAlike
  <2>4. QED
    BY <2>3 DEF GrowAlike
<1>9. /\ TotalTo(F, a, v) \in Nat /\ TotalTo(F, p, v) \in Nat /\ TotalTo(F, p + m, v) \in Nat
      /\ TotalTo(E, a, v) \in Nat /\ TotalTo(E, a + m, v) \in Nat
      /\ Count(x.attributes, v) \in Nat
  BY <1>3, TotalIsNat, CountIsNat
<1>10. TotalTo(F, p + m, v) = TotalTo(E, a + m, v) + Count(x.attributes, v)
  <2>1. PICK f1 \in Nat, f2 \in Nat, f3 \in Nat : f1 = TotalTo(F, a, v) /\ f2 = TotalTo(F, p, v)
                                               /\ f3 = TotalTo(F, p + m, v)
    BY <1>9
  <2>2. PICK e1 \in Nat, e2 \in Nat, c \in Nat : e1 = TotalTo(E, a, v) /\ e2 = TotalTo(E, a + m, v)
                                              /\ c = Count(x.attributes, v)
    BY <1>9
  <2>3. f1 = e1 /\ f2 = f1 + c /\ f3 - f2 = e2 - e1
    BY <1>6, <1>7, <1>8, <2>1, <2>2
  <2>4. f3 = e2 + c
    BY <2>3
  <2>5. QED
    BY <2>1, <2>2, <2>4
<1>11. QED
  BY <1>1, <1>5, <1>10 DEF Total

(* The total after one entry got other attributes.                         *)
LEMMA TotalOfChange ==
  ASSUME NEW E \in Seq(Entry), NEW F, NEW e \in 1..Len(E), NEW v, Len(F) = Len(E),
         \A k \in 1..Len(E) : k # e => F[k].attributes = E[k].attributes
  PROVE  Total(F, v) - Count(F[e].attributes, v) = Total(E, v) - Count(E[e].attributes, v)
<1>1. PICK n \in Nat : n = Len(E)
  OBVIOUS
<1>2. PICK a \in Nat : a = e - 1
  OBVIOUS
<1>3. PICK m \in Nat : m = n - e
  BY <1>1
<1>4. e = a + 1 /\ n = e + m /\ e \in Nat
  BY <1>1, <1>2, <1>3
<1>5. TotalTo(F, a, v) = TotalTo(E, a, v)
  <2>1. \A k \in 1..a : F[k].attributes = E[k].attributes
    BY <1>1, <1>4
  <2>2. QED
    BY <2>1, TotalsAlike
<1>6. TotalTo(F, e, v) = TotalTo(F, a, v) + Count(F[e].attributes, v)
  BY <1>4, TotalStep
<1>7. TotalTo(E, e, v) = TotalTo(E, a, v) + Count(E[e].attributes, v)
  BY <1>4, TotalStep
<1>8. TotalTo(F, e + m, v) - TotalTo(F, e, v) = TotalTo(E, e + m, v) - TotalTo(E, e, v)
  <2>1. ASSUME NEW k \in 1..m PROVE F[e + k].attributes = E[e + k].attributes
    <3>1. e + k \in 1..Len(E) /\ e + k # e
      BY <1>1, <1>4
    <3>2. QED
      BY <3>1
  <2>2. AgreeOver(F, e, E, e, m)
    BY <2>1 DEF AgreeOver
  <2>3. GrowAlike(F, e, E, e, m, v)
    BY <1>4, <2>2, TotalsGrowAlike
  <2>4. QED
    BY <2>3 DEF GrowAlike
<1>9. /\ TotalTo(F, a, v) \in Nat /\ TotalTo(F, e, v) \in Nat /\ TotalTo(F, e + m, v) \in Nat
      /\ TotalTo(E, a, v) \in Nat /\ TotalTo(E, e, v) \in Nat /\ TotalTo(E, e + m, v) \in Nat
      /\ Count(E[e].attributes, v) \in Nat /\ Count(F[e].attributes, v) \in Nat
  BY <1>4, TotalIsNat, CountIsNat
<1>10. TotalTo(F, e + m, v) - Count(F[e].attributes, v) = TotalTo(E, e + m, v) - Count(E[e].attributes, v)
  <2>1. PICK f1 \in Nat, f2 \in Nat, f3 \in Nat : f1 = TotalTo(F, a, v) /\ f2 = TotalTo(F, e, v)
                                               /\ f3 = TotalTo(F, e + m, v)
    BY <1>9
  <2>2. PICK e1 \in Nat, e2 \in Nat, e3 \in Nat : e1 = TotalTo(E, a, v) /\ e2 = TotalTo(E, e, v)
                                               /\ e3 = TotalTo(E, e + m, v)
    BY <1>9
  <2>3. PICK c \in Nat, d \in Nat : c = Count(F[e].attributes, v) /\ d = Count(E[e].attributes, v)
    BY <1>9
  <2>4. f1 = e1 /\ f2 = f1 + c /\ e2 = e1 + d /\ f3 - f2 = e3 - e2
    BY <1>4, <1>5, <1>6, <1>7, <1>8, <2>1, <2>2, <2>3
  <2>5. f3 - c = e3 - d
    BY <2>4
  <2>6. QED
    BY <2>1, <2>2, <2>3, <2>5
<1>11. QED
  BY <1>1, <1>4, <1>10 DEF Total

-----------------------------------------------------------------------------
(* The accounts of a manager.                                              *)

Managers ==
  [entries : Seq(Entry), length : Nat, cached : Nat, created : Nat, refs : References]

(* The dictionaries that are neither in the cache nor in an entry.         *)
Spare(m) == m.created - m.cached - Len(m.entries)

(* The references to v that no entry accounts for.                         *)
Owes(m, v) == m.refs[v] - Total(m.entries, v)

(* n keeps what m has; n keeps it and has dict in hand.                    *)
Balances(n, m) ==
  /\ n \in Managers /\ n.length = m.length
  /\ Spare(n) = Spare(m)
  /\ \A v \in Values : Owes(n, v) = Owes(m, v)

Lends(n, m, dict) ==
  /\ n \in Managers /\ n.length = m.length /\ n.entries = m.entries
  /\ Spare(n) = Spare(m) + 1
  /\ \A v \in Values : Owes(n, v) = Owes(m, v) + Count(dict, v)

(* What is known of a manager and of its entries.                          *)
LEMMA ManagerFacts ==
  ASSUME NEW m \in Managers
  PROVE  /\ m.entries \in Seq(Entry) /\ Len(m.entries) \in Nat
         /\ m.length \in Nat /\ m.cached \in Nat /\ m.created \in Nat
         /\ m.refs \in References
         /\ DOMAIN m.entries = 1..Len(m.entries)
         /\ \A e \in 1..Len(m.entries) : /\ m.entries[e] \in Entry
                                         /\ m.entries[e].index \in Int
                                         /\ m.entries[e].attributes \in Dictionaries
<1>1. /\ m.entries \in Seq(Entry) /\ m.length \in Nat /\ m.cached \in Nat /\ m.created \in Nat
      /\ m.refs \in References
  BY DEF Managers
<1>2. Len(m.entries) \in Nat /\ DOMAIN m.entries = 1..Len(m.entries)
  BY <1>1
<1>3. \A e \in 1..Len(m.entries) : m.entries[e] \in Entry
  BY <1>1, ElementOfSeq
<1>4. QED
  BY <1>1, <1>2, <1>3 DEF Entry

(* The accounts are numbers.                                               *)
LEMMA AccountsAreNumbers ==
  ASSUME NEW m \in Managers
  PROVE  /\ Spare(m) \in Int
         /\ \A v \in Values : Owes(m, v) \in Int /\ Total(m.entries, v) \in Nat /\ m.refs[v] \in Int
<1>1. Spare(m) \in Int
  BY ManagerFacts DEF Spare
<1>2. ASSUME NEW v \in Values
      PROVE  Owes(m, v) \in Int /\ Total(m.entries, v) \in Nat /\ m.refs[v] \in Int
  <2>1. Total(m.entries, v) \in Nat
    BY ManagerFacts, TotalIsNat DEF Total
  <2>2. m.refs[v] \in Int
    BY ManagerFacts DEF References
  <2>3. QED
    BY <2>1, <2>2 DEF Owes
<1>3. QED
  BY <1>1, <1>2

(* A manager keeps what it has.                                            *)
LEMMA BalancesItself ==
  ASSUME NEW m \in Managers
  PROVE  Balances(m, m)
  BY DEF Balances

(* What two steps keep, both keep together.                                *)
LEMMA BalancesOnward ==
  ASSUME NEW m, NEW n, NEW p, Balances(n, m), Balances(p, n)
  PROVE  Balances(p, m)
  BY DEF Balances

(* A dictionary is created or comes out of the cache.                      *)
LEMMA AcquireIs ==
  ASSUME NEW m \in Managers
  PROVE  /\ Acquire(m).entries = m.entries /\ Acquire(m).length = m.length
         /\ Acquire(m).refs = m.refs /\ Acquire(m) \in Managers
         /\ Acquire(m).created - Acquire(m).cached = m.created - m.cached + 1
<1>1. CASE m.cached = 0
  <2>1. PICK n : n = [m EXCEPT !.created = @ + 1]
    OBVIOUS
  <2>2. n = Acquire(m)
    BY <1>1, <2>1 DEF Acquire
  <2>3. /\ n.entries = m.entries /\ n.length = m.length /\ n.refs = m.refs /\ n \in Managers
        /\ n.created = m.created + 1 /\ n.cached = m.cached
    BY <2>1 DEF Managers
  <2>4. n.created - n.cached = m.created - m.cached + 1
    BY <2>3, ManagerFacts
  <2>5. QED
    BY <2>2, <2>3, <2>4
<1>2. CASE m.cached # 0
  <2>1. PICK n : n = [m EXCEPT !.cached = @ - 1]
    OBVIOUS
  <2>2. n = Acquire(m)
    BY <1>2, <2>1 DEF Acquire
  <2>3. m.cached - 1 \in Nat
    BY <1>2, ManagerFacts
  <2>4. /\ n.entries = m.entries /\ n.length = m.length /\ n.refs = m.refs /\ n \in Managers
        /\ n.created = m.created /\ n.cached = m.cached - 1
    BY <2>1, <2>3 DEF Managers
  <2>5. n.created - n.cached = m.created - m.cached + 1
    BY <2>4, ManagerFacts
  <2>6. QED
    BY <2>2, <2>4, <2>5
<1>3. QED
  BY <1>1, <1>2

(* A copy of a dictionary is lent.                                         *)
LEMMA AcquireCopyIs ==
  ASSUME NEW m \in Managers, NEW dict \in Dictionaries
  PROVE  Lends(AcquireCopy(m, dict), m, dict)
<1>1. PICK a : a = Acquire(m)
  OBVIOUS
<1>2. /\ a.entries = m.entries /\ a.length = m.length /\ a.refs = m.refs /\ a \in Managers
      /\ a.created - a.cached = m.created - m.cached + 1
  BY <1>1, AcquireIs
<1>3. PICK after \in References : after = RefsAfterSet(a.refs, <<>>, dict)
  BY <1>2, ManagerFacts, RefsAfterSetIs
<1>4. \A v \in Values : after[v] = m.refs[v] + Count(dict, v)
  BY <1>2, <1>3, ManagerFacts, RefsAfterSetIs
<1>5. PICK n : n = [a EXCEPT !.refs = after]
  OBVIOUS
<1>6. n = AcquireCopy(m, dict)
  BY <1>1, <1>3, <1>5 DEF AcquireCopy
<1>7. /\ n.entries = m.entries /\ n.length = m.length /\ n.refs = after /\ n \in Managers
      /\ n.created = a.created /\ n.cached = a.cached
  BY <1>2, <1>5 DEF Managers
<1>8. Spare(n) = Spare(m) + 1
  <2>1. n.created - n.cached = m.created - m.cached + 1 /\ Len(n.entries) = Len(m.entries)
    BY <1>2, <1>7
  <2>2. /\ n.created \in Nat /\ n.cached \in Nat /\ m.created \in Nat /\ m.cached \in Nat
        /\ Len(m.entries) \in Nat
    BY <1>7, ManagerFacts
  <2>3. QED
    BY <2>1, <2>2 DEF Spare
<1>9. ASSUME NEW v \in Values PROVE Owes(n, v) = Owes(m, v) + Count(dict, v)
  <2>1. PICK t \in Int : t = Total(m.entries, v) /\ t = Total(n.entries, v)
    BY <1>7, AccountsAreNumbers
  <2>2. m.refs[v] \in Int /\ Count(dict, v) \in Int
    BY AccountsAreNumbers, CountIsNat
  <2>3. n.refs[v] = m.refs[v] + Count(dict, v)
    BY <1>4, <1>7
  <2>4. n.refs[v] - t = m.refs[v] - t + Count(dict, v)
    BY <2>1, <2>2, <2>3
  <2>5. QED
    BY <2>1, <2>4 DEF Owes
<1>10. QED
  BY <1>6, <1>7, <1>8, <1>9 DEF Lends

(* Storing a dictionary, from the manager's point of view.                 *)
LEMMA StoreIs ==
  ASSUME NEW m \in Managers, NEW dict \in Dictionaries
  PROVE  /\ Store(m, dict) \in Managers /\ Store(m, dict).entries = m.entries
         /\ Store(m, dict).length = m.length
         /\ Spare(Store(m, dict)) = Spare(m) - 1
         /\ \A v \in Values : Owes(Store(m, dict), v) = Owes(m, v) - Count(dict, v)
<1>1. PICK after \in References : after = ReleaseAll(m.refs, dict)
  BY ManagerFacts, ReleaseAllIs
<1>2. \A v \in Values : after[v] = m.refs[v] - Count(dict, v)
  BY <1>1, ManagerFacts, ReleaseAllIs
<1>3. PICK c \in Nat : c = m.cached + 1
  BY ManagerFacts
<1>9. PICK n : n = [m EXCEPT !.cached = c, !.refs = after]
  OBVIOUS
<1>4. n = Store(m, dict)
  BY <1>1, <1>3, <1>9 DEF Store
<1>5. /\ n.entries = m.entries /\ n.length = m.length /\ n.refs = after /\ n \in Managers
      /\ n.created = m.created /\ n.cached = m.cached + 1
  BY <1>3, <1>9 DEF Managers
<1>6. Spare(n) = Spare(m) - 1
  <2>1. PICK k \in Nat, q \in Nat, l \in Nat : k = m.created /\ q = m.cached /\ l = Len(m.entries)
    BY ManagerFacts
  <2>2. n.created = k /\ n.cached = q + 1 /\ Len(n.entries) = l
    BY <1>5, <2>1
  <2>3. k - (q + 1) - l = k - q - l - 1
    OBVIOUS
  <2>4. QED
    BY <2>1, <2>2, <2>3 DEF Spare
<1>7. ASSUME NEW v \in Values PROVE Owes(n, v) = Owes(m, v) - Count(dict, v)
  <2>1. PICK t \in Int : t = Total(m.entries, v) /\ t = Total(n.entries, v)
    BY <1>5, AccountsAreNumbers
  <2>2. m.refs[v] \in Int /\ Count(dict, v) \in Int
    BY AccountsAreNumbers, CountIsNat
  <2>3. n.refs[v] = m.refs[v] - Count(dict, v)
    BY <1>2, <1>5
  <2>4. n.refs[v] - t = m.refs[v] - t - Count(dict, v)
    BY <2>1, <2>2, <2>3
  <2>5. QED
    BY <2>1, <2>4 DEF Owes
<1>8. QED
  BY <1>4, <1>5, <1>6, <1>7

(* What was lent is given back.                                            *)
LEMMA StoreGivesBack ==
  ASSUME NEW m \in Managers, NEW n, NEW dict \in Dictionaries, Lends(n, m, dict)
  PROVE  Balances(Store(n, dict), m) /\ Store(n, dict).entries = m.entries
<1>1. n \in Managers /\ n.length = m.length /\ n.entries = m.entries /\ Spare(n) = Spare(m) + 1
  BY DEF Lends
<1>2. PICK s : s = Store(n, dict)
  OBVIOUS
<1>3. /\ s \in Managers /\ s.entries = n.entries /\ s.length = n.length /\ Spare(s) = Spare(n) - 1
      /\ \A v \in Values : Owes(s, v) = Owes(n, v) - Count(dict, v)
  BY <1>1, <1>2, StoreIs
<1>4. Spare(s) = Spare(m)
  BY <1>1, <1>3, AccountsAreNumbers
<1>5. ASSUME NEW v \in Values PROVE Owes(s, v) = Owes(m, v)
  <2>1. Owes(m, v) \in Int /\ Count(dict, v) \in Int
    BY AccountsAreNumbers, CountIsNat
  <2>2. Owes(s, v) = Owes(n, v) - Count(dict, v) /\ Owes(n, v) = Owes(m, v) + Count(dict, v)
    BY <1>3 DEF Lends
  <2>3. QED
    BY <2>1, <2>2
<1>6. QED
  BY <1>1, <1>2, <1>3, <1>4, <1>5 DEF Balances

(* What was lent becomes the dictionary of an entry.                       *)
LEMMA EntryTakes ==
  ASSUME NEW m \in Managers, NEW n, NEW dict \in Dictionaries, Lends(n, m, dict),
         NEW E \in Seq(Entry), Len(E) = Len(m.entries) + 1,
         \A v \in Values : Total(E, v) = Total(m.entries, v) + Count(dict, v)
  PROVE  Balances([n EXCEPT !.entries = E], m) /\ [n EXCEPT !.entries = E].entries = E
<1>1. n \in Managers /\ n.length = m.length /\ n.entries = m.entries /\ Spare(n) = Spare(m) + 1
  BY DEF Lends
<1>2. PICK s : s = [n EXCEPT !.entries = E]
  OBVIOUS
<1>3. /\ s \in Managers /\ s.entries = E /\ s.length = n.length /\ s.refs = n.refs
      /\ s.cached = n.cached /\ s.created = n.created
  BY <1>1, <1>2 DEF Managers
<1>4. Spare(s) = Spare(m)
  <2>1. n.created \in Nat /\ n.cached \in Nat /\ Len(n.entries) \in Nat /\ Spare(m) \in Int
    BY <1>1, ManagerFacts, AccountsAreNumbers
  <2>2. n.created - n.cached - Len(n.entries) = Spare(m) + 1
    BY <1>1 DEF Spare
  <2>3. s.created = n.created /\ s.cached = n.cached /\ Len(s.entries) = Len(n.entries) + 1
    BY <1>1, <1>3
  <2>4. PICK l \in Nat : l = Len(n.entries)
    BY <2>1
  <2>5. n.created - n.cached - (l + 1) = Spare(m)
    BY <2>1, <2>2, <2>4, SMTT(30)
  <2>6. s.created - s.cached - Len(s.entries) = Spare(m)
    BY <2>3, <2>4, <2>5
  <2>7. QED
    BY <2>6 DEF Spare
<1>5. ASSUME NEW v \in Values PROVE Owes(s, v) = Owes(m, v)
  <2>1. PICK c \in Int, t \in Int, r \in Int, o \in Int :
          c = Count(dict, v) /\ t = Total(m.entries, v) /\ r = n.refs[v] /\ o = Owes(m, v)
    BY <1>1, AccountsAreNumbers, CountIsNat
  <2>2. Total(E, v) = t + c /\ Owes(n, v) = o + c /\ Owes(n, v) = r - t /\ Owes(s, v) = r - Total(E, v)
    BY <1>1, <1>3, <2>1 DEF Lends, Owes
  <2>3. r - (t + c) = o
    BY <2>2
  <2>4. QED
    BY <2>1, <2>2, <2>3
<1>6. QED
  BY <1>1, <1>2, <1>3, <1>4, <1>5 DEF Balances

-----------------------------------------------------------------------------
(* How the entries cut a text that is not empty.                           *)

Cuts(m) ==
  /\ 1 <= Len(m.entries) /\ m.entries[1].index = 0
  /\ \A e \in 1..Len(m.entries) : m.entries[e].index < EntryEnd(m, e)

SameCuts(n, m) ==
  /\ n.length = m.length /\ Len(n.entries) = Len(m.entries)
  /\ \A e \in 1..Len(m.entries) : n.entries[e].index = m.entries[e].index

(* n is m with a cut more, after entry e.                                  *)
CutsMore(n, m, e, at) ==
  /\ n.length = m.length /\ Len(n.entries) = Len(m.entries) + 1
  /\ \A k \in 1..e : n.entries[k].index = m.entries[k].index
  /\ n.entries[e + 1].index = at
  /\ \A k \in (e + 1)..Len(m.entries) : n.entries[k + 1].index = m.entries[k].index

(* Entries that start where others do cut the text as they do.             *)
LEMMA SameCutsAreCuts ==
  ASSUME NEW m \in Managers, NEW n, SameCuts(n, m)
  PROVE  /\ \A e \in 1..Len(m.entries) : EntryEnd(n, e) = EntryEnd(m, e)
         /\ Cuts(m) => Cuts(n)
<1>1. PICK l \in Nat : l = Len(m.entries)
  BY ManagerFacts
<1>2. n.length = m.length /\ Len(n.entries) = l /\ \A e \in 1..l : n.entries[e].index = m.entries[e].index
  BY <1>1 DEF SameCuts
<1>3. ASSUME NEW e \in 1..l PROVE EntryEnd(n, e) = EntryEnd(m, e)
  <2>1. CASE e < l
    <3>1. e + 1 \in 1..l
      BY <2>1
    <3>2. QED
      BY <1>1, <1>2, <2>1, <3>1 DEF EntryEnd
  <2>2. CASE ~(e < l)
    BY <1>1, <1>2, <2>2 DEF EntryEnd
  <2>3. QED
    BY <2>1, <2>2
<1>4. ASSUME Cuts(m) PROVE Cuts(n)
  <2>1. 1 <= l /\ m.entries[1].index = 0 /\ \A e \in 1..l : m.entries[e].index < EntryEnd(m, e)
    BY <1>1, <1>4 DEF Cuts
  <2>2. n.entries[1].index = 0
    BY <1>2, <2>1
  <2>3. \A e \in 1..l : n.entries[e].index < EntryEnd(n, e)
    BY <1>2, <1>3, <2>1
  <2>4. QED
    BY <1>2, <2>1, <2>2, <2>3 DEF Cuts
<1>5. QED
  BY <1>1, <1>3, <1>4

(* A cut more inside an entry leaves the text cut.                         *)
LEMMA CutsMoreAreCuts ==
  ASSUME NEW m \in Managers, NEW n, NEW e \in 1..Len(m.entries), NEW at \in Int,
         m.entries[e].index < at, at < EntryEnd(m, e), CutsMore(n, m, e, at), Cuts(m)
  PROVE  Cuts(n)
<1>1. PICK l \in Nat : l = Len(m.entries)
  BY ManagerFacts
<1>2. e \in 1..l
  BY <1>1
<1>3. /\ n.length = m.length /\ Len(n.entries) = l + 1
      /\ \A k \in 1..e : n.entries[k].index = m.entries[k].index
      /\ n.entries[e + 1].index = at
      /\ \A k \in (e + 1)..l : n.entries[k + 1].index = m.entries[k].index
  BY <1>1 DEF CutsMore
<1>4. 1 <= l /\ m.entries[1].index = 0 /\ \A k \in 1..l : m.entries[k].index < EntryEnd(m, k)
  BY <1>1 DEF Cuts
<1>5. n.entries[1].index = 0
  <2>1. 1 \in 1..e
    BY <1>2
  <2>2. QED
    BY <1>3, <1>4, <2>1
<1>6. ASSUME NEW k \in 1..(l + 1) PROVE n.entries[k].index < EntryEnd(n, k)
  <2>1. CASE k < e
    <3>1. k \in 1..l /\ k < l /\ k < l + 1 /\ k \in 1..e /\ k + 1 \in 1..e
      BY <1>2, <2>1
    <3>2. EntryEnd(n, k) = n.entries[k + 1].index /\ EntryEnd(m, k) = m.entries[k + 1].index
      BY <1>1, <1>3, <3>1 DEF EntryEnd
    <3>3. n.entries[k].index = m.entries[k].index /\ n.entries[k + 1].index = m.entries[k + 1].index
      BY <1>3, <3>1
    <3>4. QED
      BY <1>4, <3>1, <3>2, <3>3
  <2>2. CASE k = e
    <3>1. EntryEnd(n, k) = at
      BY <1>2, <1>3, <2>2 DEF EntryEnd
    <3>2. n.entries[k].index = m.entries[k].index
      BY <1>2, <1>3, <2>2
    <3>3. QED
      BY <2>2, <3>1, <3>2
  <2>3. CASE k = e + 1
    <3>1. EntryEnd(n, k) = EntryEnd(m, e)
      <4>1. CASE e < l
        <5>1. k < l + 1 /\ k \in (e + 1)..l
          BY <1>2, <2>3, <4>1
        <5>2. n.entries[k + 1].index = m.entries[e + 1].index
          BY <1>3, <2>3, <5>1
        <5>3. QED
          BY <1>1, <1>3, <4>1, <5>1, <5>2 DEF EntryEnd
      <4>2. CASE ~(e < l)
        <5>1. ~(k < l + 1)
          BY <1>2, <2>3, <4>2
        <5>2. QED
          BY <1>1, <1>3, <4>2, <5>1 DEF EntryEnd
      <4>3. QED
        BY <4>1, <4>2
    <3>2. QED
      BY <1>3, <2>3, <3>1
  <2>4. CASE e + 1 < k
    <3>1. PICK j \in (e + 1)..l : k = j + 1
      <4>1. k - 1 \in (e + 1)..l /\ k = (k - 1) + 1
        BY <1>2, <2>4
      <4>2. QED
        BY <4>1
    <3>2. j \in 1..l
      BY <1>2
    <3>3. n.entries[k].index = m.entries[j].index
      BY <1>3, <3>1
    <3>4. EntryEnd(n, k) = EntryEnd(m, j)
      <4>1. CASE j < l
        <5>1. k < l + 1 /\ k \in (e + 1)..l
          BY <1>2, <3>1, <4>1
        <5>2. n.entries[k + 1].index = m.entries[j + 1].index
          BY <1>3, <3>1, <5>1
        <5>3. QED
          BY <1>1, <1>3, <4>1, <5>1, <5>2 DEF EntryEnd
      <4>2. CASE ~(j < l)
        <5>1. ~(k < l + 1)
          BY <3>1, <4>2
        <5>2. QED
          BY <1>1, <1>3, <4>2, <5>1 DEF EntryEnd
      <4>3. QED
        BY <4>1, <4>2
    <3>5. QED
      BY <1>4, <3>2, <3>3, <3>4
  <2>5. QED
    BY <1>2, <2>1, <2>2, <2>3, <2>4
<1>7. QED
  BY <1>3, <1>4, <1>5, <1>6 DEF Cuts

-----------------------------------------------------------------------------
(* The operations on an entry.                                             *)

(* What a call may do to a manager: its accounts stay as they are, and so  *)
(* do its cuts, up to more of them.                                        *)
Carries(n, m) == Balances(n, m) /\ (Cuts(m) => Cuts(n))

(* What two calls carry, both carry together.                              *)
LEMMA CarriesOnward ==
  ASSUME NEW m, NEW n, NEW p, Carries(n, m), Carries(p, n)
  PROVE  Carries(p, m)
  BY BalancesOnward DEF Carries

(* OperateOnEntry carries the accounts and moves no cut.                   *)
LEMMA OperateOnEntryIs ==
  ASSUME NEW m \in Managers, NEW e \in 1..Len(m.entries), NEW operation \in Operations
  PROVE  /\ Carries(OperateOnEntry(m, e, operation), m)
         /\ SameCuts(OperateOnEntry(m, e, operation), m)
<1>1. PICK dict \in Dictionaries : dict = m.entries[e].attributes
  BY ManagerFacts
<1>2. PICK r : r = Operate(dict, m.refs, operation)
  OBVIOUS
<1>3. IsOutcome(r, dict, m.refs)
  BY <1>2, ManagerFacts, OperateResult
<1>4. PICK after \in Dictionaries, refs \in References : after = r.dict /\ refs = r.refs
  BY <1>3 DEF IsOutcome
<1>5. PICK n : n = [m EXCEPT !.entries[e].attributes = after, !.refs = refs]
  OBVIOUS
<1>6. n = OperateOnEntry(m, e, operation)
  BY <1>1, <1>2, <1>4, <1>5 DEF OperateOnEntry
<1>7. PICK x : x = [m.entries[e] EXCEPT !.attributes = after]
  OBVIOUS
<1>8. x \in Entry /\ x.index = m.entries[e].index /\ x.attributes = after
  <2>1. m.entries[e] \in Entry
    BY ManagerFacts
  <2>2. QED
    BY <1>7, <2>1 DEF Entry
<1>9. PICK E : E = [m.entries EXCEPT ![e] = x]
  OBVIOUS
<1>10. /\ E \in Seq(Entry) /\ Len(E) = Len(m.entries) /\ E[e] = x
       /\ \A k \in 1..Len(m.entries) : k # e => E[k] = m.entries[k]
  BY <1>8, <1>9, ManagerFacts, ExceptSeq
<1>11. /\ n \in Managers /\ n.entries = E /\ n.length = m.length /\ n.refs = refs
       /\ n.cached = m.cached /\ n.created = m.created
  <2>1. n = [[m EXCEPT !.entries = E] EXCEPT !.refs = refs]
    BY <1>5, <1>7, <1>9
  <2>2. QED
    BY <1>10, <2>1 DEF Managers
<1>12. SameCuts(n, m)
  BY <1>8, <1>10, <1>11 DEF SameCuts
<1>13. Spare(n) = Spare(m)
  BY <1>10, <1>11 DEF Spare
<1>14. ASSUME NEW v \in Values PROVE Owes(n, v) = Owes(m, v)
  <2>1. refs[v] - Count(after, v) = m.refs[v] - Count(dict, v)
    BY <1>3, <1>4 DEF IsOutcome, IsPaid
  <2>2. Total(E, v) - Count(after, v) = Total(m.entries, v) - Count(dict, v)
    <3>1. \A k \in 1..Len(m.entries) : k # e => E[k].attributes = m.entries[k].attributes
      BY <1>10
    <3>2. m.entries \in Seq(Entry)
      BY ManagerFacts
    <3>3. Total(E, v) - Count(E[e].attributes, v) = Total(m.entries, v) - Count(m.entries[e].attributes, v)
      BY <1>10, <3>1, <3>2, TotalOfChange
    <3>4. QED
      BY <1>1, <1>8, <1>10, <3>3
  <2>3. PICK a \in Int, c \in Int, b \in Int, d \in Int :
          a = refs[v] /\ c = Count(after, v) /\ b = m.refs[v] /\ d = Count(dict, v)
    BY ManagerFacts, CountIsNat DEF References
  <2>4. PICK t \in Int, u \in Int : t = Total(E, v) /\ u = Total(m.entries, v)
    BY <1>11, AccountsAreNumbers
  <2>5. a - c = b - d /\ t - c = u - d
    BY <2>1, <2>2, <2>3, <2>4
  <2>6. a - t = b - u
    BY <2>5
  <2>7. QED
    BY <1>11, <2>3, <2>4, <2>6 DEF Owes
<1>15. Balances(n, m)
  BY <1>11, <1>13, <1>14 DEF Balances
<1>16. QED
  BY <1>6, <1>12, <1>15, SameCutsAreCuts DEF Carries

(* A copy is made and operated on: the changed copy is lent.               *)
LEMMA OperateOnCopyIs ==
  ASSUME NEW m \in Managers, NEW dict \in Dictionaries, NEW operation \in Operations
  PROVE  \E after \in Dictionaries, n \in Managers :
           /\ OperateOnCopy(m, dict, operation).dict = after
           /\ OperateOnCopy(m, dict, operation).manager = n
           /\ \E refs \in References : OperateOnCopy(m, dict, operation).unchanged
                                       = Operate(dict, refs, operation).unchanged
           /\ Lends(n, m, after)
<1>1. PICK copied : copied = AcquireCopy(m, dict)
  OBVIOUS
<1>2. Lends(copied, m, dict) /\ copied \in Managers
  <2>1. Lends(copied, m, dict)
    BY <1>1, AcquireCopyIs
  <2>2. QED
    BY <2>1 DEF Lends
<1>3. PICK r : r = Operate(dict, copied.refs, operation)
  OBVIOUS
<1>4. IsOutcome(r, dict, copied.refs)
  BY <1>2, <1>3, ManagerFacts, OperateResult
<1>5. PICK after \in Dictionaries, refs \in References, b \in BOOLEAN :
        r = [dict |-> after, refs |-> refs, unchanged |-> b]
  BY <1>4 DEF IsOutcome
<1>6. after = r.dict /\ refs = r.refs /\ b = r.unchanged
  BY <1>5
<1>7. PICK n : n = [copied EXCEPT !.refs = refs]
  OBVIOUS
<1>8. PICK s : s = [manager |-> n, dict |-> after, unchanged |-> b]
  OBVIOUS
<1>9. s = OperateOnCopy(m, dict, operation)
  BY <1>1, <1>3, <1>6, <1>7, <1>8 DEF OperateOnCopy
<1>10. s.dict = after /\ s.manager = n /\ s.unchanged = b
  BY <1>8
<1>11. /\ n \in Managers /\ n.entries = copied.entries /\ n.length = copied.length
       /\ n.refs = refs /\ n.cached = copied.cached /\ n.created = copied.created
  BY <1>2, <1>7 DEF Managers
<1>12. Spare(n) = Spare(m) + 1
  <2>1. Spare(n) = Spare(copied)
    BY <1>11 DEF Spare
  <2>2. QED
    BY <1>2, <2>1 DEF Lends
<1>13. ASSUME NEW v \in Values PROVE Owes(n, v) = Owes(m, v) + Count(after, v)
  <2>1. refs[v] - Count(after, v) = copied.refs[v] - Count(dict, v)
    BY <1>4, <1>6 DEF IsOutcome, IsPaid
  <2>2. PICK a \in Int, c \in Int, k \in Int, d \in Int :
          a = refs[v] /\ c = Count(after, v) /\ k = copied.refs[v] /\ d = Count(dict, v)
    BY <1>2, AccountsAreNumbers, CountIsNat DEF References
  <2>3. PICK t \in Int, o \in Int : t = Total(copied.entries, v) /\ o = Owes(m, v)
    BY <1>2, AccountsAreNumbers
  <2>4. k - t = o + d
    BY <1>2, <2>2, <2>3 DEF Lends, Owes
  <2>5. a - c = k - d
    BY <2>1, <2>2
  <2>6. a - t = o + c
    BY <2>4, <2>5
  <2>7. QED
    BY <1>11, <2>2, <2>3, <2>6 DEF Owes
<1>14. Lends(n, m, after)
  BY <1>2, <1>11, <1>12, <1>13 DEF Lends
<1>15. s.unchanged = Operate(dict, copied.refs, operation).unchanged /\ copied.refs \in References
  BY <1>2, <1>3, <1>6, <1>10, ManagerFacts
<1>16. QED
  BY <1>9, <1>10, <1>11, <1>14, <1>15

(* The same entries cut the text alike.                                    *)
LEMMA SameEntriesCarry ==
  ASSUME NEW m \in Managers, NEW n, Balances(n, m), n.entries = m.entries
  PROVE  Carries(n, m)
<1>1. n.length = m.length
  BY DEF Balances
<1>2. SameCuts(n, m)
  BY <1>1 DEF SameCuts
<1>3. QED
  BY <1>2, SameCutsAreCuts DEF Carries

(* An operation that changes nothing of a dictionary.                      *)
IsInert(dict, operation) ==
  \A refs \in References : Operate(dict, refs, operation).unchanged = TRUE

(* The outcome of OperateOnCopy; an inert operation says so of itself.     *)
LEMMA OperateOnCopyIsRecord ==
  ASSUME NEW m \in Managers, NEW dict \in Dictionaries, NEW operation \in Operations
  PROVE  \E after \in Dictionaries, n \in Managers, b \in BOOLEAN :
           /\ OperateOnCopy(m, dict, operation) = [manager |-> n, dict |-> after, unchanged |-> b]
           /\ Lends(n, m, after)
           /\ IsInert(dict, operation) => b
<1>1. PICK r : r = OperateOnCopy(m, dict, operation)
  OBVIOUS
<1>2. PICK after \in Dictionaries, n \in Managers, refs \in References :
        /\ r.dict = after /\ r.manager = n
        /\ r.unchanged = Operate(dict, refs, operation).unchanged
        /\ Lends(n, m, after)
  BY <1>1, OperateOnCopyIs
<1>3. r.unchanged \in BOOLEAN
  <2>1. IsOutcome(Operate(dict, refs, operation), dict, refs)
    BY OperateResult
  <2>2. QED
    BY <1>2, <2>1 DEF IsOutcome
<1>4. r = [manager |-> r.manager, dict |-> r.dict, unchanged |-> r.unchanged]
  BY <1>1 DEF OperateOnCopy
<1>5. IsInert(dict, operation) => r.unchanged
  BY <1>2 DEF IsInert
<1>6. QED
  BY <1>1, <1>2, <1>3, <1>4, <1>5

(* An entry is split at most once, and both halves are accounted for.      *)
IsSplit(r, m, n, b) ==
  /\ r = [manager |-> n, split |-> b]
  /\ n \in Managers /\ Carries(n, m)
  /\ b => Len(n.entries) = Len(m.entries) + 1
  /\ ~b => n.entries = m.entries

(* Split carries the accounts and cuts the entry at most once.             *)
LEMMA SplitIs ==
  ASSUME NEW m \in Managers, NEW e \in 1..Len(m.entries), NEW at \in Int,
         NEW operation \in Operations, NEW side \in {"left", "right"}
  PROVE  \E n \in Managers, b \in BOOLEAN : IsSplit(Split(m, e, at, operation, side), m, n, b)
<1>1. PICK original \in Dictionaries : original = m.entries[e].attributes
  BY ManagerFacts
<1>2. CASE at <= m.entries[e].index \/ at >= EntryEnd(m, e)
  <2>1. Split(m, e, at, operation, side) = [manager |-> m, split |-> FALSE]
    BY <1>2 DEF Split
  <2>2. Carries(m, m) /\ m \in Managers
    BY BalancesItself DEF Carries
  <2>3. IsSplit(Split(m, e, at, operation, side), m, m, FALSE)
    BY <2>1, <2>2 DEF IsSplit
  <2>4. QED
    BY <2>3
<1>3. CASE ~(at <= m.entries[e].index \/ at >= EntryEnd(m, e))
  <2>1. m.entries[e].index < at /\ at < EntryEnd(m, e)
    <3>1. EntryEnd(m, e) \in Int
      <4>1. e < Len(m.entries) => e + 1 \in 1..Len(m.entries)
        BY ManagerFacts
      <4>2. QED
        BY <4>1, ManagerFacts DEF EntryEnd
    <3>2. m.entries[e].index \in Int
      BY ManagerFacts
    <3>3. QED
      BY <1>3, <3>1, <3>2
  <2>2. PICK changed : changed = OperateOnCopy(m, original, operation)
    OBVIOUS
  <2>3. PICK after \in Dictionaries, c \in Managers, b \in BOOLEAN :
          changed = [manager |-> c, dict |-> after, unchanged |-> b] /\ Lends(c, m, after)
    BY <2>2, OperateOnCopyIsRecord
  <2>4. changed.manager = c /\ changed.dict = after /\ changed.unchanged = b
    BY <2>3
  <2>5. Split(m, e, at, operation, side) = SplitBy(m, e, at, side, changed)
    BY <1>1, <1>3, <2>2 DEF Split
  <2>6. CASE b
    <3>1. PICK n : n = Store(c, after)
      OBVIOUS
    <3>2. Balances(n, m) /\ n.entries = m.entries
      BY <2>3, <3>1, StoreGivesBack
    <3>3. SplitBy(m, e, at, side, changed) = [manager |-> n, split |-> FALSE]
      BY <2>4, <2>6, <3>1 DEF SplitBy
    <3>4. IsSplit(Split(m, e, at, operation, side), m, n, FALSE)
      BY <2>5, <3>2, <3>3, SameEntriesCarry DEF IsSplit, Balances
    <3>5. QED
      BY <3>4 DEF IsSplit
  <2>7. CASE ~b
    <3>1. PICK left \in Dictionaries, right \in Dictionaries :
            /\ left = (IF side = "left" THEN after ELSE original)
            /\ right = (IF side = "right" THEN after ELSE original)
      OBVIOUS
    <3>2. (left = after /\ right = original) \/ (left = original /\ right = after)
      BY <3>1
    <3>3. PICK x : x = [m.entries[e] EXCEPT !.attributes = left]
      OBVIOUS
    <3>4. x \in Entry /\ x.index = m.entries[e].index /\ x.attributes = left
      <4>1. m.entries[e] \in Entry
        BY ManagerFacts
      <4>2. QED
        BY <3>3, <4>1 DEF Entry
    <3>5. PICK y : y = [index |-> at, attributes |-> right]
      OBVIOUS
    <3>6. y \in Entry /\ y.index = at /\ y.attributes = right
      BY <3>5 DEF Entry
    <3>7. PICK E : E = [m.entries EXCEPT ![e] = x]
      OBVIOUS
    <3>8. /\ E \in Seq(Entry) /\ Len(E) = Len(m.entries) /\ E[e] = x
          /\ \A k \in 1..Len(m.entries) : k # e => E[k] = m.entries[k]
      BY <3>4, <3>7, ManagerFacts, ExceptSeq
    <3>9. PICK p \in 1..(Len(E) + 1) : p = e + 1
      BY <3>8, ManagerFacts
    <3>10. PICK F : F = InsertAt(E, p, y)
      OBVIOUS
    <3>11. F \in Seq(Entry) /\ IsInsertion(F, E, p, y)
      BY <3>6, <3>8, <3>10, InsertAtIs
    <3>12. PICK n : n = [c EXCEPT !.entries = F]
      OBVIOUS
    <3>13. c.entries = m.entries
      BY <2>3 DEF Lends
    <3>14. SplitBy(m, e, at, side, changed) = [manager |-> n, split |-> TRUE]
      <4>1. E = [c.entries EXCEPT ![e].attributes = left]
        BY <3>3, <3>7, <3>13
      <4>2. n = [c EXCEPT !.entries = InsertAt([@ EXCEPT ![e].attributes = left], e + 1,
                                               [index |-> at, attributes |-> right])]
        BY <3>5, <3>9, <3>10, <3>12, <4>1
      <4>3. QED
        BY <1>1, <2>4, <2>7, <3>1, <4>2 DEF SplitBy
    <3>15. Len(F) = Len(m.entries) + 1
      BY <3>8, <3>11 DEF IsInsertion
    <3>16. ASSUME NEW v \in Values PROVE Total(F, v) = Total(m.entries, v) + Count(after, v)
      <4>1. Total(F, v) = Total(E, v) + Count(right, v)
        BY <3>6, <3>8, <3>9, <3>11, TotalOfInsertion
      <4>2. Total(E, v) - Count(left, v) = Total(m.entries, v) - Count(original, v)
        <5>1. \A k \in 1..Len(m.entries) : k # e => E[k].attributes = m.entries[k].attributes
          BY <3>8
        <5>2. m.entries \in Seq(Entry)
          BY ManagerFacts
        <5>3. Total(E, v) - Count(E[e].attributes, v) = Total(m.entries, v) - Count(m.entries[e].attributes, v)
          BY <3>8, <5>1, <5>2, TotalOfChange
        <5>4. QED
          BY <1>1, <3>4, <3>8, <5>3
      <4>3. PICK t \in Int, u \in Int, w \in Int : t = Total(F, v) /\ u = Total(E, v) /\ w = Total(m.entries, v)
        <5>1. Total(m.entries, v) \in Nat
          BY AccountsAreNumbers
        <5>2. Total(E, v) \in Nat /\ Total(F, v) \in Nat
          BY <3>8, <3>11, TotalIsNat DEF Total
        <5>3. QED
          BY <5>1, <5>2
      <4>4. PICK l \in Int, r \in Int, a \in Int, o \in Int :
              l = Count(left, v) /\ r = Count(right, v) /\ a = Count(after, v) /\ o = Count(original, v)
        BY CountIsNat
      <4>5. t = u + r /\ u - l = w - o /\ ((l = a /\ r = o) \/ (l = o /\ r = a))
        BY <3>2, <4>1, <4>2, <4>3, <4>4
      <4>6. t = w + a
        BY <4>5
      <4>7. QED
        BY <4>3, <4>4, <4>6
    <3>17. Balances(n, m) /\ n.entries = F
      BY <2>3, <3>11, <3>12, <3>15, <3>16, EntryTakes
    <3>18. CutsMore(n, m, e, at)
      <4>1. n.length = m.length
        BY <3>17 DEF Balances
      <4>2. ASSUME NEW k \in 1..e PROVE F[k].index = m.entries[k].index
        <5>1. k \in 1..(p - 1) /\ k \in 1..Len(m.entries)
          BY <3>9, ManagerFacts
        <5>2. F[k] = E[k]
          BY <3>11, <5>1 DEF IsInsertion
        <5>3. QED
          BY <3>4, <3>8, <5>1, <5>2
      <4>3. F[e + 1].index = at
        BY <3>6, <3>9, <3>11 DEF IsInsertion
      <4>4. ASSUME NEW k \in (e + 1)..Len(m.entries) PROVE F[k + 1].index = m.entries[k].index
        <5>1. k \in p..Len(E) /\ k \in 1..Len(m.entries) /\ k # e
          BY <3>8, <3>9, ManagerFacts
        <5>2. F[k + 1] = E[k]
          BY <3>11, <5>1 DEF IsInsertion
        <5>3. QED
          BY <3>8, <5>1, <5>2
      <4>5. QED
        BY <3>15, <3>17, <4>1, <4>2, <4>3, <4>4 DEF CutsMore
    <3>19. Carries(n, m)
      BY <2>1, <3>17, <3>18, CutsMoreAreCuts DEF Carries
    <3>20. IsSplit(Split(m, e, at, operation, side), m, n, TRUE)
      BY <2>5, <3>14, <3>15, <3>17, <3>19 DEF IsSplit, Balances
    <3>21. QED
      BY <3>20 DEF IsSplit
  <2>8. QED
    BY <2>6, <2>7
<1>4. QED
  BY <1>2, <1>3

-----------------------------------------------------------------------------
(* The binary search for an entry.                                         *)

(* An entry ends where the next one starts, or with the text.              *)
LEMMA EndsAreIndices ==
  ASSUME NEW m \in Managers, NEW e \in 1..Len(m.entries)
  PROVE  /\ EntryEnd(m, e) \in Int
         /\ e < Len(m.entries) => e + 1 \in 1..Len(m.entries) /\ EntryEnd(m, e) = m.entries[e + 1].index
         /\ ~(e < Len(m.entries)) => EntryEnd(m, e) = m.length
<1>1. CASE e < Len(m.entries)
  <2>1. e + 1 \in 1..Len(m.entries)
    BY <1>1, ManagerFacts
  <2>2. EntryEnd(m, e) = m.entries[e + 1].index
    BY <1>1 DEF EntryEnd
  <2>3. QED
    BY <1>1, <2>1, <2>2, ManagerFacts
<1>2. CASE ~(e < Len(m.entries))
  BY <1>2, ManagerFacts DEF EntryEnd
<1>3. QED
  BY <1>1, <1>2

(* The cuts are in order: an entry ends where a later one starts, or before. *)
LEMMA CutsAscend ==
  ASSUME NEW m \in Managers, Cuts(m)
  PROVE  /\ \A a, b \in 1..Len(m.entries) : a < b => EntryEnd(m, a) <= m.entries[b].index
         /\ \A a \in 1..Len(m.entries) : EntryEnd(m, a) <= m.length /\ 0 <= m.entries[a].index
<1>1. PICK l \in Nat : l = Len(m.entries)
  BY ManagerFacts
<1>2. 1 <= l /\ m.entries[1].index = 0 /\ \A e \in 1..l : m.entries[e].index < EntryEnd(m, e)
  BY <1>1 DEF Cuts
<1>3. \A e \in 1..l : /\ EntryEnd(m, e) \in Int /\ m.entries[e].index \in Int
                      /\ e < l => EntryEnd(m, e) = m.entries[e + 1].index
                      /\ ~(e < l) => EntryEnd(m, e) = m.length
  BY <1>1, EndsAreIndices, ManagerFacts
<1> DEFINE T == {k \in 0..l : \A a \in 1..l : k >= 1 /\ a + k <= l => EntryEnd(m, a) <= m.entries[a + k].index}
<1>4. 0 \in T
  OBVIOUS
<1>5. ASSUME NEW k \in 0..(l - 1), k \in T PROVE k + 1 \in T
  <2>1. ASSUME NEW a \in 1..l, a + (k + 1) <= l PROVE EntryEnd(m, a) <= m.entries[a + (k + 1)].index
    <3>1. CASE k = 0
      <4>1. EntryEnd(m, a) = m.entries[a + 1].index /\ a + (k + 1) = a + 1 /\ a + 1 \in 1..l
        BY <1>3, <2>1, <3>1
      <4>2. EntryEnd(m, a) \in Int
        BY <1>3
      <4>3. QED
        BY <4>1, <4>2
    <3>2. CASE k # 0
      <4>1. PICK b \in 1..l : b = a + k
        BY <2>1
      <4>2. EntryEnd(m, a) <= m.entries[b].index
        BY <1>5, <2>1, <3>2, <4>1
      <4>3. b < l /\ b + 1 \in 1..l /\ b + 1 = a + (k + 1)
        BY <2>1, <4>1
      <4>4. m.entries[b].index < m.entries[b + 1].index
        BY <1>2, <1>3, <4>3
      <4>5. EntryEnd(m, a) \in Int /\ m.entries[b].index \in Int /\ m.entries[b + 1].index \in Int
        BY <1>3, <4>3
      <4>6. EntryEnd(m, a) <= m.entries[b + 1].index
        BY <4>2, <4>4, <4>5
      <4>7. QED
        BY <4>3, <4>6
    <3>3. QED
      BY <3>1, <3>2
  <2>2. QED
    BY <2>1
<1>6. \A k \in 0..l : k \in T
  <2> HIDE DEF T
  <2>1. QED
    BY <1>4, <1>5, Numbers!UpToInduction
<1>7. ASSUME NEW a \in 1..l, NEW b \in 1..l, a < b PROVE EntryEnd(m, a) <= m.entries[b].index
  <2>1. PICK k \in 0..l : k = b - a
    BY <1>7
  <2>2. k >= 1 /\ a + k = b /\ a + k <= l
    BY <1>7, <2>1
  <2>3. EntryEnd(m, a) <= m.entries[a + k].index
    BY <1>6, <2>2
  <2>4. QED
    BY <2>2, <2>3
<1>8. ASSUME NEW a \in 1..l PROVE EntryEnd(m, a) <= m.length /\ 0 <= m.entries[a].index
  <2>1. 0 <= m.entries[a].index
    <3>1. CASE a = 1
      BY <1>2, <3>1
    <3>2. CASE 1 < a
      <4>1. 1 \in 1..l
        BY <1>2
      <4>2. EntryEnd(m, 1) <= m.entries[a].index /\ 0 < EntryEnd(m, 1)
        BY <1>2, <1>7, <3>2, <4>1
      <4>3. EntryEnd(m, 1) \in Int /\ m.entries[a].index \in Int
        BY <1>3, <4>1
      <4>4. QED
        BY <4>2, <4>3
    <3>3. QED
      BY <3>1, <3>2
  <2>2. EntryEnd(m, a) <= m.length
    <3>1. CASE a < l
      <4>1. l \in 1..l /\ ~(l < l)
        BY <1>2
      <4>2. EntryEnd(m, a) <= m.entries[l].index /\ m.entries[l].index < m.length
        BY <1>2, <1>3, <1>7, <3>1, <4>1
      <4>3. EntryEnd(m, a) \in Int /\ m.entries[l].index \in Int /\ m.length \in Int
        BY <1>3, <4>1, ManagerFacts
      <4>4. QED
        BY <4>2, <4>3
    <3>2. CASE ~(a < l)
      BY <1>3, <3>2, ManagerFacts
    <3>3. QED
      BY <3>1, <3>2
  <2>3. QED
    BY <2>1, <2>2
<1>9. QED
  BY <1>1, <1>7, <1>8

-----------------------------------------------------------------------------
(* The entry of a code unit, by binary search.                             *)

Covers(m, i, c) ==
  c \in 1..Len(m.entries) /\ m.entries[c].index <= i /\ i < EntryEnd(m, c)

(* Some entry covers a unit of the text.                                   *)
LEMMA CoverExists ==
  ASSUME NEW m \in Managers, Cuts(m), NEW i \in 0..(m.length - 1)
  PROVE  \E c : Covers(m, i, c)
<1>1. PICK l \in Nat : l = Len(m.entries)
  BY ManagerFacts
<1>2. 1 <= l /\ m.entries[1].index = 0
  BY <1>1 DEF Cuts
<1>3. \A e \in 1..l : /\ EntryEnd(m, e) \in Int /\ m.entries[e].index \in Int
                      /\ e < l => EntryEnd(m, e) = m.entries[e + 1].index
                      /\ ~(e < l) => EntryEnd(m, e) = m.length
  BY <1>1, EndsAreIndices, ManagerFacts
<1> DEFINE T == {k \in 1..l : i < EntryEnd(m, k)}
<1>4. l \in T
  <2>1. l \in 1..l /\ ~(l < l)
    BY <1>2
  <2>2. EntryEnd(m, l) = m.length /\ i < m.length
    BY <1>3, <2>1, ManagerFacts
  <2>3. QED
    BY <2>1, <2>2
<1>5. PICK c \in T : \A k \in T : c <= k
  <2>1. T \in SUBSET Nat /\ T # {}
    BY <1>4
  <2> HIDE DEF T
  <2>2. QED
    BY <2>1, Numbers!LeastNatural
<1>6. c \in 1..l /\ i < EntryEnd(m, c)
  OBVIOUS
<1>7. m.entries[c].index <= i
  <2>1. CASE c = 1
    BY <1>2, <2>1
  <2>2. CASE c # 1
    <3>1. PICK b \in 1..l : b + 1 = c /\ b < l
      <4>1. c - 1 \in 1..l /\ (c - 1) + 1 = c /\ c - 1 < l
        BY <1>6, <2>2
      <4>2. QED
        BY <4>1
    <3>2. b \notin T
      <4>1. ~(c <= b)
        BY <3>1
      <4> HIDE DEF T
      <4>2. QED
        BY <1>5, <4>1
    <3>3. ~(i < EntryEnd(m, b)) /\ EntryEnd(m, b) = m.entries[c].index
      BY <1>3, <3>1, <3>2
    <3>4. m.entries[c].index \in Int
      BY <1>3, <1>6
    <3>5. QED
      BY <3>3, <3>4
  <2>3. QED
    BY <2>1, <2>2
<1>8. QED
  BY <1>1, <1>6, <1>7 DEF Covers

(* The entries before the one that covers i end before i, the later ones   *)
(* start after it.                                                         *)
LEMMA CoverDivides ==
  ASSUME NEW m \in Managers, Cuts(m), NEW i \in Int, NEW c, Covers(m, i, c),
         NEW e \in 1..Len(m.entries)
  PROVE  (i < m.entries[e].index <=> c < e) /\ (i >= EntryEnd(m, e) <=> e < c)
<1>1. c \in 1..Len(m.entries) /\ m.entries[c].index <= i /\ i < EntryEnd(m, c)
  BY DEF Covers
<1>2. /\ \A a, b \in 1..Len(m.entries) : a < b => EntryEnd(m, a) <= m.entries[b].index
      /\ \A k \in 1..Len(m.entries) : m.entries[k].index < EntryEnd(m, k)
  BY CutsAscend DEF Cuts
<1>3. \A k \in 1..Len(m.entries) : EntryEnd(m, k) \in Int /\ m.entries[k].index \in Int
  BY EndsAreIndices, ManagerFacts
<1>4. CASE e = c
  BY <1>1, <1>3, <1>4
<1>5. CASE e < c
  <2>1. EntryEnd(m, e) <= m.entries[c].index /\ m.entries[e].index < EntryEnd(m, e)
    BY <1>1, <1>2, <1>5
  <2>2. QED
    BY <1>1, <1>3, <1>5, <2>1
<1>6. CASE c < e
  <2>1. EntryEnd(m, c) <= m.entries[e].index /\ m.entries[e].index < EntryEnd(m, e)
    BY <1>1, <1>2, <1>6
  <2>2. QED
    BY <1>1, <1>3, <1>6, <2>1
<1>7. QED
  BY <1>1, <1>4, <1>5, <1>6, ManagerFacts

(* One halving of the search, and the function that consists of them.      *)
FindTurn(f, m, i, low, high) ==
  LET mid == low + ((high - low) \div 2)
  IN  IF low > high THEN 0
      ELSE IF i < m.entries[mid].index THEN f[<<low, mid - 1>>]
      ELSE IF i >= EntryEnd(m, mid) THEN f[<<mid + 1, high>>]
      ELSE mid

IsFind(f, m, i) ==
  f = [r \in (1..(Len(m.entries) + 1)) \X (0..Len(m.entries)) |-> FindTurn(f, m, i, r[1], r[2])]

(* The search of the code is a function that IsFind describes.             *)
LEMMA FindUnfolds ==
  ASSUME NEW m, NEW i
  PROVE  FindEntry(m, i) = (CHOOSE f : IsFind(f, m, i))[<<1, Len(m.entries)>>]
  BY DEF FindEntry, IsFind, FindTurn

Within(c, low, high) == IF low <= c /\ c <= high THEN c ELSE 0

(* f has found c over all shorter ranges.                                  *)
SolvesShorter(f, m, c, low, high) ==
  \A a \in 1..(Len(m.entries) + 1), b \in 0..Len(m.entries) :
     (low <= high => b - a < high - low) => f[<<a, b>>] = Within(c, a, b)

(* Where shorter ranges are searched as they should be, so is this one.    *)
LEMMA WithinSolves ==
  ASSUME NEW m \in Managers, Cuts(m), NEW i \in Int, NEW c, Covers(m, i, c), NEW f,
         NEW low \in 1..(Len(m.entries) + 1), NEW high \in 0..Len(m.entries),
         SolvesShorter(f, m, c, low, high)
  PROVE  FindTurn(f, m, i, low, high) = Within(c, low, high)
<1>1. PICK l \in Nat : l = Len(m.entries)
  BY ManagerFacts
<1>2. c \in 1..l
  BY <1>1 DEF Covers
<1>6. low \in 1..(l + 1) /\ high \in 0..l
  BY <1>1
<1>7. \A a \in 1..(l + 1), b \in 0..l : (low <= high => b - a < high - low) => f[<<a, b>>] = Within(c, a, b)
  BY <1>1 DEF SolvesShorter
<1>3. CASE low > high
  <2>1. ~(low <= c /\ c <= high)
    BY <1>1, <1>2, <1>3
  <2>2. QED
    BY <1>3, <2>1 DEF FindTurn, Within
<1>4. CASE ~(low > high)
  <2>1. PICK mid \in 1..l : mid = low + ((high - low) \div 2) /\ low <= mid /\ mid <= high
    <3>1. PICK h \in Nat : h = high - low
      BY <1>1, <1>4
    <3>2. PICK q \in Nat : q = h \div 2 /\ q <= h
      BY <3>1
    <3>3. low + q \in 1..l /\ low <= low + q /\ low + q <= high
      BY <1>1, <1>4, <3>1, <3>2
    <3>4. QED
      BY <3>1, <3>2, <3>3
  <2>2. FindTurn(f, m, i, low, high) =
          IF i < m.entries[mid].index THEN f[<<low, mid - 1>>]
          ELSE IF i >= EntryEnd(m, mid) THEN f[<<mid + 1, high>>]
          ELSE mid
    BY <1>4, <2>1 DEF FindTurn
  <2>8. low <= mid /\ mid <= high
    BY <2>1
  <2>3. (i < m.entries[mid].index <=> c < mid) /\ (i >= EntryEnd(m, mid) <=> mid < c)
    BY <1>1, CoverDivides
  <2>4. CASE c < mid
    <3>1. mid - 1 \in 0..l /\ mid - 1 - low < high - low /\ low \in 1..(l + 1)
      BY <1>6, <2>8
    <3>2. f[<<low, mid - 1>>] = Within(c, low, mid - 1)
      BY <1>7, <3>1
    <3>3. Within(c, low, mid - 1) = Within(c, low, high)
      <4>1. (low <= c /\ c <= mid - 1) <=> (low <= c /\ c <= high)
        BY <1>1, <1>2, <2>1, <2>4
      <4>2. QED
        BY <4>1 DEF Within
    <3>4. QED
      BY <2>2, <2>3, <2>4, <3>2, <3>3
  <2>5. CASE mid < c
    <3>1. mid + 1 \in 1..(l + 1) /\ high - (mid + 1) < high - low /\ high \in 0..l
      BY <1>6, <2>8
    <3>2. f[<<mid + 1, high>>] = Within(c, mid + 1, high)
      BY <1>7, <3>1
    <3>3. Within(c, mid + 1, high) = Within(c, low, high)
      <4>1. (mid + 1 <= c /\ c <= high) <=> (low <= c /\ c <= high)
        BY <1>1, <1>2, <2>1, <2>5
      <4>2. QED
        BY <4>1 DEF Within
    <3>4. ~(c < mid)
      BY <1>2, <2>5
    <3>5. QED
      BY <2>2, <2>3, <2>5, <3>2, <3>3, <3>4
  <2>6. CASE c = mid
    <3>1. ~(c < mid) /\ ~(mid < c) /\ low <= c /\ c <= high
      BY <1>2, <2>1, <2>6
    <3>2. QED
      BY <2>2, <2>3, <2>6, <3>1 DEF Within
  <2>7. QED
    BY <1>2, <2>4, <2>5, <2>6
<1>5. QED
  BY <1>3, <1>4

(* The binary search finds the entry that covers a code unit.              *)
LEMMA FindEntryFinds ==
  ASSUME NEW m \in Managers, Cuts(m), NEW i \in 0..(m.length - 1)
  PROVE  /\ Covers(m, i, FindEntry(m, i)) /\ FindEntry(m, i) \in 1..Len(m.entries)
         /\ \A c : Covers(m, i, c) => FindEntry(m, i) = c
<1>1. PICK l \in Nat : l = Len(m.entries)
  BY ManagerFacts
<1>2. i \in Int
  BY ManagerFacts
<1>3. SUFFICES ASSUME NEW c, Covers(m, i, c) PROVE FindEntry(m, i) = c
  <2>1. PICK c : Covers(m, i, c)
    BY CoverExists
  <2>2. c \in 1..Len(m.entries)
    BY <2>1 DEF Covers
  <2>3. QED
    BY <2>1, <2>2
<1>4. c \in 1..l
  BY <1>1, <1>3 DEF Covers
<1> DEFINE g == [r \in (1..(l + 1)) \X (0..l) |-> Within(c, r[1], r[2])]
           f == CHOOSE f : IsFind(f, m, i)
<1>5. IsFind(g, m, i)
  <2>1. \A a \in 1..(l + 1), b \in 0..l : g[<<a, b>>] = Within(c, a, b)
    OBVIOUS
  <2>2. \A a \in 1..(l + 1), b \in 0..l : FindTurn(g, m, i, a, b) = Within(c, a, b)
    <3> HIDE DEF g
    <3>1. ASSUME NEW a \in 1..(l + 1), NEW b \in 0..l PROVE FindTurn(g, m, i, a, b) = Within(c, a, b)
      <4>1. a \in 1..(Len(m.entries) + 1) /\ b \in 0..Len(m.entries)
        BY <1>1
      <4>2. SolvesShorter(g, m, c, a, b)
        BY <1>1, <2>1 DEF SolvesShorter
      <4>3. QED
        BY <1>2, <1>3, <4>1, <4>2, WithinSolves
    <3>2. QED
      BY <3>1
  <2>3. QED
    BY <1>1, <2>2 DEF IsFind
<1>6. IsFind(f, m, i)
  BY <1>5
<1> HIDE DEF f
<1>7. \A a \in 1..(l + 1), b \in 0..l : f[<<a, b>>] = FindTurn(f, m, i, a, b)
  BY <1>1, <1>6 DEF IsFind
<1> DEFINE T == {n \in Nat : \A a \in 1..(l + 1), b \in 0..l : b - a < n => f[<<a, b>>] = Within(c, a, b)}
<1>8. ASSUME NEW a \in 1..(l + 1), NEW b \in 0..l, a > b PROVE f[<<a, b>>] = Within(c, a, b)
  <2>1. FindTurn(f, m, i, a, b) = 0
    BY <1>8 DEF FindTurn
  <2>2. Within(c, a, b) = 0
    BY <1>4, <1>8 DEF Within
  <2>3. QED
    BY <1>7, <2>1, <2>2
<1>9. 0 \in T
  <2>1. \A a \in 1..(l + 1), b \in 0..l : b - a < 0 => a > b
    OBVIOUS
  <2>2. QED
    BY <1>8, <2>1
<1>10. ASSUME NEW k \in 0..(l - 1), k \in T PROVE k + 1 \in T
  <2>1. ASSUME NEW a \in 1..(l + 1), NEW b \in 0..l, b - a < k + 1
        PROVE  f[<<a, b>>] = Within(c, a, b)
    <3>1. CASE a <= b
      <4>1. \A x \in 1..(l + 1), y \in 0..l : (a <= b => y - x < b - a) => f[<<x, y>>] = Within(c, x, y)
        <5>1. ASSUME NEW x \in 1..(l + 1), NEW y \in 0..l, y - x < b - a PROVE f[<<x, y>>] = Within(c, x, y)
          <6>1. y - x < k
            BY <2>1, <5>1
          <6>2. QED
            BY <1>10, <6>1
        <5>2. QED
          BY <3>1, <5>1
      <4>2. FindTurn(f, m, i, a, b) = Within(c, a, b)
        <5>1. a \in 1..(Len(m.entries) + 1) /\ b \in 0..Len(m.entries)
          BY <1>1
        <5>2. SolvesShorter(f, m, c, a, b)
          BY <1>1, <4>1 DEF SolvesShorter
        <5>3. QED
          BY <1>2, <1>3, <5>1, <5>2, WithinSolves
      <4>3. QED
        BY <1>7, <4>2
    <3>2. CASE ~(a <= b)
      BY <1>8, <3>2
    <3>3. QED
      BY <3>1, <3>2
  <2>2. QED
    BY <2>1
<1>11. l \in T
  <2>1. l \in 0..l
    OBVIOUS
  <2> HIDE DEF T
  <2>2. \A k \in 0..l : k \in T
    BY <1>9, <1>10, Numbers!UpToInduction
  <2>3. QED
    BY <2>1, <2>2
<1>12. f[<<1, l>>] = Within(c, 1, l)
  <2>1. 1 \in 1..(l + 1) /\ l \in 0..l /\ l - 1 < l
    OBVIOUS
  <2>2. QED
    BY <1>11, <2>1
<1>13. Within(c, 1, l) = c
  BY <1>4 DEF Within
<1>14. QED
  BY <1>1, <1>12, <1>13, FindUnfolds DEF f

-----------------------------------------------------------------------------
(* An operation inside an entry, and over several.                         *)

(* Two entries that are put in at once are put in one after the other.     *)
LEMMA TwoInsertions ==
  ASSUME NEW S, NEW E \in Seq(S), NEW x \in S, NEW y \in S, NEW e \in 1..Len(E)
  PROVE  \E M \in Seq(S), F \in Seq(S) :
           /\ F = SubSeq(E, 1, e) \o <<x, y>> \o SubSeq(E, e + 1, Len(E))
           /\ IsInsertion(M, E, e + 1, x) /\ IsInsertion(F, M, e + 2, y)
<1>1. PICK l \in Nat : l = Len(E)
  OBVIOUS
<1>2. PICK new \in Seq(S) : new = <<x, y>> /\ Len(new) = 2 /\ new[1] = x /\ new[2] = y
  <2>1. <<x, y>> \in Seq(S)
    OBVIOUS
  <2>2. Len(<<x, y>>) = 2 /\ <<x, y>>[1] = x /\ <<x, y>>[2] = y
    OBVIOUS
  <2>3. QED
    BY <2>1, <2>2
<1>3. PICK F : F = SubSeq(E, 1, e) \o new \o SubSeq(E, e + 1, Len(E))
  OBVIOUS
<1>4. e \in Nat /\ e + 1 \in Nat /\ e < e + 1 /\ e + 1 <= l + 1 /\ e \in 1..l
  BY <1>1
<1>5. F \in Seq(S) /\ IsReplaced(F, E, e, new, e + 1)
  BY <1>1, <1>3, <1>4, ReplacedIs
<1>6. PICK p \in 1..(l + 1) : p = e + 1
  BY <1>4
<1>7. PICK M : M = InsertAt(E, p, x)
  OBVIOUS
<1>8. M \in Seq(S) /\ IsInsertion(M, E, p, x)
  BY <1>1, <1>7, InsertAtIs
<1>9. /\ Len(M) = l + 1 /\ M[e + 1] = x
      /\ \A k \in 1..e : M[k] = E[k]
      /\ \A k \in (e + 1)..l : M[k + 1] = E[k]
  <2>1. p - 1 = e
    BY <1>4, <1>6
  <2>2. QED
    BY <1>1, <1>6, <1>8, <2>1 DEF IsInsertion
<1>10. Len(F) = l + 2
  <2>1. Len(F) = e + 2 + (l - (e + 1) + 1)
    BY <1>1, <1>2, <1>5 DEF IsReplaced
  <2>2. e + 2 + (l - (e + 1) + 1) = l + 2
    BY <1>4
  <2>3. QED
    BY <2>1, <2>2
<1>11. F[e + 1] = x /\ F[e + 2] = y
  BY <1>2, <1>5 DEF IsReplaced
<1>12. \A k \in 1..e : F[k] = E[k]
  BY <1>5 DEF IsReplaced
<1>13. ASSUME NEW k \in (e + 1)..l PROVE F[k + 2] = E[k]
  <2>1. F[k - (e + 1) + 1 + e + 2] = E[k]
    BY <1>1, <1>2, <1>5 DEF IsReplaced
  <2>2. k - (e + 1) + 1 + e + 2 = k + 2
    BY <1>4
  <2>3. QED
    BY <2>1, <2>2
<1>14. IsInsertion(F, M, e + 2, y)
  <2>1. Len(F) = Len(M) + 1
    BY <1>9, <1>10
  <2>2. ASSUME NEW k \in 1..(e + 2 - 1) PROVE F[k] = M[k]
    <3>1. k \in 1..e \/ k = e + 1
      BY <1>4
    <3>2. QED
      BY <1>9, <1>11, <1>12, <3>1
  <2>3. ASSUME NEW k \in (e + 2)..Len(M) PROVE F[k + 1] = M[k]
    <3>1. PICK j \in (e + 1)..l : k = j + 1
      <4>1. k - 1 \in (e + 1)..l /\ k = (k - 1) + 1
        BY <1>4, <1>9
      <4>2. QED
        BY <4>1
    <3>2. M[j + 1] = E[j] /\ F[j + 2] = E[j]
      BY <1>9, <1>13
    <3>3. j + 2 = k + 1
      BY <3>1
    <3>4. QED
      BY <3>1, <3>2, <3>3
  <2>4. QED
    BY <1>11, <2>1, <2>2, <2>3 DEF IsInsertion
<1>15. QED
  BY <1>2, <1>3, <1>5, <1>6, <1>8, <1>14

(* An entry that is put in after entry e cuts it.                          *)
LEMMA InsertionCutsMore ==
  ASSUME NEW m \in Managers, NEW n, NEW e \in 1..Len(m.entries), NEW x,
         n.length = m.length, IsInsertion(n.entries, m.entries, e + 1, x)
  PROVE  CutsMore(n, m, e, x.index)
<1>1. e + 1 - 1 = e
  BY ManagerFacts
<1>2. QED
  BY <1>1 DEF CutsMore, IsInsertion

(* OperateInside carries the accounts and the cuts.                        *)
LEMMA OperateInsideIs ==
  ASSUME NEW m \in Managers, NEW e \in 1..Len(m.entries), NEW start \in Int, NEW end \in Int,
         NEW operation \in Operations,
         m.entries[e].index < start, end < EntryEnd(m, e),
         start < end \/ IsInert(m.entries[e].attributes, operation)
  PROVE  Carries(OperateInside(m, e, start, end, operation), m)
<1>1. PICK original \in Dictionaries : original = m.entries[e].attributes
  BY ManagerFacts
<1>2. PICK changed : changed = OperateOnCopy(m, original, operation)
  OBVIOUS
<1>3. PICK after \in Dictionaries, c \in Managers, b \in BOOLEAN :
        /\ changed = [manager |-> c, dict |-> after, unchanged |-> b] /\ Lends(c, m, after)
        /\ IsInert(original, operation) => b
  BY <1>2, OperateOnCopyIsRecord
<1>4. changed.manager = c /\ changed.dict = after /\ changed.unchanged = b
  BY <1>3
<1>5. OperateInside(m, e, start, end, operation) = OperateInsideBy(e, start, end, original, changed)
  BY <1>1, <1>2 DEF OperateInside
<1>6. CASE b
  <2>1. PICK n : n = Store(c, after)
    OBVIOUS
  <2>2. Balances(n, m) /\ n.entries = m.entries
    BY <1>3, <2>1, StoreGivesBack
  <2>3. OperateInside(m, e, start, end, operation) = n
    BY <1>4, <1>5, <1>6, <2>1 DEF OperateInsideBy
  <2>4. QED
    BY <2>2, <2>3, SameEntriesCarry
<1>7. CASE ~b
  <2>1. start < end
    BY <1>1, <1>3, <1>7
  <2>2. PICK x \in Entry, y \in Entry : x = [index |-> start, attributes |-> after]
                                        /\ y = [index |-> end, attributes |-> original]
    BY DEF Entry
  <2>3. x.index = start /\ x.attributes = after /\ y.index = end /\ y.attributes = original
    BY <2>2
  <2>4. m.entries \in Seq(Entry)
    BY ManagerFacts
  <2>5. PICK M \in Seq(Entry), F \in Seq(Entry) :
          /\ F = SubSeq(m.entries, 1, e) \o <<x, y>> \o SubSeq(m.entries, e + 1, Len(m.entries))
          /\ IsInsertion(M, m.entries, e + 1, x) /\ IsInsertion(F, M, e + 2, y)
    BY <2>4, TwoInsertions
  <2>6. Len(M) = Len(m.entries) + 1 /\ Len(F) = Len(M) + 1
    BY <2>5 DEF IsInsertion
  <2>7. PICK l \in Nat : l = Len(m.entries)
    BY ManagerFacts
  <2>8. e \in 1..l /\ Len(M) = l + 1 /\ Len(F) = l + 2
    BY <2>6, <2>7
  (* First the changed copy becomes an entry.                              *)
  <2>9. PICK half : half = [c EXCEPT !.entries = M]
    OBVIOUS
  <2>10. ASSUME NEW v \in Values PROVE Total(M, v) = Total(m.entries, v) + Count(after, v)
    <3>1. e + 1 \in 1..(Len(m.entries) + 1)
      BY <2>7, <2>8
    <3>2. QED
      BY <2>3, <2>4, <2>5, <3>1, TotalOfInsertion
  <2>11. Balances(half, m) /\ half.entries = M /\ half \in Managers /\ half.length = m.length
    <3>1. Balances(half, m) /\ half.entries = M
      BY <1>3, <2>6, <2>9, <2>10, EntryTakes
    <3>2. QED
      BY <3>1 DEF Balances
  (* Then the copy of the original.                                        *)
  <2>12. PICK d : d = AcquireCopy(c, original)
    OBVIOUS
  <2>13. Lends(d, c, original)
    BY <2>12, AcquireCopyIs
  <2>14. PICK n : n = [d EXCEPT !.entries = F]
    OBVIOUS
  <2>15. OperateInside(m, e, start, end, operation) = n
    <3>1. d.entries = m.entries
      BY <1>3, <2>13 DEF Lends
    <3>2. n = [AcquireCopy(c, original) EXCEPT !.entries =
                 SubSeq(@, 1, e) \o <<[index |-> start, attributes |-> after],
                                      [index |-> end, attributes |-> original]>>
                   \o SubSeq(@, e + 1, Len(@))]
      BY <2>2, <2>5, <2>12, <2>14, <3>1
    <3>3. QED
      BY <1>4, <1>5, <1>7, <3>2 DEF OperateInsideBy
  <2>16. /\ n \in Managers /\ n.entries = F /\ n.length = m.length /\ n.refs = d.refs
         /\ n.cached = d.cached /\ n.created = d.created
    <3>1. d \in Managers /\ d.length = m.length
      BY <1>3, <2>13 DEF Lends
    <3>2. QED
      BY <2>14, <3>1 DEF Managers
  <2>17. Balances(n, m)
    <3>1. Spare(n) = Spare(m)
      <4>1. Spare(d) = Spare(m) + 1 + 1 /\ d.entries = m.entries /\ d \in Managers
        BY <1>3, <2>13 DEF Lends
      <4>2. PICK s \in Int, k \in Nat, q \in Nat : s = Spare(m) /\ k = d.created /\ q = d.cached
        BY <4>1, AccountsAreNumbers, ManagerFacts
      <4>3. k - q - l = s + 1 + 1
        BY <2>7, <4>1, <4>2 DEF Spare
      <4>4. k - q - (l + 2) = s
        BY <4>3
      <4>5. QED
        BY <2>8, <2>16, <4>2, <4>4 DEF Spare
    <3>2. ASSUME NEW v \in Values PROVE Owes(n, v) = Owes(m, v)
      <4>1. Total(F, v) = Total(M, v) + Count(original, v)
        <5>1. e + 2 \in 1..(Len(M) + 1)
          BY <2>8
        <5>2. QED
          BY <2>3, <2>5, <5>1, TotalOfInsertion
      <4>2. Total(M, v) = Total(m.entries, v) + Count(after, v)
        BY <2>10
      <4>3. d \in Managers /\ d.entries = m.entries
        BY <1>3, <2>13 DEF Lends
      <4>4. Owes(d, v) = Owes(m, v) + Count(after, v) + Count(original, v)
        BY <1>3, <2>13 DEF Lends
      <4>5. PICK o \in Int, a \in Int, r \in Int, t \in Int, w \in Int :
              /\ o = Owes(m, v) /\ a = Count(after, v) /\ r = Count(original, v)
              /\ t = Total(m.entries, v) /\ w = d.refs[v]
        <5>1. Owes(m, v) \in Int /\ Total(m.entries, v) \in Int /\ d.refs[v] \in Int
          BY <4>3, AccountsAreNumbers
        <5>2. Count(after, v) \in Int /\ Count(original, v) \in Int
          BY CountIsNat
        <5>3. QED
          BY <5>1, <5>2
      <4>6. w - t = o + a + r
        BY <4>3, <4>4, <4>5 DEF Owes
      <4>7. Total(F, v) = t + a + r
        BY <4>1, <4>2, <4>5
      <4>8. w - (t + a + r) = o
        BY <4>6, SMTT(30)
      <4>9. QED
        BY <2>16, <4>5, <4>7, <4>8 DEF Owes
    <3>3. QED
      BY <2>16, <3>1, <3>2 DEF Balances
  <2>18. ASSUME Cuts(m) PROVE Cuts(n)
    <3>1. EntryEnd(m, e) \in Int /\ start < EntryEnd(m, e)
      <4>1. EntryEnd(m, e) \in Int
        BY EndsAreIndices
      <4>2. QED
        BY <2>1, <4>1
    <3>2. CutsMore(half, m, e, start)
      BY <2>3, <2>5, <2>11, InsertionCutsMore
    <3>3. Cuts(half)
      BY <2>18, <3>1, <3>2, CutsMoreAreCuts
    <3>4. PICK f \in 1..Len(half.entries) : f = e + 1
      BY <2>8, <2>11
    <3>5. half.entries[f].index = start
      BY <3>2, <3>4 DEF CutsMore
    <3>6. EntryEnd(half, f) = EntryEnd(m, e)
      <4>1. CASE e < l
        <5>1. f < Len(half.entries) /\ e + 1 \in (e + 1)..Len(m.entries)
          BY <2>7, <2>8, <2>11, <3>4, <4>1
        <5>2. half.entries[f + 1].index = m.entries[e + 1].index
          BY <3>2, <3>4, <5>1 DEF CutsMore
        <5>3. QED
          BY <2>7, <4>1, <5>1, <5>2 DEF EntryEnd
      <4>2. CASE ~(e < l)
        <5>1. ~(f < Len(half.entries))
          BY <2>8, <2>11, <3>4, <4>2
        <5>2. QED
          BY <2>7, <2>11, <4>2, <5>1 DEF EntryEnd
      <4>3. QED
        BY <4>1, <4>2
    <3>7. CutsMore(n, half, f, end)
      <4>1. f + 1 = e + 2
        BY <3>4
      <4>2. IsInsertion(n.entries, half.entries, f + 1, y) /\ n.length = half.length
        BY <2>5, <2>11, <2>16, <4>1
      <4>3. QED
        BY <2>3, <2>11, <4>2, InsertionCutsMore
    <3>8. QED
      BY <2>1, <2>11, <3>3, <3>5, <3>6, <3>7, CutsMoreAreCuts
  <2>19. QED
    BY <2>15, <2>17, <2>18 DEF Carries
<1>8. QED
  BY <1>6, <1>7

-----------------------------------------------------------------------------
(* The loop of OperateOnward over the entries after the first.             *)

OnwardTurn(env, s, k) ==
  LET entryEnd == EntryEnd(s.manager, k)
  IN  IF s.over THEN s
      ELSE IF entryEnd > env.end
      THEN [s EXCEPT !.manager = Split(@, k, env.end, env.operation, "left").manager,
                     !.over = TRUE]
      ELSE [manager |-> IF s.processed THEN s.manager
                        ELSE OperateOnEntry(s.manager, k, env.operation),
            processed |-> FALSE,
            over |-> entryEnd >= env.end]

(* As long as the end has not been reached, the entries are as many as at  *)
(* the start.                                                              *)
OnwardInv(env, k, s) ==
  /\ s \in [manager : Managers, processed : BOOLEAN, over : BOOLEAN]
  /\ Carries(s.manager, env.manager)
  /\ ~s.over => Len(s.manager.entries) = Len(env.manager.entries)

Onwards == INSTANCE FoldTheorems WITH Op <- OnwardTurn, Inv <- OnwardInv

OnwardFold(env, atStart, from) ==
  Onwards!Folded(env, [manager |-> atStart.manager, processed |-> atStart.split, over |-> FALSE],
                 [k \in 1..(Len(atStart.manager.entries) - from + 1) |-> from + k - 1]).manager

(* The loop of OperateOnward, as the fold that Onwards reasons on.         *)
LEMMA OnwardIsFold ==
  ASSUME NEW atStart, NEW from, NEW env
  PROVE  OperateOnward(atStart, from, env.end, env.operation) = OnwardFold(env, atStart, from)
  BY DEF OperateOnward, OnwardFold, Onwards!Folded, FoldLeft, MapThenFoldSet, Max, Onwards!Max, OnwardTurn

(* Every turn of that loop carries the accounts and the cuts.              *)
LEMMA OnwardStep ==
  ASSUME NEW env, NEW s, NEW j, NEW m \in Managers, env.manager = m,
         NEW operation \in Operations, env.operation = operation,
         NEW end \in Int, env.end = end,
         NEW k \in 1..Len(m.entries), OnwardInv(env, j, s)
  PROVE  OnwardInv(env, j, OnwardTurn(env, s, k))
<1>1. PICK n \in Managers, processed \in BOOLEAN, over \in BOOLEAN :
        s = [manager |-> n, processed |-> processed, over |-> over]
  BY DEF OnwardInv
<1>2. s.manager = n /\ s.processed = processed /\ s.over = over
  BY <1>1
<1>3. Carries(n, m) /\ (~over => Len(n.entries) = Len(m.entries))
  BY <1>2 DEF OnwardInv
<1>4. CASE over
  BY <1>2, <1>4 DEF OnwardTurn
<1>5. CASE ~over /\ EntryEnd(n, k) > end
  <2>1. k \in 1..Len(n.entries)
    BY <1>3, <1>5
  <2>2. PICK p \in Managers, b \in BOOLEAN : IsSplit(Split(n, k, end, operation, "left"), n, p, b)
    BY <2>1, SplitIs
  <2>3. Split(n, k, end, operation, "left").manager = p /\ Carries(p, n)
    BY <2>2 DEF IsSplit
  <2>4. PICK t : t = [s EXCEPT !.manager = p, !.over = TRUE]
    OBVIOUS
  <2>5. OnwardTurn(env, s, k) = t
    BY <1>2, <1>5, <2>3, <2>4 DEF OnwardTurn
  <2>6. t \in [manager : Managers, processed : BOOLEAN, over : BOOLEAN] /\ t.manager = p /\ t.over = TRUE
    BY <2>4 DEF OnwardInv
  <2>7. Carries(p, m)
    BY <1>3, <2>3, CarriesOnward
  <2>8. QED
    BY <2>5, <2>6, <2>7 DEF OnwardInv
<1>6. CASE ~over /\ ~(EntryEnd(n, k) > end)
  <2>1. k \in 1..Len(n.entries)
    BY <1>3, <1>6
  <2>2. PICK p : p = IF processed THEN n ELSE OperateOnEntry(n, k, operation)
    OBVIOUS
  <2>3. p \in Managers /\ Carries(p, n) /\ Len(p.entries) = Len(n.entries)
    <3>1. CASE processed
      BY <2>2, <3>1, BalancesItself DEF Carries
    <3>2. CASE ~processed
      <4>1. Carries(p, n) /\ SameCuts(p, n)
        BY <2>1, <2>2, <3>2, OperateOnEntryIs
      <4>2. QED
        BY <4>1 DEF Carries, Balances, SameCuts
    <3>3. QED
      BY <3>1, <3>2
  <2>4. PICK t : t = [manager |-> p, processed |-> FALSE, over |-> EntryEnd(n, k) >= end]
    OBVIOUS
  <2>6. OnwardTurn(env, s, k) = t
    BY <1>2, <1>6, <2>2, <2>4 DEF OnwardTurn
  <2>7. t \in [manager : Managers, processed : BOOLEAN, over : BOOLEAN] /\ t.manager = p
    <3>1. (EntryEnd(n, k) >= end) \in BOOLEAN
      OBVIOUS
    <3>2. QED
      BY <2>3, <2>4, <3>1
  <2>8. Carries(p, m) /\ Len(p.entries) = Len(m.entries)
    BY <1>3, <1>6, <2>3, CarriesOnward
  <2>9. QED
    BY <2>6, <2>7, <2>8 DEF OnwardInv
<1>7. QED
  BY <1>4, <1>5, <1>6

(* OperateOnward carries the accounts and the cuts.                        *)
LEMMA OperateOnwardIs ==
  ASSUME NEW m \in Managers, NEW b \in BOOLEAN, NEW from \in 1..Len(m.entries), NEW end \in Int,
         NEW operation \in Operations
  PROVE  Carries(OperateOnward([manager |-> m, split |-> b], from, end, operation), m)
<1>1. PICK atStart : atStart = [manager |-> m, split |-> b]
  OBVIOUS
<1>2. atStart.manager = m /\ atStart.split = b
  BY <1>1
<1>3. PICK env : env = [manager |-> m, end |-> end, operation |-> operation]
  OBVIOUS
<1>4. env.manager = m /\ env.end = end /\ env.operation = operation
  BY <1>3
<1>5. PICK l \in Nat : l = Len(m.entries)
  BY ManagerFacts
<1>15. from \in 1..l
  BY <1>5
<1>6. PICK n \in Nat : n = l - from + 1
  <2>1. l - from + 1 \in Nat
    BY <1>15
  <2>2. QED
    BY <2>1
<1>7. PICK places : places = [k \in 1..n |-> from + k - 1]
  OBVIOUS
<1>8. DOMAIN places = 1..n /\ \A k \in 1..n : places[k] \in 1..l
  BY <1>15, <1>6, <1>7
<1>9. PICK base : base = [manager |-> m, processed |-> b, over |-> FALSE]
  OBVIOUS
<1>10. OnwardInv(env, 0, base)
  <2>1. base \in [manager : Managers, processed : BOOLEAN, over : BOOLEAN] /\ base.manager = m
    BY <1>9
  <2>2. Carries(m, m)
    BY BalancesItself DEF Carries
  <2>3. QED
    BY <1>4, <2>1, <2>2 DEF OnwardInv
<1>11. ASSUME NEW k \in 1..n, NEW s, OnwardInv(env, k - 1, s)
       PROVE  OnwardInv(env, k, OnwardTurn(env, s, places[k]))
  <2>1. OnwardInv(env, k, s)
    BY <1>11 DEF OnwardInv
  <2>2. places[k] \in 1..Len(m.entries)
    BY <1>5, <1>8
  <2>3. QED
    BY <1>4, <2>1, <2>2, OnwardStep
<1>12. OnwardInv(env, n, Onwards!Folded(env, base, places))
  BY <1>8, <1>10, <1>11, Onwards!FoldLeftInvariant
<1>13. OperateOnward(atStart, from, end, operation) = Onwards!Folded(env, base, places).manager
  <2>1. places = [k \in 1..(Len(atStart.manager.entries) - from + 1) |-> from + k - 1]
    BY <1>2, <1>5, <1>6, <1>7
  <2>2. base = [manager |-> atStart.manager, processed |-> atStart.split, over |-> FALSE]
    BY <1>2, <1>9
  <2>3. OnwardFold(env, atStart, from) = Onwards!Folded(env, base, places).manager
    BY <2>1, <2>2 DEF OnwardFold
  <2>4. OperateOnward(atStart, from, env.end, env.operation) = OnwardFold(env, atStart, from)
    BY OnwardIsFold
  <2>5. QED
    BY <1>4, <2>3, <2>4
<1>14. QED
  BY <1>1, <1>4, <1>12, <1>13 DEF OnwardInv

(* OperateAcross carries the accounts and the cuts.                        *)
LEMMA OperateAcrossIs ==
  ASSUME NEW m \in Managers, NEW e \in 1..Len(m.entries), NEW start \in Int, NEW end \in Int,
         NEW operation \in Operations
  PROVE  Carries(OperateAcross(m, e, start, end, operation), m)
<1>1. PICK n \in Managers, b \in BOOLEAN : IsSplit(Split(m, e, start, operation, "right"), m, n, b)
  BY SplitIs
<1>2. PICK atStart : atStart = [manager |-> n, split |-> b]
  OBVIOUS
<1>3. Split(m, e, start, operation, "right") = atStart /\ Carries(n, m) /\ atStart.split = b
  BY <1>1, <1>2 DEF IsSplit
<1>4. PICK from : from = IF b THEN e + 1 ELSE e
  OBVIOUS
<1>5. from \in 1..Len(n.entries)
  <2>1. CASE b
    <3>1. Len(n.entries) = Len(m.entries) + 1
      BY <1>1, <2>1 DEF IsSplit
    <3>2. e + 1 \in 1..(Len(m.entries) + 1)
      BY ManagerFacts
    <3>3. QED
      BY <1>4, <2>1, <3>1, <3>2
  <2>2. CASE ~b
    BY <1>1, <1>4, <2>2 DEF IsSplit
  <2>3. QED
    BY <2>1, <2>2
<1>6. OperateAcross(m, e, start, end, operation) = OperateOnward(atStart, from, end, operation)
  BY <1>3, <1>4 DEF OperateAcross
<1>7. Carries(OperateOnward(atStart, from, end, operation), n)
  BY <1>2, <1>5, OperateOnwardIs
<1>8. QED
  BY <1>3, <1>6, <1>7, CarriesOnward

(* Nothing is lost or left over by an operation over a range.  An empty    *)
(* range is harmless where the entry has all that the operation brings.    *)

(* Every operation over a range of the text carries the accounts and the   *)
(* cuts, if the range starts in the text and is not empty, or is none that *)
(* changes the entry it starts in.                                         *)
LEMMA ApplyOperationIs ==
  ASSUME NEW m \in Managers, Cuts(m), NEW start \in 0..(m.length - 1), NEW end \in Int,
         NEW operation \in Operations,
         \/ start < end
         \/ \A e \in 1..Len(m.entries) :
              Covers(m, start, e) /\ m.entries[e].index < start
                 => IsInert(m.entries[e].attributes, operation)
  PROVE  Carries(ApplyOperationOverRange(m, start, end, operation), m)
<1>1. PICK e \in 1..Len(m.entries) : e = FindEntry(m, start) /\ Covers(m, start, e)
  BY FindEntryFinds
<1>2. start \in Int /\ m.entries[e].index \in Int
  BY ManagerFacts
<1>3. CASE start = m.entries[e].index /\ end = EntryEnd(m, e)
  <2>1. ApplyOperationOverRange(m, start, end, operation) = OperateOnEntry(m, e, operation)
    BY <1>1, <1>3 DEF ApplyOperationOverRange
  <2>2. QED
    BY <2>1, OperateOnEntryIs
<1>4. CASE start > m.entries[e].index /\ end < EntryEnd(m, e)
  <2>1. ApplyOperationOverRange(m, start, end, operation) = OperateInside(m, e, start, end, operation)
    BY <1>1, <1>2, <1>4 DEF ApplyOperationOverRange
  <2>2. m.entries[e].index < start
    BY <1>2, <1>4
  <2>3. start < end \/ IsInert(m.entries[e].attributes, operation)
    BY <1>1, <2>2
  <2>4. QED
    BY <1>2, <1>4, <2>1, <2>2, <2>3, OperateInsideIs
<1>5. CASE /\ ~(start = m.entries[e].index /\ end = EntryEnd(m, e))
           /\ ~(start > m.entries[e].index /\ end < EntryEnd(m, e))
  <2>1. ApplyOperationOverRange(m, start, end, operation) = OperateAcross(m, e, start, end, operation)
    BY <1>1, <1>5 DEF ApplyOperationOverRange
  <2>2. QED
    BY <1>2, <2>1, OperateAcrossIs
<1>6. QED
  BY <1>3, <1>4, <1>5

-----------------------------------------------------------------------------
(* Entries are removed: their dictionaries go to the cache, one by one.    *)

StoreTurn(env, s, entry) == Store(s, entry.attributes)

StoreInv(env, k, s) ==
  /\ s \in Managers /\ s.entries = env.manager.entries /\ s.length = env.manager.length
  /\ Spare(s) = Spare(env.manager) - k
  /\ \A v \in Values : Owes(s, v) = Owes(env.manager, v) - TotalTo(env.removed, k, v)

Stores == INSTANCE FoldTheorems WITH Op <- StoreTurn, Inv <- StoreInv

Removed(m, from, count) == SubSeq(m.entries, from, from + count - 1)

RemoveEntriesFold(env, m, from, count) ==
  [Stores!Folded(env, m, Removed(m, from, count)) EXCEPT !.entries =
     SubSeq(@, 1, from - 1) \o SubSeq(@, from + count, Len(@))]

(* The loop of RemoveEntries, as the fold that Stores reasons on.          *)
LEMMA RemoveEntriesIsFold ==
  ASSUME NEW m, NEW from, NEW count, NEW env
  PROVE  RemoveEntries(m, from, count) = RemoveEntriesFold(env, m, from, count)
  BY DEF RemoveEntries, RemoveEntriesFold, Removed, Stores!Folded, FoldLeft, MapThenFoldSet, Max,
         Stores!Max, StoreTurn

(* Some entries of a list, one by one.                                     *)
LEMMA EntriesBetween ==
  ASSUME NEW E \in Seq(Entry), NEW from \in 1..(Len(E) + 1), NEW count \in Nat, from + count <= Len(E) + 1
  PROVE  /\ SubSeq(E, from, from + count - 1) \in Seq(Entry)
         /\ Len(SubSeq(E, from, from + count - 1)) = count
         /\ \A k \in 1..count : SubSeq(E, from, from + count - 1)[k] = E[from - 1 + k]
<1>1. PICK l \in Nat : l = Len(E)
  OBVIOUS
<1>2. PICK last \in Int : last = from + count - 1
  OBVIOUS
<1>3. from \in 1..(l + 1) /\ last \in 0..l /\ from <= last + 1 /\ last - from + 1 = count
  <2>1. from \in 1..(l + 1) /\ from + count <= l + 1
    BY <1>1
  <2>2. QED
    BY <1>2, <2>1
<1>4. PICK s : s = SubSeq(E, from, last)
  OBVIOUS
<1>5. \A k \in from..last : E[k] \in Entry
  <2>1. \A k \in from..last : k \in 1..Len(E)
    BY <1>1, <1>3
  <2>2. QED
    BY <2>1, ElementOfSeq
<1>6. s \in Seq(Entry) /\ Len(s) = last - from + 1
  BY <1>3, <1>4, <1>5, SubSeqProperties
<1>7. ASSUME NEW k \in 1..count PROVE s[k] = E[from - 1 + k]
  <2>1. k \in 1..(last - from + 1)
    BY <1>3
  <2>2. s[k] = E[from + k - 1]
    BY <1>3, <1>4, <1>5, <2>1, SubSeqProperties
  <2>3. from + k - 1 = from - 1 + k
    BY <1>3
  <2>4. QED
    BY <2>2, <2>3
<1>8. QED
  BY <1>2, <1>3, <1>4, <1>6, <1>7

(* RemoveEntries keeps the accounts, and takes out the entries it is for.  *)
LEMMA RemoveEntriesIs ==
  ASSUME NEW m \in Managers, NEW from \in 1..(Len(m.entries) + 1), NEW count \in Nat,
         from + count <= Len(m.entries) + 1
  PROVE  /\ Balances(RemoveEntries(m, from, count), m)
         /\ IsReplaced(RemoveEntries(m, from, count).entries, m.entries, from - 1, <<>>, from + count)
<1>1. PICK E \in Seq(Entry) : E = m.entries
  BY ManagerFacts
<1>2. PICK l \in Nat : l = Len(E)
  OBVIOUS
<1>3. from \in 1..(l + 1) /\ from + count <= l + 1
  BY <1>1, <1>2
<1>4. PICK removed : removed = Removed(m, from, count)
  OBVIOUS
<1>5. /\ removed \in Seq(Entry) /\ Len(removed) = count
      /\ \A k \in 1..count : removed[k] = E[from - 1 + k]
  BY <1>1, <1>2, <1>3, <1>4, EntriesBetween DEF Removed
<1>6. PICK env : env = [manager |-> m, removed |-> removed]
  OBVIOUS
<1>7. env.manager = m /\ env.removed = removed
  BY <1>6
<1>8. DOMAIN removed = 1..count
  BY <1>5
<1>9. StoreInv(env, 0, m)
  <2>1. Spare(m) = Spare(m) - 0
    BY AccountsAreNumbers
  <2>2. ASSUME NEW v \in Values PROVE Owes(m, v) = Owes(m, v) - TotalTo(removed, 0, v)
    BY AccountsAreNumbers, TotalOfNone
  <2>3. QED
    BY <1>7, <2>1, <2>2 DEF StoreInv
<1>10. ASSUME NEW k \in 1..count, NEW s, StoreInv(env, k - 1, s)
       PROVE  StoreInv(env, k, StoreTurn(env, s, removed[k]))
  <2>1. PICK dict \in Dictionaries : dict = removed[k].attributes
    <3>1. removed[k] \in Entry
      BY <1>5, ElementOfSeq
    <3>2. QED
      BY <3>1 DEF Entry
  <2>2. /\ s \in Managers /\ s.entries = m.entries /\ s.length = m.length
        /\ Spare(s) = Spare(m) - (k - 1)
        /\ \A v \in Values : Owes(s, v) = Owes(m, v) - TotalTo(removed, k - 1, v)
    BY <1>7, <1>10 DEF StoreInv
  <2>3. PICK t : t = Store(s, dict)
    OBVIOUS
  <2>4. /\ t \in Managers /\ t.entries = s.entries /\ t.length = s.length
        /\ Spare(t) = Spare(s) - 1
        /\ \A v \in Values : Owes(t, v) = Owes(s, v) - Count(dict, v)
    BY <2>2, <2>3, StoreIs
  <2>5. Spare(t) = Spare(m) - k
    <3>1. PICK x \in Int : x = Spare(m)
      BY AccountsAreNumbers
    <3>2. Spare(t) = x - (k - 1) - 1
      BY <2>2, <2>4, <3>1
    <3>3. x - (k - 1) - 1 = x - k
      OBVIOUS
    <3>4. QED
      BY <3>1, <3>2, <3>3
  <2>6. ASSUME NEW v \in Values PROVE Owes(t, v) = Owes(m, v) - TotalTo(removed, k, v)
    <3>1. PICK j \in Nat : j = k - 1 /\ j + 1 = k
      OBVIOUS
    <3>2. TotalTo(removed, j + 1, v) = TotalTo(removed, j, v) + Count(removed[j + 1].attributes, v)
      BY TotalStep
    <3>3. PICK o \in Int, a \in Int, c \in Int : o = Owes(m, v) /\ a = TotalTo(removed, j, v) /\ c = Count(dict, v)
      BY AccountsAreNumbers, TotalIsNat, CountIsNat
    <3>4. TotalTo(removed, k, v) = a + c /\ Owes(t, v) = (o - a) - c
      BY <2>1, <2>2, <2>4, <3>1, <3>2, <3>3
    <3>5. (o - a) - c = o - (a + c)
      OBVIOUS
    <3>6. QED
      BY <3>3, <3>4, <3>5
  <2>7. StoreInv(env, k, t)
    BY <1>7, <2>2, <2>4, <2>5, <2>6 DEF StoreInv
  <2>8. QED
    BY <2>1, <2>3, <2>7 DEF StoreTurn
<1>11. PICK s : s = Stores!Folded(env, m, removed)
  OBVIOUS
<1>12. StoreInv(env, count, s)
  BY <1>8, <1>9, <1>10, <1>11, Stores!FoldLeftInvariant
<1>13. /\ s \in Managers /\ s.entries = E /\ s.length = m.length
       /\ Spare(s) = Spare(m) - count
       /\ \A v \in Values : Owes(s, v) = Owes(m, v) - Total(removed, v)
  BY <1>1, <1>5, <1>7, <1>12 DEF StoreInv, Total
<1>14. PICK a \in Nat, b \in Nat : a = from - 1 /\ b = from + count /\ a < b /\ b <= l + 1
  <2>1. from - 1 \in Nat /\ from + count \in Nat /\ from - 1 < from + count
    BY <1>3
  <2>2. QED
    BY <1>3, <2>1
<1>15. PICK F : F = SubSeq(E, 1, a) \o SubSeq(E, b, Len(E))
  OBVIOUS
<1>16. F \in Seq(Entry) /\ IsReplaced(F, E, a, <<>>, b)
  BY <1>2, <1>14, <1>15, JoinedIs
<1>17. PICK n : n = [s EXCEPT !.entries = F]
  OBVIOUS
<1>18. RemoveEntries(m, from, count) = n
  <2>1. n = RemoveEntriesFold(env, m, from, count)
    BY <1>4, <1>11, <1>13, <1>14, <1>15, <1>17 DEF RemoveEntriesFold
  <2>2. QED
    BY <2>1, RemoveEntriesIsFold
<1>19. /\ n \in Managers /\ n.entries = F /\ n.length = m.length /\ n.refs = s.refs
       /\ n.cached = s.cached /\ n.created = s.created
  BY <1>13, <1>16, <1>17 DEF Managers
<1>20. Len(F) = l - count
  <2>1. Len(F) = a + 0 + (l - b + 1)
    BY <1>2, <1>16 DEF IsReplaced
  <2>2. a + 0 + (l - b + 1) = l - count
    BY <1>3, <1>14
  <2>3. QED
    BY <2>1, <2>2
<1>21. Spare(n) = Spare(m)
  <2>1. PICK x \in Int, k \in Nat, q \in Nat : x = Spare(m) /\ k = s.created /\ q = s.cached
    BY <1>13, AccountsAreNumbers, ManagerFacts
  <2>2. k - q - l = x - count
    BY <1>2, <1>13, <2>1 DEF Spare
  <2>3. k - q - (l - count) = x
    BY <2>2
  <2>4. QED
    BY <1>19, <1>20, <2>1, <2>3 DEF Spare
<1>22. ASSUME NEW v \in Values PROVE Owes(n, v) = Owes(m, v)
  <2>1. /\ Total(F, v) \in Nat /\ Total(E, v) \in Nat
        /\ TotalTo(E, b - 1, v) \in Nat /\ TotalTo(E, a, v) \in Nat
        /\ Total(F, v) = Total(E, v) - (TotalTo(E, b - 1, v) - TotalTo(E, a, v)) + Total(<<>>, v)
    <3>1. PICK none \in Seq(Entry) : none = <<>>
      BY EmptySeq
    <3>2. IsReplaced(F, E, a, none, b) /\ a < b /\ b <= Len(E) + 1
      BY <1>2, <1>14, <1>16, <3>1
    <3>3. /\ Total(F, v) \in Nat /\ Total(E, v) \in Nat
          /\ TotalTo(E, b - 1, v) \in Nat /\ TotalTo(E, a, v) \in Nat
          /\ Total(F, v) = Total(E, v) - (TotalTo(E, b - 1, v) - TotalTo(E, a, v)) + Total(none, v)
      BY <3>2, TotalOfReplaced
    <3>4. QED
      BY <3>1, <3>3
  <2>2. TotalTo(removed, 0 + count, v) - TotalTo(removed, 0, v) = TotalTo(E, a + count, v) - TotalTo(E, a, v)
    <3>1. AgreeOver(removed, 0, E, a, count)
      BY <1>5, <1>14 DEF AgreeOver
    <3>2. GrowAlike(removed, 0, E, a, count, v)
      BY <3>1, TotalsGrowAlike
    <3>3. QED
      BY <3>2 DEF GrowAlike
  <2>3. a + count = b - 1 /\ 0 + count = count
    BY <1>3, <1>14
  <2>4. PICK f \in Nat, e \in Nat, g \in Nat, h \in Nat, r \in Nat :
          /\ f = Total(F, v) /\ e = Total(E, v) /\ g = TotalTo(E, b - 1, v) /\ h = TotalTo(E, a, v)
          /\ r = Total(removed, v)
    <3>1. Total(removed, v) \in Nat
      BY <1>5, TotalIsNat DEF Total
    <3>2. QED
      BY <2>1, <3>1
  <2>5. TotalTo(removed, 0, v) = 0 /\ TotalTo(removed, count, v) = r
    BY <1>5, <2>4, TotalOfNone DEF Total
  <2>6. r - 0 = g - h
    BY <2>2, <2>3, <2>4, <2>5
  <2>7. f = e - (g - h) + 0
    BY <2>1, <2>4, TotalOfEmpty
  <2>8. f = e - r
    BY <2>6, <2>7
  <2>9. PICK w \in Int, o \in Int : w = s.refs[v] /\ o = Owes(m, v)
    BY <1>13, AccountsAreNumbers
  <2>10. w - e = o - r
    BY <1>13, <2>4, <2>9 DEF Owes
  <2>11. w - f = o
    BY <2>8, <2>10
  <2>12. QED
    BY <1>19, <2>4, <2>9, <2>11 DEF Owes
<1>23. Balances(n, m)
  BY <1>19, <1>21, <1>22 DEF Balances
<1>24. QED
  BY <1>1, <1>14, <1>16, <1>18, <1>19, <1>23

-----------------------------------------------------------------------------
(* A text is copied, and the one it was made from is released.             *)

CopyTurn(env, s, entry) == AcquireCopy(s, entry.attributes)

CopyInv(env, k, s) ==
  /\ s \in Managers /\ s.entries = env.manager.entries /\ s.length = env.manager.length
  /\ Spare(s) = Spare(env.manager) + k
  /\ \A v \in Values : Owes(s, v) = Owes(env.manager, v) + TotalTo(env.copied, k, v)

Copies == INSTANCE FoldTheorems WITH Op <- CopyTurn, Inv <- CopyInv

FinalizeTurn(env, r, entry) == ReleaseAll(r, entry.attributes)

FinalizeInv(env, k, r) ==
  /\ r \in References
  /\ \A v \in Values : r[v] = env.refs[v] - TotalTo(env.entries, k, v)

Finalizes == INSTANCE FoldTheorems WITH Op <- FinalizeTurn, Inv <- FinalizeInv

EmptiedCopy(refs) == RemoveEntries([Initialized EXCEPT !.refs = refs], 1, 1)

CopyFold(env, source, refs) ==
  [Copies!Folded(env, EmptiedCopy(refs), source.entries) EXCEPT
     !.entries = source.entries, !.length = source.length]

(* The loop of CopyAttributes, as the fold that Copies reasons on.         *)
LEMMA CopyAttributesIsFold ==
  ASSUME NEW source, NEW refs, NEW env
  PROVE  CopyAttributes(source, refs) = CopyFold(env, source, refs)
  BY DEF CopyAttributes, CopyFold, EmptiedCopy, Copies!Folded, FoldLeft, MapThenFoldSet, Max,
         Copies!Max, CopyTurn

(* The loop of RefsAfterFinalize, as the fold that Finalizes reasons on.   *)
LEMMA FinalizeIsFold ==
  ASSUME NEW m, NEW refs, NEW env
  PROVE  RefsAfterFinalize(m, refs) = Finalizes!Folded(env, refs, m.entries)
  BY DEF RefsAfterFinalize, Finalizes!Folded, FoldLeft, MapThenFoldSet, Max, Finalizes!Max, FinalizeTurn

(* A finalized manager has given back what its entries held.               *)
LEMMA FinalizeIs ==
  ASSUME NEW m \in Managers, NEW refs \in References
  PROVE  /\ RefsAfterFinalize(m, refs) \in References
         /\ \A v \in Values : RefsAfterFinalize(m, refs)[v] = refs[v] - Total(m.entries, v)
<1>1. PICK E \in Seq(Entry) : E = m.entries
  BY ManagerFacts
<1>2. PICK l \in Nat : l = Len(E) /\ DOMAIN E = 1..l
  OBVIOUS
<1>3. PICK env : env = [refs |-> refs, entries |-> E]
  OBVIOUS
<1>4. env.refs = refs /\ env.entries = E
  BY <1>3
<1>5. FinalizeInv(env, 0, refs)
  <2>1. \A v \in Values : refs[v] = refs[v] - TotalTo(E, 0, v)
    BY TotalOfNone DEF References
  <2>2. QED
    BY <1>4, <2>1 DEF FinalizeInv
<1>6. ASSUME NEW k \in 1..l, NEW r, FinalizeInv(env, k - 1, r)
      PROVE  FinalizeInv(env, k, FinalizeTurn(env, r, E[k]))
  <2>1. PICK dict \in Dictionaries : dict = E[k].attributes
    <3>1. E[k] \in Entry
      BY <1>2, ElementOfSeq
    <3>2. QED
      BY <3>1 DEF Entry
  <2>2. r \in References /\ \A v \in Values : r[v] = refs[v] - TotalTo(E, k - 1, v)
    BY <1>4, <1>6 DEF FinalizeInv
  <2>3. PICK s : s = ReleaseAll(r, dict)
    OBVIOUS
  <2>4. s \in References /\ \A v \in Values : s[v] = r[v] - Count(dict, v)
    BY <2>2, <2>3, ReleaseAllIs
  <2>5. ASSUME NEW v \in Values PROVE s[v] = refs[v] - TotalTo(E, k, v)
    <3>1. PICK j \in Nat : j = k - 1 /\ j + 1 = k
      OBVIOUS
    <3>2. TotalTo(E, j + 1, v) = TotalTo(E, j, v) + Count(E[j + 1].attributes, v)
      BY TotalStep
    <3>3. PICK o \in Int, a \in Int, c \in Int : o = refs[v] /\ a = TotalTo(E, j, v) /\ c = Count(dict, v)
      <4>1. refs[v] \in Int
        BY DEF References
      <4>2. QED
        BY <4>1, TotalIsNat, CountIsNat
    <3>4. TotalTo(E, k, v) = a + c /\ s[v] = (o - a) - c
      BY <2>1, <2>2, <2>4, <3>1, <3>2, <3>3
    <3>5. (o - a) - c = o - (a + c)
      OBVIOUS
    <3>6. QED
      BY <3>3, <3>4, <3>5
  <2>6. FinalizeInv(env, k, s)
    BY <1>4, <2>4, <2>5 DEF FinalizeInv
  <2>7. QED
    BY <2>1, <2>3, <2>6 DEF FinalizeTurn
<1>7. FinalizeInv(env, l, Finalizes!Folded(env, refs, E))
  BY <1>2, <1>5, <1>6, Finalizes!FoldLeftInvariant
<1>8. FinalizeInv(env, l, RefsAfterFinalize(m, refs))
  BY <1>1, <1>7, FinalizeIsFold
<1>9. QED
  BY <1>1, <1>2, <1>4, <1>8 DEF FinalizeInv, Total

(* At first nothing is retained.                                           *)
LEMMA NoneRetainedIs ==
  NoneRetained \in References /\ \A v \in Values : NoneRetained[v] = 0
  BY DEF NoneRetained, References

(* A new manager has one entry and owes what the references say.           *)
LEMMA InitializedIs ==
  ASSUME NEW refs \in References
  PROVE  \E m \in Managers :
           /\ m = [Initialized EXCEPT !.refs = refs]
           /\ Len(m.entries) = 1 /\ m.entries[1].index = 0 /\ m.length = 0
           /\ Spare(m) = 0 /\ \A v \in Values : Owes(m, v) = refs[v]
<1>1. PICK none \in Dictionaries : none = <<>> /\ \A v : Count(none, v) = 0
  BY EmptyDictionary
<1>2. PICK x : x = [index |-> 0, attributes |-> none]
  OBVIOUS
<1>3. x \in Entry /\ x.index = 0 /\ x.attributes = none
  BY <1>2 DEF Entry
<1>4. PICK E : E = <<x>>
  OBVIOUS
<1>5. E \in Seq(Entry) /\ Len(E) = 1 /\ E[1] = x
  BY <1>3, <1>4
<1>6. PICK m : m = [entries |-> E, length |-> 0, cached |-> 0, created |-> 1, refs |-> refs]
  OBVIOUS
<1>7. m = [Initialized EXCEPT !.refs = refs]
  BY <1>1, <1>2, <1>4, <1>6 DEF Initialized
<1>8. /\ m \in Managers /\ m.entries = E /\ m.length = 0 /\ m.cached = 0 /\ m.created = 1
      /\ m.refs = refs
  BY <1>5, <1>6 DEF Managers
<1>9. Spare(m) = 0
  BY <1>5, <1>8 DEF Spare
<1>10. ASSUME NEW v \in Values PROVE Owes(m, v) = refs[v]
  <2>1. Total(E, v) = 0
    BY <1>1, <1>3, <1>4, TotalOfOne
  <2>2. refs[v] \in Int
    BY DEF References
  <2>3. QED
    BY <1>8, <2>1, <2>2 DEF Owes
<1>11. QED
  BY <1>3, <1>5, <1>7, <1>8, <1>9, <1>10

(* The copy before its first entry.                                        *)
LEMMA EmptiedCopyIs ==
  ASSUME NEW refs \in References
  PROVE  /\ EmptiedCopy(refs) \in Managers /\ EmptiedCopy(refs).entries = <<>>
         /\ Spare(EmptiedCopy(refs)) = 0
         /\ \A v \in Values : Owes(EmptiedCopy(refs), v) = refs[v]
<1>1. PICK m \in Managers :
        /\ m = [Initialized EXCEPT !.refs = refs]
        /\ Len(m.entries) = 1
        /\ Spare(m) = 0 /\ \A v \in Values : Owes(m, v) = refs[v]
  BY InitializedIs
<1>2. PICK n : n = RemoveEntries(m, 1, 1)
  OBVIOUS
<1>3. Balances(n, m) /\ IsReplaced(n.entries, m.entries, 1 - 1, <<>>, 1 + 1)
  <2>1. Len(m.entries) = 1
    BY <1>1
  <2>2. 1 \in 1..(Len(m.entries) + 1) /\ 1 + 1 <= Len(m.entries) + 1
    BY <2>1
  <2>3. QED
    BY <1>2, <2>2, RemoveEntriesIs
<1>4. Len(n.entries) = 0
  <2>1. Len(<<>>) = 0 /\ Len(n.entries) = 1 - 1 + Len(<<>>) + (Len(m.entries) - (1 + 1) + 1)
    BY <1>3 DEF IsReplaced
  <2>2. QED
    BY <1>1, <2>1
<1>5. n \in Managers /\ n.entries = <<>>
  <2>1. n \in Managers
    BY <1>3 DEF Balances
  <2>2. n.entries \in Seq(Entry)
    BY <2>1, ManagerFacts
  <2>3. QED
    BY <1>4, <2>1, <2>2, EmptySeq
<1>6. Spare(n) = 0 /\ \A v \in Values : Owes(n, v) = refs[v]
  BY <1>1, <1>3 DEF Balances
<1>7. QED
  BY <1>1, <1>2, <1>5, <1>6 DEF EmptiedCopy

(* The copy owes what its original owed.                                   *)
LEMMA CopyTextIs ==
  ASSUME NEW m \in Managers, Spare(m) = 0
  PROVE  LET copy == CopyAttributes(m, m.refs)
             n == [copy EXCEPT !.refs = RefsAfterFinalize(m, @)]
         IN  Balances(n, m) /\ n.entries = m.entries
<1>1. PICK E \in Seq(Entry) : E = m.entries
  BY ManagerFacts
<1>2. PICK l \in Nat : l = Len(E) /\ DOMAIN E = 1..l
  OBVIOUS
<1>3. PICK refs \in References : refs = m.refs
  BY ManagerFacts
<1>4. PICK b \in Managers : /\ b = EmptiedCopy(refs) /\ b.entries = <<>>
                            /\ Spare(b) = 0 /\ \A v \in Values : Owes(b, v) = refs[v]
  BY EmptiedCopyIs
<1>5. PICK env : env = [manager |-> b, copied |-> E]
  OBVIOUS
<1>6. env.manager = b /\ env.copied = E
  BY <1>5
<1>7. CopyInv(env, 0, b)
  <2>1. Spare(b) = Spare(b) + 0
    BY AccountsAreNumbers
  <2>2. ASSUME NEW v \in Values PROVE Owes(b, v) = Owes(b, v) + TotalTo(E, 0, v)
    BY AccountsAreNumbers, TotalOfNone
  <2>3. QED
    BY <1>6, <2>1, <2>2 DEF CopyInv
<1>8. ASSUME NEW k \in 1..l, NEW s, CopyInv(env, k - 1, s)
      PROVE  CopyInv(env, k, CopyTurn(env, s, E[k]))
  <2>1. PICK dict \in Dictionaries : dict = E[k].attributes
    <3>1. E[k] \in Entry
      BY <1>2, ElementOfSeq
    <3>2. QED
      BY <3>1 DEF Entry
  <2>2. /\ s \in Managers /\ s.entries = b.entries /\ s.length = b.length
        /\ Spare(s) = Spare(b) + (k - 1)
        /\ \A v \in Values : Owes(s, v) = Owes(b, v) + TotalTo(E, k - 1, v)
    BY <1>6, <1>8 DEF CopyInv
  <2>3. PICK t : t = AcquireCopy(s, dict)
    OBVIOUS
  <2>4. Lends(t, s, dict)
    BY <2>2, <2>3, AcquireCopyIs
  <2>5. Spare(t) = Spare(b) + k
    <3>1. Spare(t) = 0 + (k - 1) + 1
      BY <1>4, <2>2, <2>4 DEF Lends
    <3>2. 0 + (k - 1) + 1 = 0 + k
      OBVIOUS
    <3>3. QED
      BY <1>4, <3>1, <3>2
  <2>6. ASSUME NEW v \in Values PROVE Owes(t, v) = Owes(b, v) + TotalTo(E, k, v)
    <3>1. PICK j \in Nat : j = k - 1 /\ j + 1 = k
      OBVIOUS
    <3>2. TotalTo(E, j + 1, v) = TotalTo(E, j, v) + Count(E[j + 1].attributes, v)
      BY TotalStep
    <3>3. PICK o \in Int, a \in Int, c \in Int : o = Owes(b, v) /\ a = TotalTo(E, j, v) /\ c = Count(dict, v)
      BY AccountsAreNumbers, TotalIsNat, CountIsNat
    <3>4. TotalTo(E, k, v) = a + c /\ Owes(t, v) = (o + a) + c
      BY <2>1, <2>2, <2>4, <3>1, <3>2, <3>3 DEF Lends
    <3>5. (o + a) + c = o + (a + c)
      OBVIOUS
    <3>6. QED
      BY <3>3, <3>4, <3>5
  <2>7. CopyInv(env, k, t)
    BY <1>6, <2>2, <2>4, <2>5, <2>6 DEF CopyInv, Lends
  <2>8. QED
    BY <2>1, <2>3, <2>7 DEF CopyTurn
<1>9. PICK s : s = Copies!Folded(env, b, E)
  OBVIOUS
<1>10. CopyInv(env, l, s)
  BY <1>2, <1>7, <1>8, <1>9, Copies!FoldLeftInvariant
<1>11. /\ s \in Managers /\ s.entries = <<>> /\ Spare(s) = 0 + l
       /\ \A v \in Values : Owes(s, v) = refs[v] + Total(E, v)
  BY <1>2, <1>4, <1>6, <1>10 DEF CopyInv, Total
<1>12. PICK c : c = [s EXCEPT !.entries = E, !.length = m.length]
  OBVIOUS
<1>13. CopyAttributes(m, m.refs) = c
  <2>1. CopyFold(env, m, refs) = c
    BY <1>1, <1>4, <1>9, <1>12 DEF CopyFold
  <2>2. QED
    BY <1>3, <2>1, CopyAttributesIsFold
<1>14. c.refs = s.refs /\ c.refs \in References
  <2>1. c.refs = s.refs
    BY <1>11, <1>12 DEF Managers
  <2>2. QED
    BY <1>11, <2>1, ManagerFacts
<1>15. PICK after \in References : after = RefsAfterFinalize(m, c.refs)
  BY <1>14, FinalizeIs
<1>16. \A v \in Values : after[v] = s.refs[v] - Total(E, v)
  BY <1>1, <1>14, <1>15, FinalizeIs
<1>17. PICK n : n = [c EXCEPT !.refs = after]
  OBVIOUS
<1>18. /\ n \in Managers /\ n.entries = E /\ n.length = m.length /\ n.refs = after
       /\ n.cached = s.cached /\ n.created = s.created
  BY <1>11, <1>12, <1>17, ManagerFacts DEF Managers
<1>19. Spare(n) = Spare(m)
  <2>1. PICK k \in Nat, q \in Nat : k = s.created /\ q = s.cached
    BY <1>11, ManagerFacts
  <2>2. Len(<<>>) = 0
    OBVIOUS
  <2>3. k - q - 0 = 0 + l
    BY <1>11, <2>1, <2>2 DEF Spare
  <2>4. k - q - l = 0
    BY <2>3
  <2>5. QED
    BY <1>2, <1>18, <2>1, <2>4 DEF Spare
<1>20. ASSUME NEW v \in Values PROVE Owes(n, v) = Owes(m, v)
  <2>1. PICK t \in Int, w \in Int, r \in Int : t = Total(E, v) /\ w = s.refs[v] /\ r = refs[v]
    <3>1. Total(E, v) \in Int
      BY <1>2, TotalIsNat DEF Total
    <3>2. s.refs[v] \in Int /\ refs[v] \in Int
      BY <1>11, AccountsAreNumbers DEF References
    <3>3. QED
      BY <3>1, <3>2
  <2>2. w - 0 = r + t
    BY <1>11, <2>1, TotalOfEmpty DEF Owes
  <2>3. after[v] = w - t
    BY <1>16, <2>1
  <2>4. w - t - t = r - t
    BY <2>2
  <2>5. QED
    BY <1>1, <1>3, <1>18, <2>1, <2>3, <2>4 DEF Owes
<1>21. Balances(n, m)
  BY <1>18, <1>19, <1>20 DEF Balances
<1>22. n = [CopyAttributes(m, m.refs) EXCEPT !.refs = RefsAfterFinalize(m, @)]
  BY <1>13, <1>15, <1>17
<1>23. QED
  BY <1>1, <1>18, <1>21, <1>22

-----------------------------------------------------------------------------
(* Entries that only move.                                                 *)

(* The accounts of n are those of m; its length may be another.            *)
SameBooks(n, m) ==
  n \in Managers /\ Spare(n) = Spare(m) /\ \A v \in Values : Owes(n, v) = Owes(m, v)

(* To balance is to have the same books and the same length.               *)
LEMMA BalancesIsSameBooks ==
  ASSUME NEW m, NEW n
  PROVE  Balances(n, m) <=> SameBooks(n, m) /\ n.length = m.length
  BY DEF Balances, SameBooks

(* Books that two steps keep, both keep together.                          *)
LEMMA SameBooksOnward ==
  ASSUME NEW m, NEW n, NEW p, SameBooks(n, m), SameBooks(p, n)
  PROVE  SameBooks(p, m)
  BY DEF SameBooks

(* Entries that start elsewhere keep the books.                            *)
LEMMA MovedIs ==
  ASSUME NEW m \in Managers, NEW E \in Seq(Entry), NEW length \in Nat, Len(E) = Len(m.entries),
         \A k \in 1..Len(m.entries) : E[k].attributes = m.entries[k].attributes
  PROVE  LET n == [m EXCEPT !.entries = E, !.length = length]
         IN  SameBooks(n, m) /\ n.entries = E /\ n.length = length
<1>1. PICK n : n = [m EXCEPT !.entries = E, !.length = length]
  OBVIOUS
<1>2. /\ n \in Managers /\ n.entries = E /\ n.length = length /\ n.refs = m.refs
      /\ n.cached = m.cached /\ n.created = m.created
  BY <1>1 DEF Managers
<1>3. Spare(n) = Spare(m)
  BY <1>2 DEF Spare
<1>4. ASSUME NEW v \in Values PROVE Owes(n, v) = Owes(m, v)
  <2>1. PICK k \in Nat : k = Len(m.entries)
    BY ManagerFacts
  <2>2. TotalTo(E, k, v) = TotalTo(m.entries, k, v)
    <3>1. PICK F : F = m.entries
      OBVIOUS
    <3>2. \A j \in 1..k : E[j].attributes = F[j].attributes
      BY <2>1, <3>1
    <3>3. TotalTo(E, k, v) = TotalTo(F, k, v)
      BY <3>2, TotalsAlike
    <3>4. QED
      BY <3>1, <3>3
  <2>3. Total(E, v) = Total(m.entries, v)
    BY <2>1, <2>2 DEF Total
  <2>4. QED
    BY <1>2, <2>3 DEF Owes
<1>5. SameBooks(n, m)
  BY <1>2, <1>3, <1>4 DEF SameBooks
<1>6. QED
  BY <1>1, <1>2, <1>5

(* The entries from `from` on are moved by delta.                          *)
IsShifted(n, m, from, delta) ==
  /\ Len(n.entries) = Len(m.entries)
  /\ \A k \in 1..Len(m.entries) :
        n.entries[k].index = IF k < from THEN m.entries[k].index ELSE m.entries[k].index + delta

(* ShiftEntries moves the entries and keeps the books.                     *)
LEMMA ShiftIs ==
  ASSUME NEW m \in Managers, NEW from \in Int, NEW delta \in Int, m.length + delta \in Nat
  PROVE  LET n == [ShiftEntries(m, from, delta) EXCEPT !.length = @ + delta]
         IN  SameBooks(n, m) /\ n.length = m.length + delta /\ IsShifted(n, m, from, delta)
<1>1. PICK E \in Seq(Entry) : E = m.entries
  BY ManagerFacts
<1>2. PICK l \in Nat : l = Len(E) /\ DOMAIN E = 1..l
  OBVIOUS
<1>3. PICK F : F = [e \in 1..l |-> [E[e] EXCEPT !.index = IF e < from THEN @ ELSE @ + delta]]
  OBVIOUS
<1>4. ASSUME NEW e \in 1..l
      PROVE  /\ F[e] \in Entry /\ F[e].attributes = E[e].attributes
             /\ F[e].index = IF e < from THEN E[e].index ELSE E[e].index + delta
  <2>1. E[e] \in Entry
    BY <1>2, ElementOfSeq
  <2>2. E[e].index \in Int
    BY <2>1 DEF Entry
  <2>3. PICK i \in Int : i = IF e < from THEN E[e].index ELSE E[e].index + delta
    BY <1>2, <2>2
  <2>4. F[e] = [E[e] EXCEPT !.index = i]
    BY <1>3, <2>3
  <2>5. F[e] \in Entry /\ F[e].attributes = E[e].attributes /\ F[e].index = i
    BY <2>1, <2>4 DEF Entry
  <2>6. QED
    BY <2>3, <2>5
<1>5. F \in Seq(Entry) /\ Len(F) = l
  <2>1. F \in [1..l -> Entry]
    BY <1>3, <1>4
  <2>2. QED
    BY <2>1
<1>6. PICK length \in Nat : length = m.length + delta
  OBVIOUS
<1>7. PICK n : n = [m EXCEPT !.entries = F, !.length = length]
  OBVIOUS
<1>8. SameBooks(n, m) /\ n.entries = F /\ n.length = length
  <2>1. Len(F) = Len(m.entries) /\ \A k \in 1..Len(m.entries) : F[k].attributes = m.entries[k].attributes
    BY <1>1, <1>2, <1>4, <1>5
  <2>2. QED
    BY <1>5, <1>7, <2>1, MovedIs
<1>9. [ShiftEntries(m, from, delta) EXCEPT !.length = @ + delta] = n
  <2>1. ShiftEntries(m, from, delta) = [m EXCEPT !.entries = F]
    BY <1>1, <1>2, <1>3 DEF ShiftEntries
  <2>2. PICK s : s = [m EXCEPT !.entries = F]
    OBVIOUS
  <2>3. s.length = m.length
    BY <2>2 DEF Managers
  <2>4. [s EXCEPT !.length = @ + delta] = [s EXCEPT !.length = length]
    BY <1>6, <2>3
  <2>5. [s EXCEPT !.length = length] = n
    BY <1>7, <2>2 DEF Managers
  <2>6. QED
    BY <2>1, <2>2, <2>4, <2>5
<1>10. IsShifted(n, m, from, delta)
  BY <1>1, <1>2, <1>4, <1>5, <1>8 DEF IsShifted
<1>11. QED
  BY <1>6, <1>8, <1>9, <1>10

-----------------------------------------------------------------------------
(* The entries that a replaced range covers are removed.                   *)

(* Which entries are covered.                                              *)
LEMMA CoveredAre ==
  ASSUME NEW m \in Managers, Cuts(m), NEW first \in 1..Len(m.entries), NEW end \in 0..m.length,
         EntryEnd(m, first) < end
  PROVE  \E next \in (first + 1)..(Len(m.entries) + 1) :
           /\ {e \in (first + 1)..Len(m.entries) : EntryEnd(m, e) <= end} = (first + 1)..(next - 1)
           /\ Cardinality((first + 1)..(next - 1)) = next - first - 1
           /\ next <= Len(m.entries) => m.entries[next].index <= end /\ end < EntryEnd(m, next)
           /\ next = Len(m.entries) + 1 => end = m.length
<1>1. PICK l \in Nat : l = Len(m.entries)
  BY ManagerFacts
<1>2. first \in 1..l /\ end \in Int /\ m.length \in Nat /\ end \in 0..m.length
  BY <1>1, ManagerFacts
<1>3. \A e \in 1..l : EntryEnd(m, e) \in Int
  BY <1>1, EndsAreIndices
<1>4. CASE end < m.length
  <2>1. end \in 0..(m.length - 1)
    BY <1>2, <1>4
  <2>2. PICK c : Covers(m, end, c)
    BY <2>1, CoverExists
  <2>3. c \in 1..l /\ m.entries[c].index <= end /\ end < EntryEnd(m, c)
    BY <1>1, <2>2 DEF Covers
  <2>4. \A e \in 1..l : end >= EntryEnd(m, e) <=> e < c
    BY <1>1, <1>2, <2>2, CoverDivides
  <2>5. first < c
    BY <1>2, <1>3, <2>4
  <2>6. {e \in (first + 1)..l : EntryEnd(m, e) <= end} = (first + 1)..(c - 1)
    <3>1. \A e \in 1..l : EntryEnd(m, e) <= end <=> e < c
      BY <1>2, <1>3, <2>4
    <3>2. \A e \in (first + 1)..l : e \in 1..l
      BY <1>2
    <3>3. \A e : e \in (first + 1)..l /\ e < c <=> e \in (first + 1)..(c - 1)
      BY <1>2, <2>3
    <3>4. QED
      BY <3>1, <3>2, <3>3
  <2>7. Cardinality((first + 1)..(c - 1)) = c - first - 1
    <3>1. first + 1 \in Int /\ c - 1 \in Int
      BY <1>2, <2>3
    <3>2. Cardinality((first + 1)..(c - 1)) = IF first + 1 > c - 1 THEN 0 ELSE c - 1 - (first + 1) + 1
      BY <3>1, FS_Interval
    <3>3. (IF first + 1 > c - 1 THEN 0 ELSE c - 1 - (first + 1) + 1) = c - first - 1
      BY <1>2, <2>3, <2>5
    <3>4. QED
      BY <3>2, <3>3
  <2>8. c \in (first + 1)..(l + 1) /\ c # l + 1
    BY <1>2, <2>3, <2>5
  <2>9. c \in (first + 1)..(Len(m.entries) + 1) /\ c # Len(m.entries) + 1
    BY <1>1, <2>8
  <2>10. PICK next \in (first + 1)..(Len(m.entries) + 1) : next = c
    BY <2>9
  <2>11. {e \in (first + 1)..Len(m.entries) : EntryEnd(m, e) <= end} = (first + 1)..(next - 1)
    BY <1>1, <2>6, <2>10
  <2>12. Cardinality((first + 1)..(next - 1)) = next - first - 1
    BY <2>7, <2>10
  <2>13. m.entries[next].index <= end /\ end < EntryEnd(m, next) /\ next # Len(m.entries) + 1
    BY <2>3, <2>9, <2>10
  <2>14. QED
    BY <2>11, <2>12, <2>13
<1>5. CASE ~(end < m.length)
  <2>1. end = m.length
    BY <1>2, <1>5
  <2>2. {e \in (first + 1)..l : EntryEnd(m, e) <= end} = (first + 1)..l
    <3>1. \A e \in 1..l : EntryEnd(m, e) <= m.length
      BY <1>1, CutsAscend
    <3>2. \A e \in (first + 1)..l : e \in 1..l
      BY <1>2
    <3>3. QED
      BY <2>1, <3>1, <3>2
  <2>3. Cardinality((first + 1)..l) = l + 1 - first - 1
    <3>1. first + 1 \in Int /\ l \in Int
      BY <1>2
    <3>2. Cardinality((first + 1)..l) = IF first + 1 > l THEN 0 ELSE l - (first + 1) + 1
      BY <3>1, FS_Interval
    <3>3. (IF first + 1 > l THEN 0 ELSE l - (first + 1) + 1) = l + 1 - first - 1
      BY <1>2
    <3>4. QED
      BY <3>2, <3>3
  <2>4. l + 1 - 1 = l /\ l + 1 \in (first + 1)..(l + 1) /\ ~(l + 1 <= l)
    BY <1>2
  <2>5. l + 1 \in (first + 1)..(Len(m.entries) + 1) /\ l + 1 = Len(m.entries) + 1
    BY <1>1, <2>4
  <2>6. PICK next \in (first + 1)..(Len(m.entries) + 1) : next = l + 1
    BY <2>5
  <2>7. {e \in (first + 1)..Len(m.entries) : EntryEnd(m, e) <= end} = (first + 1)..(next - 1)
    BY <1>1, <2>2, <2>4, <2>6
  <2>8. Cardinality((first + 1)..(next - 1)) = next - first - 1
    BY <2>3, <2>4, <2>6
  <2>9. ~(next <= Len(m.entries)) /\ end = m.length
    BY <1>1, <2>1, <2>4, <2>6
  <2>10. QED
    BY <2>7, <2>8, <2>9
<1>6. QED
  BY <1>4, <1>5

-----------------------------------------------------------------------------
(* The cuts by number: the start of every entry, and the end of the text.  *)
Cut(m, k) == IF k <= Len(m.entries) THEN m.entries[k].index ELSE m.length

(* The cuts by number say what Cuts says.                                  *)
LEMMA CutsByNumber ==
  ASSUME NEW m \in Managers
  PROVE  /\ \A k \in 1..(Len(m.entries) + 1) : Cut(m, k) \in Int
         /\ \A e \in 1..Len(m.entries) : EntryEnd(m, e) = Cut(m, e + 1) /\ m.entries[e].index = Cut(m, e)
         /\ Cut(m, Len(m.entries) + 1) = m.length
         /\ Cuts(m) <=> /\ 1 <= Len(m.entries) /\ Cut(m, 1) = 0
                        /\ \A e \in 1..Len(m.entries) : Cut(m, e) < Cut(m, e + 1)
<1>1. PICK l \in Nat : l = Len(m.entries)
  BY ManagerFacts
<1>2. ASSUME NEW k \in 1..(l + 1) PROVE Cut(m, k) \in Int
  <2>1. k \in 1..l \/ ~(k <= l)
    BY <1>2
  <2>2. QED
    BY <1>1, <2>1, ManagerFacts DEF Cut
<1>3. ASSUME NEW e \in 1..l PROVE EntryEnd(m, e) = Cut(m, e + 1) /\ m.entries[e].index = Cut(m, e)
  <2>1. e <= l /\ (e < l <=> e + 1 <= l)
    BY <1>3
  <2>2. QED
    BY <1>1, <2>1 DEF Cut, EntryEnd
<1>4. Cut(m, l + 1) = m.length
  <2>1. ~(l + 1 <= l)
    BY <1>1
  <2>2. QED
    BY <1>1, <2>1 DEF Cut
<1>5. Cuts(m) <=> /\ 1 <= l /\ Cut(m, 1) = 0
                  /\ \A e \in 1..l : Cut(m, e) < Cut(m, e + 1)
  <2>1. CASE 1 <= l
    <3>1. m.entries[1].index = Cut(m, 1)
      BY <1>1, <2>1 DEF Cut
    <3>2. QED
      BY <1>1, <1>3, <3>1 DEF Cuts
  <2>2. CASE ~(1 <= l)
    BY <1>1, <2>2 DEF Cuts
  <2>3. QED
    BY <2>1, <2>2
<1>6. QED
  BY <1>1, <1>2, <1>3, <1>4, <1>5

(* The entries between the first a and those from b on are removed.        *)
LEMMA CutsOfRemoved ==
  ASSUME NEW m \in Managers, NEW n \in Managers, NEW a \in Nat, NEW b \in 1..(Len(m.entries) + 1),
         a < b, n.length = m.length, IsReplaced(n.entries, m.entries, a, <<>>, b)
  PROVE  /\ Len(n.entries) = Len(m.entries) - (b - a - 1)
         /\ \A k \in 1..a : Cut(n, k) = Cut(m, k)
         /\ \A k \in (a + 1)..(Len(n.entries) + 1) : Cut(n, k) = Cut(m, k + (b - a - 1))
<1>1. PICK l \in Nat : l = Len(m.entries)
  BY ManagerFacts
<1>2. PICK r \in Nat : r = Len(n.entries)
  BY ManagerFacts
<1>3. PICK d \in Nat : d = b - a - 1
  OBVIOUS
<1>4. b \in 1..(l + 1)
  BY <1>1
<1>5. PICK none \in Seq(Entry) : none = <<>> /\ Len(none) = 0
  BY EmptySeq
<1>6. r = a + 0 + (l - b + 1)
  BY <1>1, <1>2, <1>5 DEF IsReplaced
<1>7. r = l - d
  BY <1>3, <1>4, <1>6
<1>8. ASSUME NEW k \in 1..a PROVE Cut(n, k) = Cut(m, k)
  <2>1. n.entries[k] = m.entries[k]
    BY <1>5 DEF IsReplaced
  <2>2. k <= l /\ k <= r
    BY <1>4, <1>6
  <2>3. QED
    BY <1>1, <1>2, <2>1, <2>2 DEF Cut
<1>9. ASSUME NEW k \in (a + 1)..(r + 1) PROVE Cut(n, k) = Cut(m, k + d)
  <2>1. CASE k <= r
    <3>1. PICK j \in b..l : j = k + d
      BY <1>3, <1>4, <1>7, <2>1
    <3>2. n.entries[j - b + 1 + a + 0] = m.entries[j]
      BY <1>1, <1>5 DEF IsReplaced
    <3>3. j - b + 1 + a + 0 = k /\ j <= l
      BY <1>3, <1>4, <3>1
    <3>4. QED
      BY <1>1, <1>2, <2>1, <3>1, <3>2, <3>3 DEF Cut
  <2>2. CASE ~(k <= r)
    <3>1. ~(k + d <= l)
      BY <1>7, <2>2
    <3>2. QED
      BY <1>1, <1>2, <2>2, <3>1 DEF Cut
  <2>3. QED
    BY <2>1, <2>2
<1>10. QED
  BY <1>1, <1>2, <1>3, <1>7, <1>8, <1>9

(* Entry e starts elsewhere; with e = Len + 1 nothing changes.             *)
LEMMA ClippedIs ==
  ASSUME NEW m \in Managers, NEW e \in 1..(Len(m.entries) + 1), NEW at \in Int,
         e = Len(m.entries) + 1 => at = m.length
  PROVE  LET n == IF e <= Len(m.entries) THEN [m EXCEPT !.entries[e].index = at] ELSE m
         IN  /\ Balances(n, m) /\ Len(n.entries) = Len(m.entries)
             /\ Cut(n, e) = at
             /\ \A k \in 1..(Len(m.entries) + 1) : k # e => Cut(n, k) = Cut(m, k)
<1>1. PICK l \in Nat : l = Len(m.entries)
  BY ManagerFacts
<1>2. CASE e <= l
  <2>1. e \in 1..Len(m.entries)
    BY <1>1, <1>2
  <2>2. PICK x : x = [m.entries[e] EXCEPT !.index = at]
    OBVIOUS
  <2>3. x \in Entry /\ x.index = at /\ x.attributes = m.entries[e].attributes
    <3>1. m.entries[e] \in Entry
      BY <2>1, ManagerFacts
    <3>2. QED
      BY <2>2, <3>1 DEF Entry
  <2>4. PICK E : E = [m.entries EXCEPT ![e] = x]
    OBVIOUS
  <2>5. /\ E \in Seq(Entry) /\ Len(E) = Len(m.entries) /\ E[e] = x
        /\ \A k \in 1..Len(m.entries) : k # e => E[k] = m.entries[k]
    BY <2>1, <2>3, <2>4, ManagerFacts, ExceptSeq
  <2>6. PICK n : n = [m EXCEPT !.entries[e].index = at]
    OBVIOUS
  <2>7. n = [m EXCEPT !.entries = E]
    BY <2>2, <2>4, <2>6
  <2>8. PICK length \in Nat : length = m.length
    BY ManagerFacts
  <2>9. n = [m EXCEPT !.entries = E, !.length = length]
    BY <2>7, <2>8 DEF Managers
  <2>10. \A k \in 1..Len(m.entries) : E[k].attributes = m.entries[k].attributes
    BY <2>3, <2>5
  <2>11. SameBooks(n, m) /\ n.entries = E /\ n.length = length
    BY <2>5, <2>9, <2>10, MovedIs, ZenonT(30)
  <2>12. Balances(n, m)
    BY <2>8, <2>11, BalancesIsSameBooks
  <2>13. Cut(n, e) = at
    BY <1>1, <1>2, <2>3, <2>5, <2>11 DEF Cut
  <2>14. ASSUME NEW k \in 1..(l + 1), k # e PROVE Cut(n, k) = Cut(m, k)
    <3>1. k \in 1..l \/ ~(k <= l)
      BY <1>1
    <3>2. QED
      BY <1>1, <2>5, <2>8, <2>11, <2>14, <3>1 DEF Cut
  <2>15. QED
    BY <1>1, <1>2, <2>5, <2>6, <2>11, <2>12, <2>13, <2>14
<1>3. CASE ~(e <= l)
  <2>1. e = Len(m.entries) + 1
    BY <1>1, <1>3
  <2>2. Cut(m, e) = at
    BY <2>1, CutsByNumber
  <2>3. QED
    BY <1>1, <1>3, <2>2, BalancesItself
<1>4. QED
  BY <1>2, <1>3

-----------------------------------------------------------------------------
(* The entries that a replaced range covers.                               *)

(* How u comes out of m, when a replaced range that starts in entry first  *)
(* ends at end.                                                            *)
IsUncovered(u, m, first, end) ==
  /\ Balances(u, m) /\ Cuts(u) /\ first \in 1..Len(u.entries)
  /\ Cut(u, first) = Cut(m, first) /\ end <= Cut(u, first + 1)

(* The same entries by number, clipped and without the covered ones.       *)
LEMMA UncoveredCuts ==
  ASSUME NEW m \in Managers, Cuts(m), NEW u \in Managers, Balances(u, m),
         NEW first \in 1..Len(m.entries), NEW next \in (first + 1)..(Len(m.entries) + 1),
         NEW end \in Int, Cut(m, first + 1) < end, next <= Len(m.entries) => end < Cut(m, next + 1),
         Len(u.entries) = Len(m.entries) - (next - first - 1),
         \A k \in 1..first : Cut(u, k) = Cut(m, k),
         Cut(u, first + 1) = end,
         \A k \in (first + 2)..(Len(u.entries) + 1) : Cut(u, k) = Cut(m, k + (next - first - 1))
  PROVE  IsUncovered(u, m, first, end)
<1>1. PICK l \in Nat : l = Len(m.entries)
  BY ManagerFacts
<1>2. PICK r \in Nat : r = Len(u.entries)
  BY ManagerFacts
<1>3. PICK d \in Nat : d = next - first - 1
  OBVIOUS
<1>4. first \in 1..l /\ r = l - d /\ next \in (first + 1)..(l + 1)
  BY <1>1, <1>2, <1>3
<1>5. first \in 1..r
  BY <1>3, <1>4
<1>6. Cut(m, 1) = 0 /\ \A e \in 1..l : Cut(m, e) < Cut(m, e + 1) /\ Cut(m, e) \in Int /\ Cut(m, e + 1) \in Int
  <2>1. \A e \in 1..l : e \in 1..(l + 1) /\ e + 1 \in 1..(l + 1)
    OBVIOUS
  <2>2. QED
    BY <1>1, <2>1, CutsByNumber
<1>7. Cut(u, 1) = 0
  BY <1>4, <1>6
<1>8. ASSUME NEW e \in 1..r PROVE Cut(u, e) < Cut(u, e + 1)
  <2>1. CASE e < first
    <3>1. e \in 1..first /\ e + 1 \in 1..first /\ e \in 1..l
      BY <1>4, <2>1
    <3>2. QED
      BY <1>6, <3>1
  <2>2. CASE e = first
    <3>1. Cut(u, e) = Cut(m, first) /\ Cut(u, e + 1) = end
      BY <2>2
    <3>2. Cut(m, first) < Cut(m, first + 1) /\ Cut(m, first) \in Int /\ Cut(m, first + 1) \in Int
      BY <1>4, <1>6
    <3>3. QED
      BY <3>1, <3>2
  <2>3. CASE e = first + 1
    <3>1. next <= l /\ next \in 1..l
      BY <1>3, <1>4, <2>3
    <3>2. e + 1 \in (first + 2)..(r + 1) /\ e + 1 + d = next + 1
      BY <1>3, <2>3
    <3>3. Cut(u, e + 1) = Cut(m, next + 1)
      BY <1>2, <1>3, <3>2
    <3>4. QED
      BY <1>1, <2>3, <3>1, <3>3
  <2>4. CASE e > first + 1
    <3>1. e \in (first + 2)..(r + 1) /\ e + 1 \in (first + 2)..(r + 1) /\ e + d \in 1..l
          /\ e + 1 + d = e + d + 1
      BY <1>4, <2>4
    <3>2. Cut(u, e) = Cut(m, e + d) /\ Cut(u, e + 1) = Cut(m, e + d + 1)
      BY <1>2, <1>3, <3>1
    <3>3. QED
      BY <1>6, <3>1, <3>2
  <2>5. QED
    BY <1>4, <2>1, <2>2, <2>3, <2>4
<1>9. Cuts(u)
  <2>1. 1 <= r
    BY <1>5
  <2>2. QED
    BY <1>2, <1>7, <1>8, <2>1, CutsByNumber
<1>10. end <= Cut(u, first + 1)
  OBVIOUS
<1>11. QED
  BY <1>2, <1>4, <1>5, <1>9, <1>10 DEF IsUncovered

(* RemoveCoveredEntries, for every range that starts in entry first.       *)
LEMMA RemoveCoveredIs ==
  ASSUME NEW m \in Managers, Cuts(m), NEW first \in 1..Len(m.entries), NEW end \in 0..m.length
  PROVE  IsUncovered(RemoveCoveredEntries(m, first, end), m, first, end)
<1>1. PICK l \in Nat : l = Len(m.entries)
  BY ManagerFacts
<1>2. first \in 1..l /\ end \in Int /\ m.length \in Nat
  BY <1>1, ManagerFacts
<1>3. EntryEnd(m, first) = Cut(m, first + 1) /\ Cut(m, first + 1) \in Int
  <2>1. first + 1 \in 1..(l + 1)
    BY <1>2
  <2>2. QED
    BY <1>1, <2>1, CutsByNumber
<1>4. CASE EntryEnd(m, first) < end
  <2>1. PICK next \in (first + 1)..(l + 1) :
          /\ {e \in (first + 1)..Len(m.entries) : EntryEnd(m, e) <= end} = (first + 1)..(next - 1)
          /\ Cardinality((first + 1)..(next - 1)) = next - first - 1
          /\ next <= Len(m.entries) => m.entries[next].index <= end /\ end < EntryEnd(m, next)
          /\ next = Len(m.entries) + 1 => end = m.length
    BY <1>1, <1>4, CoveredAre
  <2>2. PICK d \in Nat : d = next - first - 1 /\ first + d + 1 = next
    BY <1>2
  <2>3. PICK c : c = IF next <= Len(m.entries) THEN [m EXCEPT !.entries[next].index = end] ELSE m
    OBVIOUS
  <2>4. next \in 1..(Len(m.entries) + 1)
    BY <1>1, <1>2
  <2>5. /\ Balances(c, m) /\ Len(c.entries) = Len(m.entries) /\ Cut(c, next) = end
        /\ \A k \in 1..(Len(m.entries) + 1) : k # next => Cut(c, k) = Cut(m, k)
    BY <1>2, <2>1, <2>3, <2>4, ClippedIs
  <2>6. c \in Managers /\ c.length = m.length
    BY <2>5 DEF Balances
  <2>7. PICK u : u = RemoveEntries(c, first + 1, d)
    OBVIOUS
  <2>8. RemoveCoveredEntries(m, first, end) = u
    BY <1>4, <2>1, <2>2, <2>3, <2>7 DEF RemoveCoveredEntries
  <2>9. Balances(u, c) /\ IsReplaced(u.entries, c.entries, first, <<>>, next)
    <3>1. PICK from \in 1..(l + 1) : from = first + 1
      BY <1>2
    <3>2. from + d = next /\ from + d <= l + 1 /\ from - 1 = first
      BY <1>2, <2>2, <3>1
    <3>3. from \in 1..(Len(c.entries) + 1) /\ from + d <= Len(c.entries) + 1
      BY <1>1, <2>5, <3>2
    <3>4. /\ Balances(RemoveEntries(c, from, d), c)
          /\ IsReplaced(RemoveEntries(c, from, d).entries, c.entries, from - 1, <<>>, from + d)
      BY <2>6, <3>3, RemoveEntriesIs
    <3>5. QED
      BY <2>7, <3>1, <3>2, <3>4
  <2>10. Balances(u, m) /\ u \in Managers /\ u.length = c.length
    <3>1. Balances(u, m)
      BY <2>5, <2>9, BalancesOnward
    <3>2. QED
      BY <2>9, <3>1 DEF Balances
  <2>11. /\ Len(u.entries) = l - (next - first - 1)
         /\ \A k \in 1..first : Cut(u, k) = Cut(c, k)
         /\ \A k \in (first + 1)..(Len(u.entries) + 1) : Cut(u, k) = Cut(c, k + (next - first - 1))
    <3>1. first \in Nat /\ next \in 1..(Len(c.entries) + 1) /\ first < next
      BY <1>2, <2>4, <2>5
    <3>2. u \in Managers /\ c \in Managers /\ u.length = c.length
      BY <2>6, <2>10
    <3>3. /\ Len(u.entries) = Len(c.entries) - (next - first - 1)
          /\ \A k \in 1..first : Cut(u, k) = Cut(c, k)
          /\ \A k \in (first + 1)..(Len(u.entries) + 1) : Cut(u, k) = Cut(c, k + (next - first - 1))
      BY <2>9, <3>1, <3>2, CutsOfRemoved
    <3>4. QED
      BY <1>1, <2>5, <3>3
  <2>12. PICK r \in Nat : r = Len(u.entries) /\ r = l - d
    BY <2>2, <2>10, <2>11, ManagerFacts
  <2>13. \A k \in 1..first : Cut(u, k) = Cut(m, k)
    <3>1. \A k \in 1..first : k \in 1..(l + 1) /\ k # next
      BY <1>2
    <3>2. QED
      BY <1>1, <2>5, <2>11, <3>1
  <2>14. Cut(u, first + 1) = end
    <3>1. first + 1 \in (first + 1)..(r + 1) /\ first + 1 + d = next
      BY <1>2, <2>2, <2>12
    <3>2. QED
      BY <2>2, <2>5, <2>11, <2>12, <3>1
  <2>15. \A k \in (first + 2)..(r + 1) : Cut(u, k) = Cut(m, k + d)
    <3>1. \A k \in (first + 2)..(r + 1) : /\ k \in (first + 1)..(r + 1) /\ k + d \in 1..(l + 1)
                                          /\ k + d # next
      BY <1>2, <2>2, <2>12
    <3>2. QED
      BY <1>1, <2>2, <2>5, <2>11, <2>12, <3>1
  <2>16. next <= l => end < Cut(m, next + 1)
    <3>1. next <= l => next \in 1..l
      BY <1>2
    <3>2. QED
      BY <1>1, <2>1, <3>1, CutsByNumber
  <2>17. IsUncovered(u, m, first, end)
    BY <1>1, <1>2, <1>3, <1>4, <2>2, <2>10, <2>11, <2>12, <2>13, <2>14, <2>15, <2>16, UncoveredCuts, ZenonT(30)
  <2>18. QED
    BY <2>8, <2>17
<1>5. CASE ~(EntryEnd(m, first) < end)
  <2>1. RemoveCoveredEntries(m, first, end) = m
    BY <1>5 DEF RemoveCoveredEntries
  <2>2. end <= Cut(m, first + 1)
    BY <1>2, <1>3, <1>5
  <2>3. QED
    BY <2>1, <2>2, BalancesItself DEF IsUncovered
<1>6. QED
  BY <1>4, <1>5

-----------------------------------------------------------------------------
(* The entries after an edit move, and the text changes its length.        *)

(* The text is empty, or the entries cut it.                               *)
WellCut(m) ==
  \/ Cuts(m)
  \/ m.length = 0 /\ Len(m.entries) = 1 /\ m.entries[1].index = 0

Shifted(m, from, delta) == [ShiftEntries(m, from, delta) EXCEPT !.length = @ + delta]

(* The cuts by number of the moved entries.                                *)
LEMMA ShiftedCuts ==
  ASSUME NEW m \in Managers, NEW from \in 1..(Len(m.entries) + 1), NEW delta \in Int,
         m.length + delta \in Nat
  PROVE  /\ SameBooks(Shifted(m, from, delta), m) /\ Shifted(m, from, delta) \in Managers
         /\ Shifted(m, from, delta).length = m.length + delta
         /\ Len(Shifted(m, from, delta).entries) = Len(m.entries)
         /\ \A k \in 1..(Len(m.entries) + 1) :
               /\ k < from => Cut(Shifted(m, from, delta), k) = Cut(m, k)
               /\ from <= k => Cut(Shifted(m, from, delta), k) = Cut(m, k) + delta
<1>1. PICK n : n = Shifted(m, from, delta)
  OBVIOUS
<1>2. SameBooks(n, m) /\ n.length = m.length + delta /\ IsShifted(n, m, from, delta)
  BY <1>1, ShiftIs DEF Shifted
<1>3. PICK l \in Nat : l = Len(m.entries)
  BY ManagerFacts
<1>4. /\ Len(n.entries) = l
      /\ \A k \in 1..l :
            n.entries[k].index = IF k < from THEN m.entries[k].index ELSE m.entries[k].index + delta
  BY <1>2, <1>3 DEF IsShifted
<1>5. ASSUME NEW k \in 1..(l + 1)
      PROVE  /\ k < from => Cut(n, k) = Cut(m, k)
             /\ from <= k => Cut(n, k) = Cut(m, k) + delta
  <2>1. CASE k <= l
    <3>1. k \in 1..l /\ (from <= k => ~(k < from))
      BY <2>1
    <3>2. QED
      BY <1>3, <1>4, <2>1, <3>1 DEF Cut
  <2>2. CASE ~(k <= l)
    <3>1. ~(k < from)
      BY <1>3, <2>2
    <3>2. QED
      BY <1>2, <1>3, <1>4, <2>2, <3>1 DEF Cut
  <2>3. QED
    BY <2>1, <2>2
<1>6. QED
  BY <1>1, <1>2, <1>3, <1>4, <1>5 DEF SameBooks

(* The cuts of the moved entries, where those before `from` stay and the   *)
(* entry before it keeps a code unit.                                      *)
LEMMA ShiftKeepsCuts ==
  ASSUME NEW m \in Managers, NEW from \in 1..(Len(m.entries) + 1), NEW delta \in Int,
         m.length + delta \in Nat, 1 <= Len(m.entries),
         \A e \in 1..Len(m.entries) : e # from - 1 => Cut(m, e) < Cut(m, e + 1),
         from = 1 => Cut(m, 1) + delta = 0,
         from > 1 => Cut(m, 1) = 0 /\ Cut(m, from - 1) < Cut(m, from) + delta
  PROVE  Cuts(Shifted(m, from, delta))
<1>1. PICK n : n = Shifted(m, from, delta)
  OBVIOUS
<1>2. PICK l \in Nat : l = Len(m.entries)
  BY ManagerFacts
<1>3. /\ n \in Managers /\ Len(n.entries) = l
      /\ \A k \in 1..(l + 1) : /\ k < from => Cut(n, k) = Cut(m, k)
                               /\ from <= k => Cut(n, k) = Cut(m, k) + delta
  BY <1>1, <1>2, ShiftedCuts
<1>4. from \in 1..(l + 1) /\ 1 <= l /\ \A k \in 1..(l + 1) : Cut(m, k) \in Int
  BY <1>2, CutsByNumber
<1>5. Cut(n, 1) = 0
  <2>1. CASE from = 1
    BY <1>3, <1>4, <2>1
  <2>2. CASE from > 1
    BY <1>3, <1>4, <2>2
  <2>3. QED
    BY <1>4, <2>1, <2>2
<1>6. ASSUME NEW e \in 1..l PROVE Cut(n, e) < Cut(n, e + 1)
  <2>1. e \in 1..(l + 1) /\ e + 1 \in 1..(l + 1)
    OBVIOUS
  <2>2. Cut(m, e) \in Int /\ Cut(m, e + 1) \in Int
    BY <1>4, <2>1
  <2>3. CASE e + 1 < from
    <3>1. Cut(m, e) < Cut(m, e + 1)
      BY <1>2, <2>3
    <3>2. Cut(n, e) = Cut(m, e) /\ Cut(n, e + 1) = Cut(m, e + 1)
      BY <1>3, <1>4, <2>1, <2>3
    <3>3. QED
      BY <3>1, <3>2
  <2>4. CASE e + 1 = from
    <3>1. e = from - 1 /\ from > 1 /\ e < from /\ from <= e + 1
      BY <2>4
    <3>2. Cut(n, e) = Cut(m, e) /\ Cut(n, e + 1) = Cut(m, e + 1) + delta
      BY <1>3, <2>1, <3>1
    <3>3. Cut(m, e) < Cut(m, e + 1) + delta
      BY <2>4, <3>1
    <3>4. QED
      BY <3>2, <3>3
  <2>5. CASE from <= e
    <3>1. e # from - 1 /\ from <= e + 1
      BY <1>4, <2>5
    <3>2. Cut(n, e) = Cut(m, e) + delta /\ Cut(n, e + 1) = Cut(m, e + 1) + delta
      BY <1>3, <2>1, <2>5, <3>1
    <3>3. Cut(m, e) < Cut(m, e + 1)
      BY <1>2, <3>1
    <3>4. QED
      BY <2>2, <3>2, <3>3
  <2>6. QED
    BY <1>4, <2>3, <2>4, <2>5
<1>7. QED
  BY <1>1, <1>3, <1>4, <1>5, <1>6, CutsByNumber

-----------------------------------------------------------------------------
(* A deleted entry.                                                        *)

(* The only entry gives up its attributes.                                 *)
LEMMA EmptiedEntryIs ==
  ASSUME NEW m \in Managers, Len(m.entries) = 1
  PROVE  LET n == [m EXCEPT !.entries[1] = [index |-> 0, attributes |-> <<>>],
                            !.refs = ReleaseAll(@, m.entries[1].attributes)]
         IN  /\ Balances(n, m) /\ Len(n.entries) = 1 /\ n.entries[1].index = 0
<1>1. PICK d \in Dictionaries : d = m.entries[1].attributes
  BY ManagerFacts
<1>2. PICK after \in References : after = ReleaseAll(m.refs, d)
  BY ManagerFacts, ReleaseAllIs
<1>3. \A v \in Values : after[v] = m.refs[v] - Count(d, v)
  BY <1>2, ManagerFacts, ReleaseAllIs
<1>4. PICK none \in Dictionaries : none = <<>> /\ \A v : Count(none, v) = 0
  BY EmptyDictionary
<1>5. PICK x : x = [index |-> 0, attributes |-> none]
  OBVIOUS
<1>6. x \in Entry /\ x.index = 0 /\ x.attributes = none
  BY <1>5 DEF Entry
<1>7. PICK E : E = [m.entries EXCEPT ![1] = x]
  OBVIOUS
<1>8. E \in Seq(Entry) /\ Len(E) = 1 /\ E[1] = x
  <2>1. 1 \in 1..Len(m.entries)
    OBVIOUS
  <2>2. QED
    BY <1>6, <1>7, <2>1, ManagerFacts, ExceptSeq
<1>9. PICK n : n = [m EXCEPT !.entries = E, !.refs = after]
  OBVIOUS
<1>10. n = [m EXCEPT !.entries[1] = [index |-> 0, attributes |-> <<>>],
                     !.refs = ReleaseAll(@, m.entries[1].attributes)]
  BY <1>1, <1>2, <1>4, <1>5, <1>7, <1>9
<1>11. /\ n \in Managers /\ n.entries = E /\ n.length = m.length /\ n.refs = after
       /\ n.cached = m.cached /\ n.created = m.created
  BY <1>8, <1>9 DEF Managers
<1>12. Spare(n) = Spare(m)
  BY <1>8, <1>11 DEF Spare
<1>13. ASSUME NEW v \in Values PROVE Owes(n, v) = Owes(m, v)
  <2>1. Total(E, v) = 0
    <3>1. TotalTo(E, 0 + 1, v) = TotalTo(E, 0, v) + Count(E[0 + 1].attributes, v)
      BY TotalStep
    <3>2. 0 + 1 = 1 /\ 0 + 0 = 0
      OBVIOUS
    <3>3. QED
      BY <1>4, <1>6, <1>8, <3>1, <3>2, TotalOfNone DEF Total
  <2>2. Total(m.entries, v) = 0 + Count(d, v)
    <3>1. TotalTo(m.entries, 0 + 1, v) = TotalTo(m.entries, 0, v) + Count(m.entries[0 + 1].attributes, v)
      BY TotalStep
    <3>2. 0 + 1 = 1
      OBVIOUS
    <3>3. QED
      BY <1>1, <3>1, <3>2, TotalOfNone DEF Total
  <2>3. PICK a \in Int, c \in Nat : a = m.refs[v] /\ c = Count(d, v)
    BY CountIsNat, AccountsAreNumbers
  <2>4. after[v] = a - c /\ a - c - 0 = a - (0 + c)
    BY <1>3, <2>3
  <2>5. QED
    BY <1>11, <2>1, <2>2, <2>3, <2>4 DEF Owes
<1>14. Balances(n, m)
  BY <1>11, <1>12, <1>13 DEF Balances
<1>15. QED
  BY <1>6, <1>8, <1>10, <1>11, <1>14

(* The replaced range has been uncovered: it lies in entry first.          *)
IsEdited(m, first, start, end) ==
  /\ m \in Managers /\ Cuts(m) /\ first \in 1..Len(m.entries)
  /\ start \in Nat /\ end \in Nat /\ start <= end
  /\ Cut(m, first) <= start /\ end <= Cut(m, first + 1)

(* h is m after a replacement that brings a change of length delta.        *)
IsMoved(h, m, delta) ==
  SameBooks(h, m) /\ h.length = m.length + delta /\ WellCut(h)

ShiftFrom(k, m, first) == IF Len(k.entries) < Len(m.entries) THEN first ELSE first + 1

(* What is known of the entry in which the replaced range lies.            *)
LEMMA EditedFacts ==
  ASSUME NEW m, NEW first, NEW start, NEW end, IsEdited(m, first, start, end)
  PROVE  /\ m.length \in Nat /\ end <= m.length /\ Cut(m, 1) = 0
         /\ Cut(m, first) \in Int /\ Cut(m, first + 1) \in Int
         /\ \A e \in 1..Len(m.entries) : Cut(m, e) < Cut(m, e + 1)
<1>1. /\ m \in Managers /\ Cuts(m) /\ first \in 1..Len(m.entries) /\ end \in Nat
      /\ end <= Cut(m, first + 1)
  BY DEF IsEdited
<1>2. PICK l \in Nat : l = Len(m.entries)
  BY <1>1, ManagerFacts
<1>3. first \in 1..(l + 1) /\ first + 1 \in 1..(l + 1)
  BY <1>1, <1>2
<1>4. Cut(m, first) \in Int /\ Cut(m, first + 1) \in Int
  BY <1>1, <1>2, <1>3, CutsByNumber
<1>5. EntryEnd(m, first) <= m.length /\ EntryEnd(m, first) = Cut(m, first + 1)
  BY <1>1, CutsAscend, CutsByNumber
<1>6. m.length \in Nat
  BY <1>1, ManagerFacts
<1>7. end <= m.length
  BY <1>1, <1>4, <1>5, <1>6
<1>8. QED
  BY <1>1, <1>4, <1>6, <1>7, CutsByNumber

(* Entry first keeps a code unit.                                          *)
LEMMA KeptIsMoved ==
  ASSUME NEW m, NEW first, NEW start, NEW end, IsEdited(m, first, start, end), NEW delta \in Int,
         m.length + delta \in Nat, Cut(m, first) < Cut(m, first + 1) + delta
  PROVE  IsMoved(Shifted(m, ShiftFrom(m, m, first), delta), m, delta)
<1>1. m \in Managers /\ Cuts(m) /\ first \in 1..Len(m.entries)
  BY DEF IsEdited
<1>2. PICK l \in Nat : l = Len(m.entries)
  BY <1>1, ManagerFacts
<1>3. PICK from \in 1..(l + 1) : from = first + 1 /\ first = from - 1 /\ from > 1
  BY <1>1, <1>2
<1>4. ShiftFrom(m, m, first) = from
  BY <1>2, <1>3 DEF ShiftFrom
<1>5. Cuts(Shifted(m, from, delta))
  <2>1. 1 <= Len(m.entries)
    BY <1>1, <1>2
  <2>2. \A e \in 1..Len(m.entries) : e # from - 1 => Cut(m, e) < Cut(m, e + 1)
    BY EditedFacts
  <2>3. Cut(m, 1) = 0 /\ Cut(m, from - 1) < Cut(m, from) + delta
    BY <1>3, EditedFacts
  <2>4. from # 1
    BY <1>3
  <2>5. QED
    BY <1>1, <1>2, <2>1, <2>2, <2>3, <2>4, ShiftKeepsCuts
<1>6. SameBooks(Shifted(m, from, delta), m) /\ Shifted(m, from, delta).length = m.length + delta
  BY <1>1, <1>2, ShiftedCuts
<1>7. QED
  BY <1>4, <1>5, <1>6 DEF IsMoved, WellCut

(* Entry first is removed: the next one takes its place.                   *)
LEMMA RemovedIsMoved ==
  ASSUME NEW m, NEW first, NEW start, NEW end, IsEdited(m, first, start, end),
         Cut(m, first) = start, Cut(m, first + 1) = end, Len(m.entries) > 1
  PROVE  IsMoved(Shifted(RemoveEntries(m, first, 1),
                         ShiftFrom(RemoveEntries(m, first, 1), m, first), start - end),
                 m, start - end)
<1>1. m \in Managers /\ first \in 1..Len(m.entries) /\ start \in Nat /\ end \in Nat /\ start <= end
  BY DEF IsEdited
<1>2. PICK l \in Nat : l = Len(m.entries)
  BY <1>1, ManagerFacts
<1>3. first \in 1..l /\ l > 1
  BY <1>1, <1>2
<1>4. PICK k : k = RemoveEntries(m, first, 1)
  OBVIOUS
<1>5. Balances(k, m) /\ IsReplaced(k.entries, m.entries, first - 1, <<>>, first + 1)
  <2>1. first \in 1..(Len(m.entries) + 1) /\ first + 1 <= Len(m.entries) + 1
    BY <1>2, <1>3
  <2>2. QED
    BY <1>1, <1>4, <2>1, RemoveEntriesIs
<1>6. k \in Managers /\ k.length = m.length /\ SameBooks(k, m)
  BY <1>5, BalancesIsSameBooks DEF Balances
<1>7. /\ Len(k.entries) = l - 1
      /\ \A j \in 1..(first - 1) : Cut(k, j) = Cut(m, j)
      /\ \A j \in first..l : Cut(k, j) = Cut(m, j + 1)
  <2>1. PICK a \in Nat, b \in 1..(l + 1) : a = first - 1 /\ b = first + 1
    BY <1>3
  <2>2. a < b /\ b - a - 1 = 1 /\ a + 1 = first /\ l - 1 + 1 = l
    BY <1>2, <1>3, <2>1
  <2>3. IsReplaced(k.entries, m.entries, a, <<>>, b)
    BY <1>5, <2>1
  <2>4. /\ Len(k.entries) = Len(m.entries) - (b - a - 1)
        /\ \A j \in 1..a : Cut(k, j) = Cut(m, j)
        /\ \A j \in (a + 1)..(Len(k.entries) + 1) : Cut(k, j) = Cut(m, j + (b - a - 1))
    BY <1>1, <1>2, <1>6, <2>2, <2>3, CutsOfRemoved, ZenonT(30)
  <2>5. QED
    BY <1>2, <2>1, <2>2, <2>4
<1>8. PICK delta \in Int : delta = start - end
  BY <1>1
<1>9. ShiftFrom(k, m, first) = first
  <2>1. l - 1 < l
    BY <1>2
  <2>2. QED
    BY <1>2, <1>7, <2>1 DEF ShiftFrom
<1>10. m.length + delta \in Nat
  <2>1. m.length \in Nat /\ end <= m.length
    BY EditedFacts
  <2>2. QED
    BY <1>1, <1>8, <2>1
<1>11. \A e \in 1..l : Cut(m, e) < Cut(m, e + 1)
  BY <1>2, EditedFacts
<1>12. Cuts(Shifted(k, first, delta))
  <2>1. first \in 1..(Len(k.entries) + 1) /\ 1 <= Len(k.entries)
    BY <1>2, <1>3, <1>7
  <2>2. ASSUME NEW e \in 1..(l - 1), e # first - 1 PROVE Cut(k, e) < Cut(k, e + 1)
    <3>1. CASE e < first - 1
      <4>1. e \in 1..(first - 1) /\ e + 1 \in 1..(first - 1) /\ e \in 1..l
        BY <1>3, <3>1
      <4>2. QED
        BY <1>7, <1>11, <4>1
    <3>2. CASE e >= first
      <4>1. e \in first..l /\ e + 1 \in first..l /\ e + 1 \in 1..l
        BY <1>3, <3>2
      <4>2. QED
        BY <1>7, <1>11, <4>1
    <3>3. QED
      BY <1>3, <2>2, <3>1, <3>2
  <2>3. Cut(k, first) = end
    <3>1. first \in first..l
      BY <1>3
    <3>2. QED
      BY <1>7, <3>1
  <2>4. CASE first = 1
    <3>1. start = 0
      BY <2>4, EditedFacts
    <3>2. end + delta = 0
      BY <1>1, <1>8, <3>1
    <3>3. QED
      BY <1>6, <1>7, <1>10, <2>1, <2>2, <2>3, <2>4, <3>2, ShiftKeepsCuts
  <2>5. CASE first > 1
    <3>1. first - 1 \in 1..(first - 1) /\ 1 \in 1..(first - 1) /\ first - 1 \in 1..l
          /\ first - 1 + 1 = first
      BY <1>3, <2>5
    <3>2. Cut(k, 1) = 0
      BY <1>7, <3>1, EditedFacts
    <3>3. Cut(k, first - 1) < start
      BY <1>7, <1>11, <3>1
    <3>4. end + delta = start
      BY <1>1, <1>8
    <3>5. Cut(k, first - 1) < Cut(k, first) + delta
      BY <2>3, <3>3, <3>4
    <3>6. first # 1
      BY <2>5
    <3>7. QED
      BY <1>6, <1>7, <1>10, <2>1, <2>2, <3>2, <3>5, <3>6, ShiftKeepsCuts
  <2>6. QED
    BY <1>3, <2>4, <2>5
<1>13. SameBooks(Shifted(k, first, delta), k) /\ Shifted(k, first, delta).length = m.length + delta
  <2>1. first \in 1..(Len(k.entries) + 1)
    BY <1>2, <1>3, <1>7
  <2>2. QED
    BY <1>6, <1>10, <2>1, ShiftedCuts
<1>14. IsMoved(Shifted(k, first, delta), m, delta)
  BY <1>6, <1>12, <1>13, SameBooksOnward DEF IsMoved, WellCut
<1>15. QED
  BY <1>4, <1>8, <1>9, <1>14

(* The only entry is emptied.                                              *)
LEMMA EmptiedIsMoved ==
  ASSUME NEW m, NEW first, NEW start, NEW end, IsEdited(m, first, start, end),
         Cut(m, first) = start, Cut(m, first + 1) = end, Len(m.entries) = 1,
         NEW k, Balances(k, m), Len(k.entries) = 1, k.entries[1].index = 0
  PROVE  IsMoved(Shifted(k, ShiftFrom(k, m, first), start - end), m, start - end)
<1>1. first = 1 /\ start \in Nat /\ end \in Nat /\ m \in Managers
  BY DEF IsEdited
<1>2. start = 0 /\ end = m.length
  <2>1. 1 = Len(m.entries) /\ Len(m.entries) + 1 = 1 + 1
    OBVIOUS
  <2>2. QED
    BY <1>1, <2>1, EditedFacts, CutsByNumber
<1>3. PICK delta \in Int : delta = start - end
  BY <1>1
<1>4. m.length + delta = 0
  BY <1>1, <1>2, <1>3
<1>5. PICK from \in 1..(Len(k.entries) + 1) : from = ShiftFrom(k, m, first) /\ 1 < from
  BY <1>1 DEF ShiftFrom
<1>6. k \in Managers /\ k.length = m.length /\ SameBooks(k, m)
  BY BalancesIsSameBooks DEF Balances
<1>7. PICK h : h = Shifted(k, from, delta)
  OBVIOUS
<1>8. k.length + delta \in Nat
  BY <1>4, <1>6
<1>9. /\ SameBooks(h, k) /\ h \in Managers /\ h.length = k.length + delta
      /\ Len(h.entries) = Len(k.entries)
      /\ \A j \in 1..(Len(k.entries) + 1) : j < from => Cut(h, j) = Cut(k, j)
  BY <1>6, <1>7, <1>8, ShiftedCuts
<1>10. h.entries[1].index = 0
  <2>1. Cut(h, 1) = Cut(k, 1)
    BY <1>5, <1>9
  <2>2. QED
    BY <1>9, <2>1 DEF Cut
<1>11. WellCut(h)
  BY <1>4, <1>6, <1>9, <1>10 DEF WellCut
<1>12. QED
  BY <1>3, <1>5, <1>6, <1>7, <1>9, <1>11, SameBooksOnward DEF IsMoved

(* In each of the cases of DropDeletedEntry, and without it, the entries   *)
(* that are moved cut the text of the new length.                          *)
LEMMA ReplacedIsMoved ==
  ASSUME NEW m, NEW first, NEW start, NEW end, IsEdited(m, first, start, end),
         NEW newLength \in Nat, newLength > 0 \/ start < end
  PROVE  LET kept == IF newLength = 0 THEN DropDeletedEntry(m, first, start, end) ELSE m
             delta == newLength - (end - start)
         IN  IsMoved(Shifted(kept, ShiftFrom(kept, m, first), delta), m, delta)
<1>1. /\ m \in Managers /\ first \in 1..Len(m.entries) /\ start \in Nat /\ end \in Nat
      /\ start <= end /\ Cut(m, first) <= start /\ end <= Cut(m, first + 1)
  BY DEF IsEdited
<1>2. Cut(m, first) \in Int /\ Cut(m, first + 1) \in Int /\ m.length \in Nat /\ end <= m.length
  BY EditedFacts
<1>3. PICK delta \in Int : delta = newLength - (end - start)
  BY <1>1
<1>4. m.length + delta \in Nat
  BY <1>1, <1>2, <1>3
<1>5. m.entries[first].index = Cut(m, first) /\ EntryEnd(m, first) = Cut(m, first + 1)
  BY <1>1, CutsByNumber
<1>6. CASE newLength > 0
  <2>1. Cut(m, first) < Cut(m, first + 1) + delta
    BY <1>1, <1>2, <1>3, <1>6
  <2>2. newLength # 0
    BY <1>6
  <2>3. QED
    BY <1>3, <1>4, <2>1, <2>2, KeptIsMoved
<1>7. CASE newLength = 0 /\ (m.entries[first].index # start \/ EntryEnd(m, first) # end)
  <2>1. DropDeletedEntry(m, first, start, end) = m
    BY <1>7 DEF DropDeletedEntry
  <2>2. Cut(m, first) # start \/ Cut(m, first + 1) # end
    BY <1>5, <1>7
  <2>3. start < end
    BY <1>7
  <2>4. Cut(m, first) < Cut(m, first + 1) + delta
    BY <1>1, <1>2, <1>3, <1>7, <2>2, <2>3
  <2>5. QED
    BY <1>3, <1>4, <1>7, <2>1, <2>4, KeptIsMoved
<1>8. CASE newLength = 0 /\ m.entries[first].index = start /\ EntryEnd(m, first) = end
  <2>1. Cut(m, first) = start /\ Cut(m, first + 1) = end /\ delta = start - end
    BY <1>1, <1>3, <1>5, <1>8
  <2>2. CASE Len(m.entries) > 1
    <3>1. DropDeletedEntry(m, first, start, end) = RemoveEntries(m, first, 1)
      BY <1>8, <2>2 DEF DropDeletedEntry
    <3>2. QED
      BY <1>3, <1>8, <2>1, <2>2, <3>1, RemovedIsMoved
  <2>3. CASE ~(Len(m.entries) > 1)
    <3>1. Len(m.entries) = 1 /\ first = 1
      <4>1. PICK l \in Nat : l = Len(m.entries)
        BY <1>1, ManagerFacts
      <4>2. first \in 1..l /\ ~(l > 1)
        BY <1>1, <2>3, <4>1
      <4>3. l = 1 /\ first = 1
        BY <4>2
      <4>4. QED
        BY <4>1, <4>3
    <3>2. PICK k : k = [m EXCEPT !.entries[1] = [index |-> 0, attributes |-> <<>>],
                                 !.refs = ReleaseAll(@, m.entries[1].attributes)]
      OBVIOUS
    <3>3. Balances(k, m) /\ Len(k.entries) = 1 /\ k.entries[1].index = 0
      BY <1>1, <3>1, <3>2, EmptiedEntryIs
    <3>4. DropDeletedEntry(m, first, start, end) = k
      BY <1>8, <2>3, <3>1, <3>2 DEF DropDeletedEntry
    <3>5. IsMoved(Shifted(k, ShiftFrom(k, m, first), start - end), m, start - end)
      BY <2>1, <3>1, <3>3, EmptiedIsMoved
    <3>6. QED
      BY <1>3, <1>8, <2>1, <3>4, <3>5
  <2>4. QED
    BY <2>2, <2>3
<1>9. newLength = 0 \/ newLength > 0
  OBVIOUS
<1>10. QED
  BY <1>6, <1>7, <1>8, <1>9

-----------------------------------------------------------------------------
(* Where the paragraphs lie.                                               *)

(* A set of numbers up to n has the greatest one that Max chooses.         *)
LEMMA GreatestIs ==
  ASSUME NEW n \in Nat, NEW S \in SUBSET (0..n), S # {}
  PROVE  Max(S) \in S
<1>1. PICK T : T = {n - x : x \in S}
  OBVIOUS
<1>2. T \in SUBSET Nat /\ T # {}
  <2>1. \A x \in S : n - x \in Nat
    OBVIOUS
  <2>2. PICK x : x \in S
    OBVIOUS
  <2>3. n - x \in T
    BY <1>1, <2>2
  <2>4. T \in SUBSET Nat
    BY <1>1, <2>1
  <2>5. QED
    BY <2>3, <2>4
<1>3. PICK t \in T : \A k \in T : t <= k
  BY <1>2, Numbers!LeastNatural
<1>4. PICK x \in S : t = n - x
  BY <1>1
<1>5. \A y \in S : x >= y
  <2>1. \A y \in S : t <= n - y
    BY <1>1, <1>3
  <2>2. QED
    BY <1>4, <2>1
<1>6. QED
  BY <1>5 DEF Max

(* A set of numbers has the least one that Min chooses.                    *)
LEMMA SmallestIs ==
  ASSUME NEW S \in SUBSET Nat, S # {}
  PROVE  Min(S) \in S
<1>1. PICK x \in S : \A y \in S : x <= y
  BY Numbers!LeastNatural
<1>2. QED
  BY <1>1 DEF Min

(* A paragraph starts before its units, or at the first.                   *)
LEMMA ParagraphStartIs ==
  ASSUME NEW u, NEW i \in Nat
  PROVE  ParagraphStart(u, i) \in 0..i
<1>1. PICK S : S = {0} \cup {k \in 1..i : u[k]}
  OBVIOUS
<1>2. S \in SUBSET (0..i) /\ S # {}
  BY <1>1
<1>3. QED
  BY <1>1, <1>2, GreatestIs DEF ParagraphStart

(* A paragraph ends behind its units, in the text.                         *)
LEMMA ParagraphEndIs ==
  ASSUME NEW u \in Seq(BOOLEAN), NEW i \in 0..(Len(u) - 1)
  PROVE  ParagraphEnd(u, i) \in (i + 1)..Len(u)
<1>1. PICK l \in Nat : l = Len(u)
  OBVIOUS
<1>2. PICK S : S = {l} \cup {k \in (i + 1)..l : u[k]}
  OBVIOUS
<1>3. S \in SUBSET Nat /\ S # {} /\ S \in SUBSET ((i + 1)..l)
  BY <1>1, <1>2
<1>4. QED
  BY <1>1, <1>2, <1>3, SmallestIs DEF ParagraphEnd

-----------------------------------------------------------------------------
(* The paragraph attributes at a joint.                                    *)

SpreadTurn(env, n, range) ==
  LET paragraphAttributes ==
        Filter(n.entries[FindEntry(n, range.of)].attributes, "paragraph", GroupNone)
  IN  IF paragraphAttributes = <<>> THEN n
      ELSE ApplyOperationOverRange(n, range.from, range.to, Apply(paragraphAttributes))

SpreadInv(env, k, n) == Carries(n, env.manager)

Spreads == INSTANCE FoldTheorems WITH Op <- SpreadTurn, Inv <- SpreadInv

JointRanges(u, joint) ==
  <<[of |-> joint - 1, from |-> joint, to |-> ParagraphEnd(u, joint - 1)],
    [of |-> joint, from |-> ParagraphStart(u, joint - 1), to |-> joint]>>

AdjustFold(env, m, u, joint) ==
  IF joint > 0 /\ joint < m.length THEN Spreads!Folded(env, m, JointRanges(u, joint)) ELSE m

(* The two spreads of AdjustParagraphAttributesAfterMerge, as the fold     *)
(* that Spreads reasons on.                                                *)
LEMMA AdjustIsFold ==
  ASSUME NEW m, NEW u, NEW joint, NEW env
  PROVE  AdjustParagraphAttributesAfterMerge(m, u, joint) = AdjustFold(env, m, u, joint)
  BY DEF AdjustParagraphAttributesAfterMerge, AdjustFold, JointRanges, Spreads!Folded, FoldLeft,
         MapThenFoldSet, Max, Spreads!Max, SpreadTurn

(* The attributes of one unit are given to others: behind it, or in order. *)
LEMMA SpreadIs ==
  ASSUME NEW n \in Managers, Cuts(n), NEW of \in 0..(n.length - 1), NEW from \in 0..(n.length - 1),
         NEW to \in Int, from = of + 1 \/ from < to, NEW env
  PROVE  Carries(SpreadTurn(env, n, [of |-> of, from |-> from, to |-> to]), n)
<1>1. PICK range : range = [of |-> of, from |-> from, to |-> to]
  OBVIOUS
<1>2. range.of = of /\ range.from = from /\ range.to = to
  BY <1>1
<1>3. PICK c \in 1..Len(n.entries) : c = FindEntry(n, of)
  BY FindEntryFinds
<1>4. PICK d \in Dictionaries : d = n.entries[c].attributes
  BY ManagerFacts
<1>5. PICK own \in Seq(Items) : own = Filter(d, "paragraph", GroupNone) /\ IsWithin(own, d)
  BY FilterResult
<1>6. PICK operation \in Operations : operation = Apply(own)
  BY OperationTypes
<1>7. SpreadTurn(env, n, range) =
        IF own = <<>> THEN n ELSE ApplyOperationOverRange(n, from, to, operation)
  BY <1>2, <1>3, <1>4, <1>5, <1>6 DEF SpreadTurn
<1>8. \/ from < to
      \/ \A e \in 1..Len(n.entries) :
           Covers(n, from, e) /\ n.entries[e].index < from => IsInert(n.entries[e].attributes, operation)
  <2>1. SUFFICES ASSUME from = of + 1, NEW e \in 1..Len(n.entries), Covers(n, from, e),
                        n.entries[e].index < from
                 PROVE  IsInert(n.entries[e].attributes, operation)
    OBVIOUS
  <2>2. n.entries[e].index \in Int /\ EntryEnd(n, e) \in Int /\ of \in Int
    BY ManagerFacts, EndsAreIndices
  <2>3. n.entries[e].index < of + 1 /\ of + 1 < EntryEnd(n, e)
    BY <2>1 DEF Covers
  <2>4. n.entries[e].index <= of /\ of < EntryEnd(n, e)
    BY <2>2, <2>3
  <2>5. Covers(n, of, e)
    BY <2>4 DEF Covers
  <2>6. e = c
    BY <1>3, <2>5, FindEntryFinds
  <2>7. QED
    BY <1>4, <1>5, <1>6, <2>6, OperateOnOwn DEF IsInert
<1>9. CASE own = <<>>
  BY <1>1, <1>7, <1>9, BalancesItself DEF Carries
<1>10. CASE own # <<>>
  <2>1. Carries(ApplyOperationOverRange(n, from, to, operation), n)
    BY <1>8, ApplyOperationIs
  <2>2. QED
    BY <1>1, <1>7, <1>10, <2>1
<1>11. QED
  BY <1>9, <1>10

(* AdjustParagraphAttributesAfterMerge carries the accounts and the cuts.  *)
LEMMA AdjustIs ==
  ASSUME NEW m \in Managers, Cuts(m), NEW u \in Seq(BOOLEAN), Len(u) = m.length,
         NEW joint \in 1..(m.length - 1)
  PROVE  Carries(AdjustParagraphAttributesAfterMerge(m, u, joint), m)
<1>1. m.length \in Nat
  BY ManagerFacts
<1>2. PICK before \in Nat : before = joint - 1
  BY <1>1
<1>3. PICK start \in 0..before : start = ParagraphStart(u, before)
  BY ParagraphStartIs
<1>4. PICK end \in Int : end = ParagraphEnd(u, before)
  <2>1. before \in 0..(Len(u) - 1)
    BY <1>1, <1>2
  <2>2. QED
    BY <2>1, ParagraphEndIs
<1>5. PICK ranges : ranges = <<[of |-> before, from |-> joint, to |-> end],
                               [of |-> joint, from |-> start, to |-> joint]>>
  OBVIOUS
<1>6. ranges = JointRanges(u, joint) /\ DOMAIN ranges = 1..2
  BY <1>2, <1>3, <1>4, <1>5 DEF JointRanges
<1>7. PICK env : env = [manager |-> m]
  OBVIOUS
<1>8. env.manager = m
  BY <1>7
<1>9. SpreadInv(env, 0, m)
  BY <1>8, BalancesItself DEF SpreadInv, Carries
<1>10. ASSUME NEW k \in 1..2, NEW s, SpreadInv(env, k - 1, s)
       PROVE  SpreadInv(env, k, SpreadTurn(env, s, ranges[k]))
  <2>1. Carries(s, m)
    BY <1>8, <1>10 DEF SpreadInv
  <2>2. s \in Managers /\ Cuts(s) /\ s.length = m.length
    BY <2>1 DEF Carries, Balances
  <2>3. before \in 0..(s.length - 1) /\ joint \in 0..(s.length - 1) /\ start \in 0..(s.length - 1)
        /\ joint = before + 1 /\ start < joint /\ joint \in Int
    <3>1. before \in 0..(m.length - 1) /\ joint \in 0..(m.length - 1) /\ start \in 0..(m.length - 1)
          /\ joint = before + 1 /\ start < joint /\ joint \in Int
      BY <1>1, <1>2
    <3>2. QED
      BY <2>2, <3>1
  <2>4. Carries(SpreadTurn(env, s, [of |-> before, from |-> joint, to |-> end]), s)
    BY <2>2, <2>3, SpreadIs
  <2>5. Carries(SpreadTurn(env, s, [of |-> joint, from |-> start, to |-> joint]), s)
    BY <2>2, <2>3, SpreadIs
  <2>6. Carries(SpreadTurn(env, s, ranges[k]), s)
    BY <1>5, <2>4, <2>5
  <2>7. QED
    BY <1>8, <2>1, <2>6, CarriesOnward DEF SpreadInv
<1>11. SpreadInv(env, 2, Spreads!Folded(env, m, ranges))
  <2>1. 2 \in Nat
    OBVIOUS
  <2>2. \A k \in 1..2 : \A s : SpreadInv(env, k - 1, s) => SpreadInv(env, k, SpreadTurn(env, s, ranges[k]))
    BY <1>10
  <2>3. QED
    BY <1>6, <1>9, <2>1, <2>2, Spreads!FoldLeftInvariant
<1>12. AdjustFold(env, m, u, joint) = Spreads!Folded(env, m, ranges)
  <2>1. joint > 0 /\ joint < m.length
    BY <1>1
  <2>2. QED
    BY <1>6, <2>1 DEF AdjustFold
<1>13. QED
  BY <1>8, <1>11, <1>12, AdjustIsFold DEF SpreadInv

-----------------------------------------------------------------------------
(* Units are replaced.                                                     *)

(* The last entry takes the units that are appended, or all of them.       *)
LEMMA GrownIs ==
  ASSUME NEW m \in Managers, WellCut(m), NEW delta \in Int, m.length + delta \in Nat,
         Len(m.entries) = 1 \/ delta > 0
  PROVE  IsMoved([m EXCEPT !.length = @ + delta], m, delta)
<1>1. PICK length \in Nat : length = m.length + delta
  OBVIOUS
<1>2. PICK E \in Seq(Entry) : E = m.entries
  BY ManagerFacts
<1>3. PICK n : n = [m EXCEPT !.entries = E, !.length = length]
  OBVIOUS
<1>4. n = [m EXCEPT !.length = @ + delta]
  BY <1>1, <1>2, <1>3 DEF Managers
<1>5. SameBooks(n, m) /\ n.entries = m.entries /\ n.length = length
  <2>1. Len(E) = Len(m.entries) /\ \A k \in 1..Len(m.entries) : E[k].attributes = m.entries[k].attributes
    BY <1>2
  <2>2. SameBooks(n, m) /\ n.entries = E /\ n.length = length
    BY <1>3, <2>1, MovedIs
  <2>3. QED
    BY <1>2, <2>2
<1>6. PICK l \in Nat : l = Len(m.entries)
  BY ManagerFacts
<1>7. n \in Managers /\ Len(n.entries) = l
  BY <1>5, <1>6 DEF SameBooks
<1>8. /\ \A k \in 1..l : Cut(n, k) = Cut(m, k) /\ Cut(m, k) \in Int
      /\ Cut(n, l + 1) = length /\ Cut(m, l + 1) = m.length
  <2>1. \A k \in 1..l : k <= l /\ k \in 1..(l + 1)
    OBVIOUS
  <2>2. QED
    BY <1>5, <1>6, <1>7, <2>1, CutsByNumber DEF Cut
<1>9. WellCut(n)
  <2>1. CASE l = 1
    <3>1. m.entries[1].index = 0
      BY DEF WellCut, Cuts
    <3>2. CASE length = 0
      BY <1>5, <1>6, <2>1, <3>1, <3>2 DEF WellCut
    <3>3. CASE length # 0
      <4>1. 1 \in 1..l /\ 1 <= l
        BY <2>1
      <4>2. Cut(n, 1) = 0
        BY <1>6, <1>8, <3>1, <4>1, CutsByNumber
      <4>3. \A e \in 1..l : Cut(n, e) < Cut(n, e + 1)
        BY <1>8, <2>1, <3>3, <4>2
      <4>4. QED
        BY <1>7, <4>1, <4>2, <4>3, CutsByNumber DEF WellCut
    <3>4. QED
      BY <3>2, <3>3
  <2>2. CASE l # 1
    <3>1. Cuts(m) /\ delta > 0
      BY <1>6, <2>2 DEF WellCut
    <3>2. 1 <= l /\ Cut(m, 1) = 0 /\ \A e \in 1..l : Cut(m, e) < Cut(m, e + 1)
      BY <1>6, <3>1, CutsByNumber
    <3>3. Cut(n, 1) = 0
      BY <1>8, <3>2
    <3>4. ASSUME NEW e \in 1..l PROVE Cut(n, e) < Cut(n, e + 1)
      <4>1. CASE e < l
        <5>1. e + 1 \in 1..l
          BY <4>1
        <5>2. QED
          BY <1>8, <3>2, <5>1
      <4>2. CASE e = l
        <5>1. Cut(m, l) < m.length /\ Cut(m, l) \in Int
          BY <1>8, <3>2, <4>2
        <5>2. m.length \in Nat
          BY ManagerFacts
        <5>3. Cut(m, l) < length
          BY <1>1, <3>1, <5>1, <5>2
        <5>4. QED
          BY <1>8, <4>2, <5>3
      <4>3. QED
        BY <4>1, <4>2
    <3>5. QED
      BY <1>7, <3>2, <3>3, <3>4, CutsByNumber DEF WellCut
  <2>3. QED
    BY <2>1, <2>2
<1>10. QED
  BY <1>1, <1>4, <1>5, <1>9 DEF IsMoved

(* What follows the uncovering, for every replaced range and new length.   *)
LEMMA ShiftAndAdjustIs ==
  ASSUME NEW m, NEW first, NEW start, NEW end, IsEdited(m, first, start, end),
         NEW newLength \in Nat, NEW oldLength \in Nat, oldLength = end - start,
         newLength > 0 \/ start < end, NEW u \in Seq(BOOLEAN),
         Len(u) = m.length + (newLength - oldLength),
         NEW kept, kept = IF newLength = 0 THEN DropDeletedEntry(m, first, start, end) ELSE m
  PROVE  IsMoved(ShiftAndAdjust(m, kept, u, first, start, oldLength, newLength),
                 m, newLength - oldLength)
<1>1. PICK delta \in Int : delta = newLength - oldLength
  OBVIOUS
<1>2. PICK h : h = Shifted(kept, ShiftFrom(kept, m, first), delta)
  OBVIOUS
<1>3. IsMoved(h, m, delta)
  BY <1>1, <1>2, ReplacedIsMoved
<1>4. h \in Managers /\ WellCut(h) /\ SameBooks(h, m) /\ h.length = m.length + delta
  BY <1>3 DEF IsMoved, SameBooks
<1>5. PICK joint \in Nat : joint = start + newLength
  BY DEF IsEdited
<1>6. ShiftAndAdjust(m, kept, u, first, start, oldLength, newLength)
        = IF newLength = 0 \/ oldLength > 0
          THEN AdjustParagraphAttributesAfterMerge(h, u, joint) ELSE h
  BY <1>1, <1>2, <1>5 DEF ShiftAndAdjust, Shifted, ShiftFrom
<1>7. PICK n : n = AdjustParagraphAttributesAfterMerge(h, u, joint)
  OBVIOUS
<1>8. IsMoved(n, m, delta)
  <2>1. CASE joint > 0 /\ joint < h.length
    <3>1. Cuts(h) /\ joint \in 1..(h.length - 1) /\ Len(u) = h.length
      <4>1. h.length \in Nat
        BY <1>4, ManagerFacts
      <4>2. h.length # 0
        BY <2>1, <4>1
      <4>3. QED
        BY <1>1, <1>4, <2>1, <4>1, <4>2 DEF WellCut
    <3>2. Carries(n, h)
      BY <1>4, <1>7, <3>1, AdjustIs
    <3>3. SameBooks(n, h) /\ n.length = h.length /\ Cuts(n)
      BY <3>1, <3>2, BalancesIsSameBooks DEF Carries
    <3>4. QED
      BY <1>4, <3>3, SameBooksOnward DEF IsMoved, WellCut
  <2>2. CASE ~(joint > 0 /\ joint < h.length)
    <3>1. n = h
      BY <1>7, <2>2 DEF AdjustParagraphAttributesAfterMerge
    <3>2. QED
      BY <1>3, <3>1
  <2>3. QED
    BY <2>1, <2>2
<1>9. QED
  BY <1>1, <1>3, <1>6, <1>7, <1>8

(* AttributeManagerReplaceRange, for every text and every edit that        *)
(* changes something of it.                                                *)
LEMMA ReplaceRangeIs ==
  ASSUME NEW m \in Managers, WellCut(m), NEW u \in Seq(BOOLEAN), NEW start \in Nat,
         NEW oldLength \in Nat, NEW newLength \in Nat, start + oldLength <= m.length,
         oldLength > 0 \/ newLength > 0, Len(u) = m.length + (newLength - oldLength)
  PROVE  IsMoved(ReplaceRange(m, u, start, oldLength, newLength), m, newLength - oldLength)
<1>1. PICK length \in Nat : length = m.length
  BY ManagerFacts
<1>2. PICK delta \in Int : delta = newLength - oldLength
  OBVIOUS
<1>3. PICK end \in Nat : end = start + oldLength
  OBVIOUS
<1>4. CASE start = m.length \/ Len(m.entries) = 1
  <2>1. [m EXCEPT !.length = @ + newLength - oldLength] = [m EXCEPT !.length = @ + delta]
    <3>1. length + newLength - oldLength = length + delta
      BY <1>2
    <3>2. QED
      BY <1>1, <3>1
  <2>2. ReplaceRange(m, u, start, oldLength, newLength) = [m EXCEPT !.length = @ + delta]
    BY <1>4, <2>1 DEF ReplaceRange
  <2>3. Len(m.entries) = 1 \/ delta > 0
    <3>1. CASE start = m.length
      <4>1. start = length /\ start + oldLength <= length
        BY <1>1, <3>1
      <4>2. QED
        BY <1>2, <4>1
    <3>2. QED
      BY <1>4, <3>1
  <2>4. length + delta \in Nat
    <3>1. start + oldLength <= length
      BY <1>1
    <3>2. QED
      BY <1>2, <3>1
  <2>5. QED
    BY <1>1, <1>2, <2>2, <2>3, <2>4, GrownIs
<1>5. CASE ~(start = m.length \/ Len(m.entries) = 1)
  <2>1. Cuts(m) /\ start < length
    <3>1. start + oldLength <= length /\ start # length
      BY <1>1, <1>5
    <3>2. start < length
      BY <3>1
    <3>3. QED
      BY <1>5, <3>2 DEF WellCut
  <2>2. PICK donor \in 0..(m.length - 1) :
          /\ donor = IF oldLength = 0 /\ start > 0 THEN start - 1 ELSE start
          /\ donor <= start /\ (oldLength = 0 => start <= donor + 1)
    BY <1>1, <2>1
  <2>3. PICK first \in 1..Len(m.entries) : first = FindEntry(m, donor) /\ Covers(m, donor, first)
    BY <2>1, FindEntryFinds
  <2>4. PICK v : v = RemoveCoveredEntries(m, first, end)
    OBVIOUS
  <2>5. end \in 0..m.length
    BY <1>1, <1>3
  <2>6. IsUncovered(v, m, first, end)
    BY <2>1, <2>4, <2>5, RemoveCoveredIs
  <2>7. PICK low \in Int : low = Cut(m, first) /\ low <= donor
    <3>1. m.entries[first].index = Cut(m, first) /\ m.entries[first].index \in Int
      BY CutsByNumber, ManagerFacts
    <3>2. QED
      BY <2>3, <3>1 DEF Covers
  <2>8. v \in Managers /\ v.length = m.length /\ SameBooks(v, m)
    BY <2>6, BalancesIsSameBooks DEF IsUncovered, Balances
  <2>9. IsEdited(v, first, start, end)
    <3>1. low <= start /\ start <= end
      BY <1>1, <1>3, <2>2, <2>7
    <3>2. QED
      BY <2>6, <2>7, <2>8, <3>1 DEF IsEdited, IsUncovered
  <2>10. PICK kept : kept = IF newLength = 0 THEN DropDeletedEntry(v, first, start, end) ELSE v
    OBVIOUS
  <2>11. PICK n : n = ShiftAndAdjust(v, kept, u, first, start, oldLength, newLength)
    OBVIOUS
  <2>12. IsMoved(n, v, newLength - oldLength)
    <3>1. oldLength = end - start /\ (newLength > 0 \/ start < end)
      BY <1>3
    <3>2. Len(u) = v.length + (newLength - oldLength)
      BY <2>8
    <3>3. QED
      BY <2>9, <2>10, <2>11, <3>1, <3>2, ShiftAndAdjustIs
  <2>13. ReplaceRange(m, u, start, oldLength, newLength) = n
    BY <1>3, <1>5, <2>2, <2>3, <2>4, <2>10, <2>11 DEF ReplaceRange
  <2>14. IsMoved(n, m, newLength - oldLength)
    BY <2>8, <2>12, SameBooksOnward DEF IsMoved
  <2>15. QED
    BY <2>13, <2>14
<1>6. QED
  BY <1>4, <1>5

-----------------------------------------------------------------------------
(* The inductive invariant.                                                *)

(* The entries cut the text u, nothing is owed and nothing is spare.       *)
IsSound(u, m) ==
  /\ u \in Seq(BOOLEAN) /\ Len(u) <= MaxLength
  /\ m \in Managers /\ m.length = Len(u) /\ WellCut(m)
  /\ Spare(m) = 0 /\ \A v \in Values : Owes(m, v) = 0

IInv == IsSound(units, manager)

(* A new text is sound.                                                    *)
LEMMA InitIsSound ==
  ASSUME Init
  PROVE  IInv
<1>1. units = <<>> /\ manager = Initialized
  BY DEF Init
<1>2. PICK refs \in References : refs = NoneRetained
  BY NoneRetainedIs
<1>3. PICK m \in Managers :
        /\ m = [Initialized EXCEPT !.refs = refs]
        /\ Len(m.entries) = 1 /\ m.entries[1].index = 0 /\ m.length = 0
        /\ Spare(m) = 0 /\ \A v \in Values : Owes(m, v) = refs[v]
  BY InitializedIs
<1>4. m = manager
  BY <1>1, <1>2, <1>3 DEF Initialized
<1>5. \A v \in Values : Owes(m, v) = 0
  BY <1>2, <1>3, NoneRetainedIs
<1>6. WellCut(m)
  BY <1>3 DEF WellCut
<1>7. PICK u \in Seq(BOOLEAN) : u = units /\ Len(u) = 0
  BY <1>1, EmptySeq
<1>8. 0 <= MaxLength
  BY BoundsAssumption
<1>9. QED
  BY <1>3, <1>4, <1>5, <1>6, <1>7, <1>8 DEF IInv, IsSound

(* A call that leaves the units alone.                                     *)
LEMMA CarriedIsSound ==
  ASSUME NEW u, NEW m, NEW n, IsSound(u, m), Carries(n, m), 0 < Len(u)
  PROVE  IsSound(u, n)
<1>1. Balances(n, m) /\ (Cuts(m) => Cuts(n))
  BY DEF Carries
<1>2. n \in Managers /\ n.length = m.length /\ Spare(n) = Spare(m)
      /\ \A v \in Values : Owes(n, v) = Owes(m, v)
  BY <1>1 DEF Balances
<1>3. Cuts(m)
  <2>1. m.length # 0
    BY DEF IsSound
  <2>2. QED
    BY <2>1 DEF IsSound, WellCut
<1>4. QED
  BY <1>1, <1>2, <1>3 DEF IsSound, WellCut

(* Inserting, deleting, replacing and setting units keep a text sound.      *)
LEMMA ReplaceCodeUnitsIsSound ==
  ASSUME IInv, NEW r \in Ranges, NEW n \in 0..MaxInsert, NEW new \in [1..n -> BOOLEAN],
         ReplaceCodeUnits(r[1], r[2], new)
  PROVE  IInv'
<1>1. /\ units \in Seq(BOOLEAN) /\ manager \in Managers /\ manager.length = Len(units)
      /\ WellCut(manager) /\ Spare(manager) = 0 /\ \A v \in Values : Owes(manager, v) = 0
  BY DEF IInv, IsSound
<1>2. PICK l \in Nat : l = Len(units)
  BY <1>1
<1>3. PICK start \in Nat, old \in Nat : start = r[1] /\ old = r[2] /\ start + old <= l
  BY <1>2, BoundsAssumption DEF Ranges
<1>4. n \in Nat /\ new \in Seq(BOOLEAN) /\ Len(new) = n
  BY BoundsAssumption
<1>5. PICK u : u = SubSeq(units, 1, start) \o new \o SubSeq(units, start + old + 1, Len(units))
  OBVIOUS
<1>6. /\ old > 0 \/ new # <<>>
      /\ l - old + n <= MaxLength
      /\ units' = u
      /\ manager' = ReplaceRange(manager, u, start, old, n)
  BY <1>2, <1>3, <1>4, <1>5 DEF ReplaceCodeUnits
<1>7. u \in Seq(BOOLEAN) /\ Len(u) = l + (n - old)
  <2>1. PICK b \in Nat : b = start + old + 1
    OBVIOUS
  <2>2. start < b /\ b <= l + 1
    BY <1>3, <2>1, SMTT(30)
  <2>3. u \in Seq(BOOLEAN) /\ IsReplaced(u, units, start, new, b)
    BY <1>1, <1>2, <1>4, <1>5, <2>1, <2>2, ReplacedIs
  <2>4. Len(u) = start + n + (l - b + 1)
    BY <1>2, <1>4, <2>3 DEF IsReplaced
  <2>5. start + n + (l - b + 1) = l + (n - old)
    BY <1>4, <2>1
  <2>6. QED
    BY <2>3, <2>4, <2>5
<1>8. old > 0 \/ n > 0
  <2>1. n = 0 => new = <<>>
    BY <1>4
  <2>2. QED
    BY <1>4, <1>6, <2>1
<1>9. PICK m : m = ReplaceRange(manager, u, start, old, n)
  OBVIOUS
<1>10. IsMoved(m, manager, n - old)
  BY <1>1, <1>2, <1>3, <1>4, <1>7, <1>8, <1>9, ReplaceRangeIs
<1>11. /\ m \in Managers /\ m.length = Len(u) /\ WellCut(m) /\ Spare(m) = 0
       /\ \A v \in Values : Owes(m, v) = 0
  BY <1>1, <1>2, <1>7, <1>10 DEF IsMoved, SameBooks
<1>12. Len(u) <= MaxLength
  BY <1>4, <1>6, <1>7, BoundsAssumption
<1>13. QED
  BY <1>6, <1>7, <1>9, <1>11, <1>12 DEF IInv, IsSound

(* So does setting an attribute on units or on paragraphs.                 *)
LEMMA SetAttributeIsSound ==
  ASSUME IInv, NEW r \in Ranges, NEW id \in AttributeIDs, NEW v \in Values,
         SetAttribute(r[1], r[2], id, v)
  PROVE  IInv'
<1>1. units \in Seq(BOOLEAN) /\ manager \in Managers /\ manager.length = Len(units)
  BY DEF IInv, IsSound
<1>2. PICK l \in Nat : l = Len(units)
  BY <1>1
<1>3. PICK start \in Nat, length \in Nat : start = r[1] /\ length = r[2] /\ start + length <= l
  BY <1>2, BoundsAssumption DEF Ranges
<1>4. PICK end \in Nat : end = start + length
  OBVIOUS
<1>5. PICK isParagraph : isParagraph = (Infos[id].scope = "paragraph")
  OBVIOUS
<1>6. PICK from : from = IF Infos[id].scope = "paragraph" THEN ParagraphStart(units, start) ELSE start
  OBVIOUS
<1>7. PICK to : to = IF Infos[id].scope = "paragraph" THEN ParagraphEnd(units, end - 1) ELSE end
  OBVIOUS
<1>8. PICK operation \in Operations : operation = Apply(Put(<<>>, NoRegistry, id, v).dict)
  BY PutIntoEmpty, OperationTypes DEF Dictionaries
<1>9. /\ length > 0 /\ units' = units
      /\ manager' = ApplyOperationOverRange(manager, from, to, operation)
  BY <1>3, <1>4, <1>6, <1>7, <1>8 DEF SetAttribute
<1>10. from \in 0..start
  <2>1. ParagraphStart(units, start) \in 0..start
    BY ParagraphStartIs
  <2>2. QED
    BY <1>6, <2>1
<1>11. to \in end..l
  <2>1. PICK i \in 0..(l - 1) : i = end - 1
    BY <1>3, <1>4, <1>9
  <2>2. ParagraphEnd(units, i) \in (i + 1)..l
    BY <1>1, <1>2, ParagraphEndIs
  <2>3. i + 1 = end /\ end \in end..l
    BY <1>3, <1>4, <2>1
  <2>4. QED
    BY <1>7, <2>1, <2>2, <2>3
<1>12. from \in 0..(manager.length - 1) /\ from < to /\ to \in Int /\ 0 < l
  <2>1. from \in 0..(l - 1) /\ from < to /\ to \in Int /\ 0 < l
    BY <1>3, <1>4, <1>9, <1>10, <1>11
  <2>2. QED
    BY <1>1, <1>2, <2>1
<1>13. Cuts(manager)
  <2>1. manager.length # 0
    BY <1>1, <1>2, <1>12
  <2>2. QED
    BY <2>1 DEF IInv, IsSound, WellCut
<1>14. PICK m : m = ApplyOperationOverRange(manager, from, to, operation)
  OBVIOUS
<1>15. Carries(m, manager)
  BY <1>1, <1>12, <1>13, <1>14, ApplyOperationIs
<1>16. IsSound(units, m)
  BY <1>2, <1>12, <1>15, CarriedIsSound DEF IInv
<1>17. QED
  BY <1>9, <1>14, <1>16 DEF IInv

(* The range of SBTextRemoveAttribute stays in the text as it is shrunk.   *)
LEMMA ShrunkIs ==
  ASSUME NEW l \in Nat, units \in Seq(BOOLEAN), l = Len(units),
         NEW start \in Nat, NEW end \in Nat, start < end, end <= l
  PROVE  /\ ShrunkStart(start, end) \in 0..l
         /\ \A from \in 0..l : ShrunkEnd(from, end) \in 0..l
<1>1. ParagraphEnd(units, start) \in (start + 1)..l
  <2>1. start \in 0..(l - 1)
    OBVIOUS
  <2>2. QED
    BY <2>1, ParagraphEndIs
<1>2. ShrunkStart(start, end) \in 0..l
  <2>1. PICK S : S = {ParagraphEnd(units, start), end}
    OBVIOUS
  <2>2. S \in SUBSET (0..l) /\ S \in SUBSET Nat /\ S # {}
    BY <1>1, <2>1
  <2>3. Min(S) \in 0..l
    BY <2>2, SmallestIs
  <2>4. QED
    BY <2>1, <2>3 DEF ShrunkStart
<1>3. ASSUME NEW from \in 0..l PROVE ShrunkEnd(from, end) \in 0..l
  <2>1. PICK i \in Nat : i = end - 1
    OBVIOUS
  <2>2. ParagraphStart(units, i) \in 0..i
    BY ParagraphStartIs
  <2>3. PICK S : S = {ParagraphStart(units, i), from}
    OBVIOUS
  <2>4. S \in SUBSET (0..l) /\ S # {}
    BY <2>1, <2>2, <2>3
  <2>5. Max(S) \in 0..l
    BY <2>4, GreatestIs
  <2>6. QED
    BY <2>1, <2>3, <2>5 DEF ShrunkEnd
<1>4. QED
  BY <1>2, <1>3

(* Removing an attribute keeps a text sound.                               *)
LEMMA RemoveAttributeIsSound ==
  ASSUME IInv, NEW r \in Ranges, NEW id \in AttributeIDs, RemoveAttribute(r[1], r[2], id)
  PROVE  IInv'
<1>1. units \in Seq(BOOLEAN) /\ manager \in Managers /\ manager.length = Len(units)
  BY DEF IInv, IsSound
<1>2. PICK l \in Nat : l = Len(units)
  BY <1>1
<1>3. PICK start \in Nat, length \in Nat : start = r[1] /\ length = r[2] /\ start + length <= l
  BY <1>2, BoundsAssumption DEF Ranges
<1>4. PICK end \in Nat : end = start + length
  OBVIOUS
<1>5. PICK from : from = IF Infos[id].scope = "paragraph" THEN ShrunkStart(start, end) ELSE start
  OBVIOUS
<1>6. PICK to : to = IF Infos[id].scope = "paragraph" /\ end > from THEN ShrunkEnd(from, end) ELSE end
  OBVIOUS
<1>7. PICK operation \in Operations : operation = Removal(id)
  BY OperationTypes
<1>8. /\ length > 0 /\ units' = units
      /\ manager' = IF to > from THEN ApplyOperationOverRange(manager, from, to, operation) ELSE manager
  BY <1>3, <1>4, <1>5, <1>6, <1>7 DEF RemoveAttribute
<1>9. from \in 0..l /\ to \in 0..l
  <2>1. start < end /\ end <= l /\ start \in 0..l /\ end \in 0..l
    BY <1>3, <1>4, <1>8
  <2>2. ShrunkStart(start, end) \in 0..l /\ \A f \in 0..l : ShrunkEnd(f, end) \in 0..l
    BY <1>1, <1>2, <2>1, ShrunkIs
  <2>3. from \in 0..l
    BY <1>5, <2>1, <2>2
  <2>4. QED
    BY <1>6, <2>1, <2>2, <2>3
<1>10. CASE to > from
  <2>1. from \in 0..(manager.length - 1) /\ from < to /\ to \in Int /\ 0 < l
    <3>1. from \in 0..(l - 1) /\ from < to /\ to \in Int /\ 0 < l
      BY <1>9, <1>10
    <3>2. QED
      BY <1>1, <1>2, <3>1
  <2>2. Cuts(manager)
    <3>1. manager.length # 0
      BY <1>1, <1>2, <2>1
    <3>2. QED
      BY <3>1 DEF IInv, IsSound, WellCut
  <2>3. PICK m : m = ApplyOperationOverRange(manager, from, to, operation)
    OBVIOUS
  <2>4. Carries(m, manager)
    BY <1>1, <2>1, <2>2, <2>3, ApplyOperationIs
  <2>5. IsSound(units, m)
    BY <1>2, <2>1, <2>4, CarriedIsSound DEF IInv
  <2>6. QED
    BY <1>8, <1>10, <2>3, <2>5 DEF IInv
<1>11. CASE ~(to > from)
  BY <1>8, <1>11 DEF IInv
<1>12. QED
  BY <1>10, <1>11

(* The copy of a sound text is sound.                                      *)
LEMMA CopyTextIsSound ==
  ASSUME IInv, CopyText
  PROVE  IInv'
<1>1. manager \in Managers /\ Spare(manager) = 0
  BY DEF IInv, IsSound
<1>2. PICK n : n = [CopyAttributes(manager, manager.refs) EXCEPT !.refs = RefsAfterFinalize(manager, @)]
  OBVIOUS
<1>3. Balances(n, manager) /\ n.entries = manager.entries
  BY <1>1, <1>2, CopyTextIs
<1>4. units' = units /\ manager' = n
  BY <1>2 DEF CopyText
<1>5. n \in Managers /\ n.length = manager.length /\ Spare(n) = 0
      /\ \A v \in Values : Owes(n, v) = Owes(manager, v)
  BY <1>1, <1>3 DEF Balances
<1>6. Cuts(manager) => Cuts(n)
  BY <1>1, <1>3, SameEntriesCarry DEF Carries
<1>7. WellCut(n)
  BY <1>3, <1>5, <1>6 DEF IInv, IsSound, WellCut
<1>8. IsSound(units, n)
  BY <1>5, <1>7 DEF IInv, IsSound
<1>9. QED
  BY <1>4, <1>8 DEF IInv

(* Setting the text replaces all of it.                                    *)
LEMMA SetCodeUnitsIsSound ==
  ASSUME IInv, NEW n \in 0..MaxInsert, NEW new \in [1..n -> BOOLEAN], SetCodeUnits(new)
  PROVE  IInv'
<1>1. PICK l \in Nat : l = Len(units) /\ l <= MaxLength
  BY DEF IInv, IsSound
<1>2. <<0, l>> \in Ranges
  <2>1. 0 \in 0..MaxLength /\ l \in 0..MaxLength /\ 0 + l <= l
    BY <1>1, BoundsAssumption
  <2>2. QED
    BY <1>1, <2>1 DEF Ranges
<1>3. PICK r \in Ranges : r = <<0, l>>
  BY <1>2
<1>4. r[1] = 0 /\ r[2] = l
  BY <1>3
<1>5. ReplaceCodeUnits(r[1], r[2], new)
  BY <1>1, <1>4 DEF SetCodeUnits
<1>6. QED
  BY <1>5, ReplaceCodeUnitsIsSound

(* No operation of the text breaks it.                                     *)
THEOREM SpecIInv == Spec => []IInv
<1>1. Init => IInv
  BY InitIsSound
<1>2. IInv /\ [Next]_vars => IInv'
  <2> SUFFICES ASSUME IInv, [Next]_vars PROVE IInv'
    OBVIOUS
  <2>1. CASE \E r \in Ranges, n \in 0..MaxInsert : \E new \in [1..n -> BOOLEAN] :
               ReplaceText(r[1], r[2], new)
    BY <2>1, ReplaceCodeUnitsIsSound DEF ReplaceText
  <2>2. CASE \E r \in Ranges, id \in AttributeIDs, v \in Values : SetAttribute(r[1], r[2], id, v)
    BY <2>2, SetAttributeIsSound
  <2>3. CASE \E r \in Ranges, id \in AttributeIDs : RemoveAttribute(r[1], r[2], id)
    BY <2>3, RemoveAttributeIsSound
  <2>4. CASE CopyText
    BY <2>4, CopyTextIsSound
  <2>5. CASE \E n \in 0..MaxInsert : \E new \in [1..n -> BOOLEAN] : SetCodeUnits(new)
    BY <2>5, SetCodeUnitsIsSound
  <2>6. CASE UNCHANGED vars
    BY <2>6 DEF vars, IInv
  <2>7. QED
    BY <2>1, <2>2, <2>3, <2>4, <2>5, <2>6 DEF Next
<1>3. QED
  BY <1>1, <1>2, PTL DEF Spec

(* Entries start in the text.                                              *)
LEMMA SoundIndices ==
  ASSUME IInv
  PROVE  \A e \in 1..Len(manager.entries) : manager.entries[e].index \in 0..Len(units)
<1>1. manager \in Managers /\ manager.length = Len(units) /\ WellCut(manager)
  BY DEF IInv, IsSound
<1>2. ASSUME NEW e \in 1..Len(manager.entries)
      PROVE  manager.entries[e].index \in 0..Len(units)
  <2>1. CASE Cuts(manager)
    <3>1. PICK i \in Int, end \in Int, l \in Nat :
            i = manager.entries[e].index /\ end = EntryEnd(manager, e) /\ l = manager.length
      BY <1>1, ManagerFacts, EndsAreIndices
    <3>2. i < end
      BY <2>1, <3>1 DEF Cuts
    <3>3. 0 <= i /\ end <= l
      BY <1>1, <2>1, <3>1, CutsAscend
    <3>4. i \in 0..l
      BY <3>2, <3>3
    <3>5. QED
      BY <1>1, <3>1, <3>4
  <2>2. CASE manager.length = 0 /\ Len(manager.entries) = 1 /\ manager.entries[1].index = 0
    <3>1. e = 1
      BY <2>2
    <3>2. QED
      BY <1>1, <2>2, <3>1
  <2>3. QED
    BY <1>1, <2>1, <2>2 DEF WellCut
<1>3. QED
  BY <1>2

(* What the entries hold of a value is what the manager has retained of it. *)
LEMMA SoundReferences ==
  ASSUME IInv, NEW v \in Values
  PROVE  manager.refs[v] = Total(manager.entries, v) /\ Total(manager.entries, v) \in Nat
<1>1. manager \in Managers /\ Owes(manager, v) = 0
  BY DEF IInv, IsSound
<1>2. PICK r \in Int, t \in Nat : r = manager.refs[v] /\ t = Total(manager.entries, v)
  BY <1>1, AccountsAreNumbers
<1>3. r - t = 0
  BY <1>1, <1>2 DEF Owes
<1>4. r = t
  BY <1>3
<1>5. QED
  BY <1>2, <1>4

(* The manager keeps its shape: every entry has a dictionary over the      *)
(* registered attributes that is sorted by them without repetition, as the *)
(* binary searches of AttributeDictionary.c need it, through all splits,   *)
(* merges, filters and removals; and no reference count is negative.       *)
THEOREM SpecTypeOK == Spec => []TypeOK
<1>1. IInv => TypeOK
  <2> SUFFICES ASSUME IInv PROVE TypeOK
    OBVIOUS
  <2>1. manager \in Managers /\ manager.length = Len(units) /\ units \in Seq(BOOLEAN)
        /\ Len(units) <= MaxLength
    BY DEF IInv, IsSound
  <2>2. PICK l \in Nat : l = Len(units) /\ l <= MaxLength
    BY <2>1
  <2>3. manager.length \in 0..MaxLength
    BY <2>1, <2>2, BoundsAssumption
  <2>4. manager.refs \in [Values -> Nat]
    <3>1. manager.refs \in [Values -> Int]
      BY <2>1, ManagerFacts DEF References
    <3>2. \A v \in Values : manager.refs[v] \in Nat
      BY SoundReferences
    <3>3. QED
      BY <3>1, <3>2
  <2>5. ASSUME NEW e \in DOMAIN manager.entries
        PROVE  LET dict == manager.entries[e].attributes
               IN  /\ manager.entries[e].index \in 0..MaxLength
                   /\ \A k \in DOMAIN dict :
                         /\ dict[k].id \in AttributeIDs /\ dict[k].value \in Values
                         /\ k > 1 => dict[k - 1].id < dict[k].id
    <3>1. e \in 1..Len(manager.entries)
      BY <2>1, ManagerFacts
    <3>2. manager.entries[e].index \in 0..MaxLength
      <4>1. manager.entries[e].index \in 0..l
        BY <2>2, <3>1, SoundIndices
      <4>2. QED
        BY <2>2, <4>1, BoundsAssumption
    <3>3. PICK dict \in Dictionaries : dict = manager.entries[e].attributes
      BY <2>1, <3>1, ManagerFacts
    <3>4. ASSUME NEW k \in DOMAIN dict
          PROVE  /\ dict[k].id \in AttributeIDs /\ dict[k].value \in Values
                 /\ k > 1 => dict[k - 1].id < dict[k].id
      <4>1. k \in 1..Len(dict)
        BY DictionaryFacts
      <4>2. dict[k].id \in AttributeIDs /\ dict[k].value \in Values
        BY <4>1, DictionaryFacts
      <4>3. ASSUME k > 1 PROVE dict[k - 1].id < dict[k].id
        <5>1. PICK j \in 1..Len(dict) : j = k - 1 /\ j < k
          BY <4>1, <4>3
        <5>2. dict[j].id < dict[k].id
          BY <4>1, <5>1, DictionaryFacts
        <5>3. QED
          BY <5>1, <5>2
      <4>4. QED
        BY <4>2, <4>3
    <3>5. QED
      BY <3>2, <3>3, <3>4
  <2>6. manager.cached \in Nat /\ manager.created \in Nat
    BY <2>1, ManagerFacts
  <2>7. QED
    BY <2>1, <2>3, <2>4, <2>5, <2>6 DEF TypeOK
<1>2. QED
  BY <1>1, SpecIInv, PTL

(* However AttributeManager.c splits, removes, clips and shifts its        *)
(* entries, they cut the text into pieces that are not empty, from its     *)
(* first unit to its last: every code unit is covered by just one entry.   *)
THEOREM SpecEntriesPartitionText == Spec => []EntriesPartitionText
<1>1. IInv => EntriesPartitionText
  <2> SUFFICES ASSUME IInv PROVE EntriesPartitionText
    OBVIOUS
  <2>1. manager \in Managers /\ manager.length = Len(units) /\ units \in Seq(BOOLEAN)
        /\ WellCut(manager)
    BY DEF IInv, IsSound
  <2>2. PICK l \in Nat : l = Len(manager.entries) /\ DOMAIN manager.entries = 1..l
    BY <2>1, ManagerFacts
  <2>3. units = <<>> <=> manager.length = 0
    BY <2>1, EmptySeq
  <2>4. CASE Cuts(manager)
    <3>1. 1 <= l /\ manager.entries[1].index = 0
          /\ \A e \in 1..l : manager.entries[e].index < EntryEnd(manager, e)
      BY <2>2, <2>4 DEF Cuts
    <3>2. manager.length # 0
      <4>1. 1 \in 1..l
        BY <3>1
      <4>2. PICK end \in Int : end = EntryEnd(manager, 1) /\ 0 < end /\ end <= manager.length
        BY <2>1, <2>2, <2>4, <3>1, <4>1, EndsAreIndices, CutsAscend
      <4>3. QED
        BY <4>2
    <3>3. manager.entries # <<>>
      BY <2>2, <3>1, EmptySeq
    <3>4. QED
      BY <2>1, <2>2, <2>3, <3>1, <3>2, <3>3 DEF EntriesPartitionText
  <2>5. CASE manager.length = 0 /\ Len(manager.entries) = 1 /\ manager.entries[1].index = 0
    <3>1. manager.entries # <<>>
      BY <2>5, EmptySeq
    <3>2. QED
      BY <2>1, <2>3, <2>5, <3>1 DEF EntriesPartitionText
  <2>6. QED
    BY <2>1, <2>4, <2>5 DEF WellCut
<1>2. QED
  BY <1>1, SpecIInv, PTL

(* Whatever dictionaries were copied, merged, split and given up, a value  *)
(* that clients attach is retained exactly as often as the entries hold    *)
(* it: none leaks, none is released twice, and its count is never below    *)
(* zero.                                                                   *)
THEOREM SpecValuesAccounted == Spec => []ValuesAccounted
<1>1. IInv => ValuesAccounted
  <2> SUFFICES ASSUME IInv, NEW v \in Values
               PROVE  manager.refs[v]
                        = Cardinality({p \in (DOMAIN manager.entries) \X AttributeIDs :
                            FindValue(manager.entries[p[1]].attributes, p[2]) = {v}})
    BY DEF ValuesAccounted
  <2>1. manager \in Managers
    BY DEF IInv, IsSound
  <2>2. PICK l \in Nat : l = Len(manager.entries) /\ DOMAIN manager.entries = 1..l
    BY <2>1, ManagerFacts
  <2>3. ASSUME NEW p \in (1..l) \X AttributeIDs
        PROVE  FindValue(manager.entries[p[1]].attributes, p[2]) = {v}
                 <=> Has(manager.entries[p[1]].attributes, p[2], v)
    <3>1. PICK e \in 1..l, id \in AttributeIDs : e = p[1] /\ id = p[2]
      OBVIOUS
    <3>2. manager.entries[e].attributes \in Dictionaries
      BY <2>1, <2>2, ManagerFacts
    <3>3. FindValue(manager.entries[e].attributes, id) = {v} <=> Has(manager.entries[e].attributes, id, v)
      BY <3>2, FindValueIs
    <3>4. QED
      BY <3>1, <3>3
  <2>4. {p \in (DOMAIN manager.entries) \X AttributeIDs :
            FindValue(manager.entries[p[1]].attributes, p[2]) = {v}}
          = HoldersTo(manager.entries, l, v)
    BY <2>2, <2>3 DEF HoldersTo
  <2>5. QED
    BY <2>2, <2>4, SoundReferences DEF Total, TotalTo
<1>2. QED
  BY <1>1, SpecIInv, PTL

(* Every dictionary that was created is the attributes of one entry or     *)
(* waits in the cache.                                                     *)
THEOREM SpecDictionariesAccounted == Spec => []DictionariesAccounted
<1>1. IInv => DictionariesAccounted
  <2> SUFFICES ASSUME IInv PROVE DictionariesAccounted
    OBVIOUS
  <2>1. manager \in Managers /\ Spare(manager) = 0
    BY DEF IInv, IsSound
  <2>2. PICK created \in Nat, cached \in Nat, l \in Nat :
          created = manager.created /\ cached = manager.cached /\ l = Len(manager.entries)
    BY <2>1, ManagerFacts
  <2>3. created - cached - l = 0
    BY <2>1, <2>2 DEF Spare
  <2>4. created = l + cached
    BY <2>3
  <2>5. QED
    BY <2>2, <2>4 DEF DictionariesAccounted
<1>2. QED
  BY <1>1, SpecIInv, PTL
=============================================================================
