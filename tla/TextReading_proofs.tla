-------------------------- MODULE TextReading_proofs --------------------------
(* That readers stay in the text, hold lines that fit and release them, and    *)
(* give the maximal runs of the range; that lines are as rules L1 and L2 say;  *)
(* and that mirror locators give the mirrored code points of a line, in the    *)
(* order of display.                                                           *)
EXTENDS TextReading, FiniteSetTheorems, SequenceTheorems, TLAPS

Numbers == INSTANCE FoldTheorems WITH Op <- LAMBDA env, st, e : st, Inv <- LAMBDA env, k, st : TRUE

-----------------------------------------------------------------------------
(* Least and greatest elements, and sums that wrap around.                 *)

LEMMA MinIs ==
  ASSUME NEW S, S \subseteq Nat, S # {}
  PROVE  Min(S) \in S /\ Min(S) \in Nat /\ \A y \in S : Min(S) <= y
<1>1. PICK m \in S : \A k \in S : m <= k
  BY Numbers!LeastNatural
<1>2. \E x \in S : \A y \in S : x <= y
  BY <1>1
<1>3. Min(S) \in S /\ \A y \in S : Min(S) <= y
  BY <1>2 DEF Min
<1>4. QED
  BY <1>3

LEMMA MaxIs ==
  ASSUME NEW n \in Nat, NEW S, S \subseteq 0..n, S # {}
  PROVE  Max(S) \in S /\ Max(S) \in 0..n /\ \A y \in S : y <= Max(S)
<1> DEFINE T == {m \in Nat : \A x \in S : x <= m}
<1>1. n \in T
  OBVIOUS
<1>2. PICK t \in T : \A u \in T : t <= u
  <2>1. T \in SUBSET Nat /\ T # {}
    BY <1>1
  <2> HIDE DEF T
  <2>2. QED
    BY <2>1, Numbers!LeastNatural
<1>3. t \in S
  <2>1. SUFFICES ASSUME t \notin S PROVE FALSE
    OBVIOUS
  <2>2. \A x \in S : x <= t /\ x # t /\ x \in Nat
    BY <2>1
  <2>3. PICK x \in S : TRUE
    OBVIOUS
  <2>4. t \in Nat /\ t > 0
    BY <2>2, <2>3
  <2>5. \A y \in S : y <= t - 1
    BY <2>2, <2>4
  <2>6. t - 1 \in T
    BY <2>4, <2>5
  <2>7. QED
    BY <1>2, <2>4, <2>6
<1>4. \A y \in S : t >= y
  BY <1>3
<1>5. Max(S) \in S /\ \A y \in S : Max(S) >= y
  BY <1>3, <1>4 DEF Max
<1>6. QED
  BY <1>5

LEMMA Greater ==
  ASSUME NEW a \in Int, NEW b \in Int
  PROVE  Max({a, b}) = IF a <= b THEN b ELSE a
<1>1. CASE a <= b
  <2>1. \A x \in {a, b} : (\A y \in {a, b} : x >= y) <=> x = b
    BY <1>1
  <2>2. QED
    BY <1>1, <2>1 DEF Max
<1>2. CASE ~(a <= b)
  <2>1. \A x \in {a, b} : (\A y \in {a, b} : x >= y) <=> x = a
    BY <1>2
  <2>2. QED
    BY <1>2, <2>1 DEF Max
<1>3. QED
  BY <1>1, <1>2

LEMMA Lesser ==
  ASSUME NEW a \in Int, NEW b \in Int
  PROVE  Min({a, b}) = IF a <= b THEN a ELSE b
<1>1. CASE a <= b
  <2>1. \A x \in {a, b} : (\A y \in {a, b} : x <= y) <=> x = a
    BY <1>1
  <2>2. QED
    BY <1>1, <2>1 DEF Min
<1>2. CASE ~(a <= b)
  <2>1. \A x \in {a, b} : (\A y \in {a, b} : x <= y) <=> x = b
    BY <1>2
  <2>2. QED
    BY <1>2, <2>1 DEF Min
<1>3. QED
  BY <1>1, <1>2

LEMMA Wraps ==
  ASSUME NEW m \in Nat \ {0}, NEW x \in Nat, x < m + m
  PROVE  x % m = IF x < m THEN x ELSE x - m
  OBVIOUS

IsCut(t) ==
  /\ Len(t.units) \in 0..SBInvalidIndex
  /\ Len(t.paragraphs) \in Nat /\ DOMAIN t.paragraphs = 1..Len(t.paragraphs)
  /\ Len(t.paragraphs) = 0 => Len(t.units) = 0
  /\ \A k \in 1..Len(t.paragraphs) :
        LET p == t.paragraphs[k]
        IN  /\ p.index \in Nat /\ p.length \in Nat \ {0}
            /\ p.index = IF k = 1 THEN 0 ELSE ParagraphLimit(t.paragraphs[k - 1])
            /\ ParagraphLimit(p) <= Len(t.units)
            /\ k = Len(t.paragraphs) => ParagraphLimit(p) = Len(t.units)
            /\ p.baseLevel \in SBLevels
            /\ p.types \in [1..p.length -> BidiTypes]
            /\ p.levels \in [1..p.length -> SBLevels]
            /\ \A i \in 1..p.length : p.baseLevel <= p.levels[i]
            /\ DOMAIN p.scripts = 1..p.length

StartOf(t, k) == t.paragraphs[k].index
LimitOf(t, k) == ParagraphLimit(t.paragraphs[k])

LEMMA CutFacts ==
  ASSUME NEW t, IsCut(t)
  PROVE  \A k \in 1..Len(t.paragraphs) :
            /\ StartOf(t, k) \in Nat /\ LimitOf(t, k) \in Nat
            /\ StartOf(t, k) < LimitOf(t, k) /\ LimitOf(t, k) <= Len(t.units)
            /\ k = 1 => StartOf(t, k) = 0
            /\ k # 1 => StartOf(t, k) = LimitOf(t, k - 1)
            /\ k = Len(t.paragraphs) => LimitOf(t, k) = Len(t.units)
  BY SMTT(40) DEF IsCut, StartOf, LimitOf, ParagraphLimit

(* Every unit is in a paragraph.                                           *)
LEMMA UnitHasParagraph ==
  ASSUME NEW t, IsCut(t), NEW i \in Nat, i < Len(t.units)
  PROVE  \E k \in DOMAIN t.paragraphs : StartOf(t, k) <= i /\ i < LimitOf(t, k)
<1> DEFINE n == Len(t.paragraphs)
           T == {k \in 1..n : i < LimitOf(t, k)}
<1>0. n \in Nat /\ DOMAIN t.paragraphs = 1..n /\ n # 0 /\ Len(t.units) \in Nat
  BY DEF IsCut
<1> HIDE DEF n
<1>1. n \in T
  BY <1>0, CutFacts DEF n
<1>2. PICK k \in T : \A j \in T : k <= j
  <2>1. T \in SUBSET Nat /\ T # {}
    BY <1>0, <1>1
  <2> HIDE DEF T
  <2>2. QED
    BY <2>1, Numbers!LeastNatural
<1>3. k = 1 => StartOf(t, k) = 0
  BY CutFacts DEF n
<1>4. k # 1 => k - 1 \in 1..n /\ StartOf(t, k) = LimitOf(t, k - 1) /\ k - 1 \notin T /\ LimitOf(t, k - 1) \in Nat
  <2>1. k # 1 => k - 1 \in 1..n
    BY <1>0
  <2>2. k - 1 \notin T
    BY <1>0, <1>2
  <2>3. QED
    BY <2>1, <2>2, CutFacts DEF n
<1>5. StartOf(t, k) <= i
  BY <1>3, <1>4
<1>6. QED
  BY <1>0, <1>2, <1>5

(* In only one.                                                            *)
LEMMA ParagraphsFollow ==
  ASSUME NEW t, IsCut(t), NEW j \in DOMAIN t.paragraphs, NEW k \in DOMAIN t.paragraphs, j < k
  PROVE  LimitOf(t, j) <= StartOf(t, k)
<1> DEFINE n == Len(t.paragraphs)
           T == {m \in Nat : j + 1 + m <= n => LimitOf(t, j) <= StartOf(t, j + 1 + m)}
<1>0. n \in Nat /\ DOMAIN t.paragraphs = 1..n /\ j \in 1..n /\ k \in 1..n
  BY DEF IsCut
<1> HIDE DEF n
<1>1. 0 \in T
  <2>1. j + 1 <= n => StartOf(t, j + 1) = LimitOf(t, j + 1 - 1) /\ j + 1 - 1 = j /\ LimitOf(t, j) \in Nat
    BY <1>0, CutFacts DEF n
  <2>2. QED
    BY <1>0, <2>1
<1>2. ASSUME NEW m \in 0..(k - j - 1 - 1), m \in T PROVE m + 1 \in T
  <2>1. SUFFICES ASSUME j + 1 + (m + 1) <= n PROVE LimitOf(t, j) <= StartOf(t, j + 1 + (m + 1))
    BY <1>0
  <2>2. j + 1 + m \in 1..n /\ j + 1 + (m + 1) \in 1..n /\ j + 1 + (m + 1) # 1
        /\ j + 1 + (m + 1) - 1 = j + 1 + m
    BY <1>0, <2>1
  <2>3. LimitOf(t, j) <= StartOf(t, j + 1 + m)
    BY <1>2, <2>2
  <2>4. StartOf(t, j + 1 + m) < LimitOf(t, j + 1 + m) /\ StartOf(t, j + 1 + m) \in Nat /\ LimitOf(t, j + 1 + m) \in Nat
        /\ StartOf(t, j + 1 + (m + 1)) = LimitOf(t, j + 1 + m) /\ LimitOf(t, j) \in Nat
    BY <1>0, <2>2, CutFacts DEF n
  <2>5. QED
    BY <2>3, <2>4
<1>3. k - j - 1 \in Nat
  BY <1>0
<1>4. k - j - 1 \in T
  <2> HIDE DEF T
  <2>1. \A m \in 0..(k - j - 1) : m \in T
    BY <1>1, <1>2, <1>3, Numbers!UpToInduction
  <2>2. QED
    BY <1>3, <2>1
<1>5. j + 1 + (k - j - 1) = k
  BY <1>0
<1>6. QED
  BY <1>0, <1>4, <1>5

LEMMA ParagraphIndexIs ==
  ASSUME NEW t, IsCut(t), NEW i \in Nat, i < Len(t.units)
  PROVE  /\ CodeUnitParagraphIndex(t, i) + 1 \in DOMAIN t.paragraphs
         /\ CodeUnitParagraphIndex(t, i) \in Nat
         /\ StartOf(t, CodeUnitParagraphIndex(t, i) + 1) <= i
         /\ i < LimitOf(t, CodeUnitParagraphIndex(t, i) + 1)
<1> DEFINE S == {k \in DOMAIN t.paragraphs : i \in t.paragraphs[k].index..(ParagraphLimit(t.paragraphs[k]) - 1)}
           c == CHOOSE k \in DOMAIN t.paragraphs : i \in t.paragraphs[k].index..(ParagraphLimit(t.paragraphs[k]) - 1)
<1>1. DOMAIN t.paragraphs = 1..Len(t.paragraphs)
  BY DEF IsCut
<1>2. \A k \in DOMAIN t.paragraphs :
        i \in t.paragraphs[k].index..(ParagraphLimit(t.paragraphs[k]) - 1)
          <=> StartOf(t, k) <= i /\ i < LimitOf(t, k)
  <2>1. \A k \in DOMAIN t.paragraphs : StartOf(t, k) \in Nat /\ LimitOf(t, k) \in Nat
    BY <1>1, CutFacts
  <2>2. QED
    BY <2>1 DEF StartOf, LimitOf
<1>3. \E k \in DOMAIN t.paragraphs : i \in t.paragraphs[k].index..(ParagraphLimit(t.paragraphs[k]) - 1)
  BY <1>2, UnitHasParagraph
<1>4. c \in DOMAIN t.paragraphs /\ i \in t.paragraphs[c].index..(ParagraphLimit(t.paragraphs[c]) - 1)
  BY <1>3
<1>5. CodeUnitParagraphIndex(t, i) = c - 1
  BY DEF CodeUnitParagraphIndex
<1> HIDE DEF c
<1>6. Len(t.paragraphs) \in Nat /\ c \in Int /\ c - 1 + 1 = c /\ c >= 1
  BY <1>1, <1>4 DEF IsCut
<1>7. StartOf(t, c) <= i /\ i < LimitOf(t, c)
  BY <1>2, <1>4
<1>8. QED
  BY <1>4, <1>5, <1>6, <1>7

-----------------------------------------------------------------------------
(* The range of an iterator and the paragraphs that it meets.              *)

Parents ==
  [visualDirectionMode : BOOLEAN, forwardMode : BOOLEAN, startIndex : Nat, endIndex : Nat,
   paragraphIndex : Nat, paragraph : Nat, paragraphStart : Nat, paragraphEnd : Nat]

(* There is more of the range, and paragraphIndex is where it goes on.     *)
IsReady(t, q) ==
  /\ q.startIndex < q.endIndex /\ q.endIndex <= Len(t.units)
  /\ q.paragraphIndex + 1 \in DOMAIN t.paragraphs
  /\ q.forwardMode =>
        StartOf(t, q.paragraphIndex + 1) <= q.startIndex /\ q.startIndex < LimitOf(t, q.paragraphIndex + 1)
  /\ ~q.forwardMode =>
        StartOf(t, q.paragraphIndex + 1) < q.endIndex /\ q.endIndex <= LimitOf(t, q.paragraphIndex + 1)

InRange(t, q) ==
  /\ q \in Parents
  /\ q.startIndex \in 0..Len(t.units) \cup {SBInvalidIndex}
  /\ q.endIndex \in 0..Len(t.units) \cup {SBInvalidIndex}
  /\ q.startIndex # q.endIndex => IsReady(t, q)

(* The range that the code makes of what the client asks for.              *)
LEMMA NormalizedRange ==
  ASSUME NEW n \in 0..SBInvalidIndex, NEW index \in 0..n, NEW length \in 0..SBInvalidIndex,
         NEW r, r = SBUIntegerNormalizeRange(n, index, length)
  PROVE  \/ /\ index = n /\ r = [index |-> SBInvalidIndex, length |-> 0]
         \/ /\ index < n /\ r.index = index /\ r.length \in 0..(n - index)
            /\ r.length = IF index + length <= n THEN length ELSE n - index
            /\ r = [index |-> index, length |-> r.length]
<1>1. SBInvalidIndex + 1 \in Nat \ {0} /\ SBInvalidIndex \in Nat
  BY SBInvalidIndexAssumption
<1>2. index + length \in Nat /\ index + length < (SBInvalidIndex + 1) + (SBInvalidIndex + 1)
  BY <1>1
<1>3. PICK l : l = (index + length) % (SBInvalidIndex + 1)
  OBVIOUS
<1>4. l = IF index + length < SBInvalidIndex + 1 THEN index + length
          ELSE index + length - (SBInvalidIndex + 1)
  <2>1. PICK m, x \in Nat : m = SBInvalidIndex + 1 /\ x = index + length
    BY <1>1, <1>2
  <2>2. m \in Nat \ {0} /\ x < m + m /\ l = x % m
    BY <1>1, <1>2, <1>3, <2>1
  <2>3. l = IF x < m THEN x ELSE x - m
    BY <2>1, <2>2, Wraps
  <2>4. QED
    BY <2>1, <2>3
<1>5. CASE index = n
  BY <1>5 DEF SBUIntegerNormalizeRange
<1>6. CASE index < n
  <2>1. r = IF index <= l /\ l <= n THEN [index |-> index, length |-> length]
            ELSE [index |-> index, length |-> n - index]
    BY <1>3, <1>6 DEF SBUIntegerNormalizeRange
  <2>2. index <= l /\ l <= n <=> index + length <= n
    BY <1>1, <1>2, <1>4, <1>6
  <2>3. n - index \in 0..(n - index)
    BY <1>6
  <2>4. index + length <= n => length \in 0..(n - index)
    BY <1>6
  <2>5. QED
    BY <1>6, <2>1, <2>2, <2>3, <2>4
<1>7. QED
  BY <1>5, <1>6

LEMMA ResetInRange ==
  ASSUME NEW t, IsCut(t), NEW mode \in BOOLEAN,
         NEW index \in 0..Len(t.units), NEW length \in 0..SBInvalidIndex,
         NEW q, q = ResetTextIterator(t, mode, index, length)
  PROVE  /\ InRange(t, q)
         /\ q.visualDirectionMode = mode
         /\ ~mode => q.forwardMode
         /\ IF index = Len(t.units) \/ length = 0 THEN q.startIndex = q.endIndex
            ELSE /\ q.startIndex = index
                 /\ q.endIndex = IF index + length <= Len(t.units) THEN index + length
                                 ELSE Len(t.units)
<1> DEFINE n == Len(t.units)
           r == SBUIntegerNormalizeRange(n, index, length)
           e == (r.index + r.length) % (SBInvalidIndex + 1)
           first == CodeUnitParagraphIndex(t, r.index)
           forward == r.length = 0 \/ ~mode \/ ~IsOdd(t.paragraphs[first + 1].baseLevel)
           pIndex == IF r.length = 0 THEN SBInvalidIndex
                     ELSE IF ~forward /\ ParagraphLimit(t.paragraphs[first + 1]) < e
                     THEN CodeUnitParagraphIndex(t, e - 1)
                     ELSE first
<1>0. SBInvalidIndex \in Nat /\ SBInvalidIndex # 0 /\ n \in 0..SBInvalidIndex
  BY SBInvalidIndexAssumption DEF IsCut
<1>1. q = [visualDirectionMode |-> mode, forwardMode |-> forward, startIndex |-> r.index,
           endIndex |-> e, paragraphIndex |-> pIndex, paragraph |-> SBInvalidIndex,
           paragraphStart |-> SBInvalidIndex, paragraphEnd |-> SBInvalidIndex]
  BY DEF ResetTextIterator
<1>2. forward \in BOOLEAN
  OBVIOUS
<1>3. \/ /\ index = n /\ r = [index |-> SBInvalidIndex, length |-> 0]
      \/ /\ index < n /\ r.index = index /\ r.length \in 0..(n - index)
         /\ r.length = IF index + length <= n THEN length ELSE n - index
  <2>1. PICK m, s : m = n /\ s = r
    OBVIOUS
  <2>2. m \in 0..SBInvalidIndex /\ index \in 0..m /\ s = SBUIntegerNormalizeRange(m, index, length)
    BY <1>0, <2>1
  <2> HIDE DEF n, r
  <2>3. \/ /\ index = m /\ s = [index |-> SBInvalidIndex, length |-> 0]
        \/ /\ index < m /\ s.index = index /\ s.length \in 0..(m - index)
           /\ s.length = IF index + length <= m THEN length ELSE m - index
    BY <2>2, NormalizedRange
  <2>4. QED
    BY <2>1, <2>3
<1>4. r.index \in 0..n \cup {SBInvalidIndex} /\ r.index + r.length \in Nat
      /\ r.index + r.length <= SBInvalidIndex /\ r.length \in Nat
  BY <1>0, <1>3
<1>5. e = r.index + r.length
  <2>1. PICK m : m = SBInvalidIndex + 1
    OBVIOUS
  <2>2. m \in Nat \ {0} /\ r.index + r.length < m /\ r.index + r.length < m + m
    BY <1>0, <1>4, <2>1
  <2>3. (r.index + r.length) % m = r.index + r.length
    BY <1>4, <2>2, Wraps
  <2>4. QED
    BY <2>1, <2>3
<1> HIDE DEF r, e, forward, n
<1>6. q.startIndex = r.index /\ q.endIndex = e /\ q.forwardMode = forward
      /\ q.visualDirectionMode = mode /\ q.paragraphIndex = pIndex
  BY <1>1
<1>7. ~mode => forward
  BY DEF forward
<1>8. CASE r.length = 0
  <2>1. pIndex = SBInvalidIndex
    BY <1>8
  <2>2. e = r.index /\ e \in Nat /\ r.index \in Nat
    BY <1>0, <1>4, <1>5, <1>8
  <2>3. q \in Parents
    BY <1>0, <1>1, <1>2, <2>1, <2>2 DEF Parents
  <2>4. InRange(t, q)
    BY <1>4, <1>6, <2>2, <2>3 DEF InRange, n
  <2>5. index = n \/ length = 0
    BY <1>0, <1>3, <1>8
  <2>6. QED
    BY <1>6, <1>7, <2>2, <2>4, <2>5 DEF n
<1>9. CASE r.length # 0
  <2>1. /\ index < n /\ r.index = index /\ r.length \in 1..(n - index)
        /\ r.length = IF index + length <= n THEN length ELSE n - index
    BY <1>0, <1>3, <1>9
  <2>2. /\ index \in Nat /\ index < n /\ index < e /\ e <= n /\ e \in Nat
        /\ e - 1 \in Nat /\ e - 1 < n /\ e - 1 >= index
        /\ e = IF index + length <= n THEN index + length ELSE n
    BY <1>0, <1>5, <2>1
  <2>3. /\ first + 1 \in DOMAIN t.paragraphs /\ first \in Nat
        /\ StartOf(t, first + 1) <= index /\ index < LimitOf(t, first + 1)
    BY <2>1, <2>2, ParagraphIndexIs DEF n
  <2>4. PICK last : last = CodeUnitParagraphIndex(t, e - 1)
    OBVIOUS
  <2>5. /\ last + 1 \in DOMAIN t.paragraphs /\ last \in Nat
        /\ StartOf(t, last + 1) <= e - 1 /\ e - 1 < LimitOf(t, last + 1)
    BY <2>2, <2>4, ParagraphIndexIs DEF n
  <2>6. DOMAIN t.paragraphs = 1..Len(t.paragraphs)
    BY DEF IsCut
  <2>7. /\ StartOf(t, first + 1) \in Nat /\ LimitOf(t, first + 1) \in Nat
        /\ StartOf(t, last + 1) \in Nat /\ LimitOf(t, last + 1) \in Nat
    BY <2>3, <2>5, <2>6, CutFacts
  <2>8. pIndex = IF ~forward /\ LimitOf(t, first + 1) < e THEN last ELSE first
    BY <1>9, <2>4 DEF LimitOf
  <2> HIDE DEF first, pIndex
  <2>9. /\ pIndex \in Nat /\ pIndex + 1 \in DOMAIN t.paragraphs
        /\ forward => StartOf(t, pIndex + 1) <= index /\ index < LimitOf(t, pIndex + 1)
        /\ ~forward => StartOf(t, pIndex + 1) < e /\ e <= LimitOf(t, pIndex + 1)
    <3>1. CASE ~forward /\ LimitOf(t, first + 1) < e
      <4>1. pIndex = last
        BY <2>8, <3>1
      <4>2. StartOf(t, last + 1) < e /\ e <= LimitOf(t, last + 1)
        BY <2>2, <2>5, <2>7
      <4>3. QED
        BY <2>5, <3>1, <4>1, <4>2
    <3>2. CASE ~(~forward /\ LimitOf(t, first + 1) < e)
      <4>1. pIndex = first
        BY <2>8, <3>2
      <4>2. ~forward => StartOf(t, first + 1) < e /\ e <= LimitOf(t, first + 1)
        BY <2>2, <2>3, <2>7, <3>2, SMTT(40)
      <4>3. QED
        BY <2>3, <4>1, <4>2
    <3>3. QED
      BY <3>1, <3>2
  <2>10. IsReady(t, q)
    BY <1>6, <2>1, <2>2, <2>9 DEF IsReady, n
  <2>11. q \in Parents
    BY <1>0, <1>1, <1>2, <2>1, <2>2, <2>9 DEF Parents
  <2>12. InRange(t, q)
    BY <1>6, <2>1, <2>2, <2>10, <2>11 DEF InRange, n
  <2>13. length # 0
    BY <1>0, <2>1
  <2>14. QED
    BY <1>6, <1>7, <2>1, <2>2, <2>12, <2>13 DEF n
<1>10. QED
  BY <1>8, <1>9

(* The next paragraph, cut to the range.                                   *)
LEMMA AdvanceInRange ==
  ASSUME NEW t, IsCut(t), NEW q, InRange(t, q), NEW next, next = AdvanceTextIterator(t, q)
  PROVE  /\ next.advanced <=> q.startIndex # q.endIndex
         /\ ~next.advanced => next.parent = q
         /\ next.advanced => LET r == next.parent
                                 k == q.paragraphIndex + 1
            IN  /\ InRange(t, r)
                /\ r.visualDirectionMode = q.visualDirectionMode /\ r.forwardMode = q.forwardMode
                /\ r.paragraph = q.paragraphIndex /\ k \in DOMAIN t.paragraphs
                /\ StartOf(t, k) <= r.paragraphStart /\ r.paragraphStart < r.paragraphEnd
                /\ r.paragraphEnd <= LimitOf(t, k)
                /\ r.paragraphStart = IF StartOf(t, k) <= q.startIndex THEN q.startIndex ELSE StartOf(t, k)
                /\ r.paragraphEnd = IF LimitOf(t, k) <= q.endIndex THEN LimitOf(t, k) ELSE q.endIndex
                /\ IF q.forwardMode
                   THEN /\ r.paragraphStart = q.startIndex /\ r.startIndex = r.paragraphEnd
                        /\ r.endIndex = q.endIndex
                   ELSE /\ r.paragraphEnd = q.endIndex /\ r.endIndex = r.paragraphStart
                        /\ r.startIndex = q.startIndex
<1>1. CASE q.startIndex = q.endIndex
  BY <1>1 DEF AdvanceTextIterator
<1>2. CASE q.startIndex # q.endIndex
  <2> DEFINE k == q.paragraphIndex + 1
             p == t.paragraphs[k]
             start == Max({p.index, q.startIndex})
             end == Min({ParagraphLimit(p), q.endIndex})
             current == [q EXCEPT !.paragraph = q.paragraphIndex,
                                  !.paragraphStart = start, !.paragraphEnd = end]
  <2>1. IsReady(t, q) /\ q \in Parents /\ DOMAIN t.paragraphs = 1..Len(t.paragraphs)
        /\ Len(t.paragraphs) \in Nat /\ Len(t.units) \in Nat
    BY <1>2 DEF InRange, IsCut
  <2>2. /\ q.startIndex \in Nat /\ q.endIndex \in Nat /\ q.paragraphIndex \in Nat
        /\ q.forwardMode \in BOOLEAN
        /\ k \in 1..Len(t.paragraphs)
        /\ StartOf(t, k) \in Nat /\ LimitOf(t, k) \in Nat /\ StartOf(t, k) < LimitOf(t, k)
    BY <2>1, CutFacts DEF IsReady, Parents
  <2>3. /\ start = IF StartOf(t, k) <= q.startIndex THEN q.startIndex ELSE StartOf(t, k)
        /\ end = IF LimitOf(t, k) <= q.endIndex THEN LimitOf(t, k) ELSE q.endIndex
    <3>1. p.index = StartOf(t, k) /\ ParagraphLimit(p) = LimitOf(t, k)
      BY DEF StartOf, LimitOf
    <3>2. QED
      BY <2>2, <3>1, Greater, Lesser, SMTT(40)
  <2>4. next = IF q.forwardMode
               THEN [parent |-> [current EXCEPT !.startIndex = end, !.paragraphIndex = q.paragraphIndex + 1],
                     advanced |-> TRUE]
               ELSE [parent |-> [current EXCEPT !.endIndex = start,
                        !.paragraphIndex = IF q.paragraphIndex = 0 THEN SBInvalidIndex
                                           ELSE q.paragraphIndex - 1],
                     advanced |-> TRUE]
    <3>1. current.paragraphIndex = q.paragraphIndex
      BY <2>1 DEF Parents
    <3>2. QED
      BY <1>2, <3>1 DEF AdvanceTextIterator
  <2> HIDE DEF start, end, p
  <2>5. start \in Nat /\ end \in Nat
    BY <2>2, <2>3
  <2>6. /\ q.startIndex < q.endIndex /\ q.endIndex <= Len(t.units)
        /\ q.forwardMode => StartOf(t, k) <= q.startIndex /\ q.startIndex < LimitOf(t, k)
        /\ ~q.forwardMode => StartOf(t, k) < q.endIndex /\ q.endIndex <= LimitOf(t, k)
    BY <2>1 DEF IsReady
  <2>7. StartOf(t, k) <= start /\ start < end /\ end <= LimitOf(t, k)
    BY <2>2, <2>3, <2>6
  <2>8. CASE q.forwardMode
    <3>1. PICK r : r = next.parent
      OBVIOUS
    <3>2. r = [current EXCEPT !.startIndex = end, !.paragraphIndex = q.paragraphIndex + 1]
      BY <2>4, <2>8, <3>1
    <3>3. /\ r \in Parents /\ r.startIndex = end /\ r.endIndex = q.endIndex
          /\ r.visualDirectionMode = q.visualDirectionMode /\ r.forwardMode = q.forwardMode
          /\ r.paragraph = q.paragraphIndex /\ r.paragraphStart = start /\ r.paragraphEnd = end
          /\ r.paragraphIndex = k
      <4>1. PICK kk \in Nat : kk = k
        BY <2>2
      <4>2. r = [q EXCEPT !.paragraph = q.paragraphIndex, !.paragraphStart = start,
                          !.paragraphEnd = end, !.startIndex = end, !.paragraphIndex = kk]
        BY <3>2, <4>1
      <4> HIDE DEF k
      <4>3. QED
        BY <2>1, <2>2, <2>5, <4>1, <4>2 DEF Parents
    <3>4. start = q.startIndex /\ end <= q.endIndex
      BY <2>2, <2>3, <2>6, <2>8
    <3>5. ASSUME end # q.endIndex PROVE IsReady(t, r)
      <4>1. end = LimitOf(t, k) /\ end < q.endIndex
        BY <2>2, <2>3, <3>4, <3>5
      <4>2. k # Len(t.paragraphs)
        BY <2>1, <2>2, <2>6, <4>1, CutFacts
      <4>3. k + 1 \in 1..Len(t.paragraphs) /\ k + 1 # 1 /\ k + 1 - 1 = k
        BY <2>1, <2>2, <4>2
      <4>4. StartOf(t, k + 1) = end /\ StartOf(t, k + 1) < LimitOf(t, k + 1) /\ LimitOf(t, k + 1) \in Nat
        <5>1. PICK j \in 1..Len(t.paragraphs) : j = k + 1
          BY <4>3
        <5>2. j # 1 /\ j - 1 = k
          BY <2>2, <5>1
        <5>3. StartOf(t, j) = LimitOf(t, j - 1) /\ StartOf(t, j) < LimitOf(t, j) /\ LimitOf(t, j) \in Nat
          BY <5>2, CutFacts
        <5>4. QED
          BY <4>1, <5>1, <5>2, <5>3
      <4>5. QED
        BY <2>1, <2>2, <2>5, <2>6, <2>8, <3>3, <4>1, <4>3, <4>4 DEF IsReady
    <3>6. InRange(t, r)
      <4>1. end \in 0..Len(t.units)
        BY <2>1, <2>2, <2>5, <2>6, <3>4
      <4>2. q.endIndex \in 0..Len(t.units)
        BY <2>1, <2>2, <2>6
      <4>3. QED
        BY <3>3, <3>5, <4>1, <4>2 DEF InRange
    <3>7. next.advanced
      BY <2>4, <2>8
    <3>8. QED
      BY <1>2, <2>1, <2>2, <2>3, <2>7, <2>8, <3>1, <3>3, <3>4, <3>6, <3>7
  <2>9. CASE ~q.forwardMode
    <3>1. PICK r : r = next.parent
      OBVIOUS
    <3>2. r = [current EXCEPT !.endIndex = start,
                        !.paragraphIndex = IF q.paragraphIndex = 0 THEN SBInvalidIndex
                                           ELSE q.paragraphIndex - 1]
      BY <2>4, <2>9, <3>1
    <3>a. PICK i \in Nat : i = IF q.paragraphIndex = 0 THEN SBInvalidIndex ELSE q.paragraphIndex - 1
      BY <2>2, SBInvalidIndexAssumption
    <3>3. /\ r \in Parents /\ r.startIndex = q.startIndex /\ r.endIndex = start
          /\ r.visualDirectionMode = q.visualDirectionMode /\ r.forwardMode = q.forwardMode
          /\ r.paragraph = q.paragraphIndex /\ r.paragraphStart = start /\ r.paragraphEnd = end
          /\ r.paragraphIndex = i
      BY <2>1, <2>2, <2>5, <3>2, <3>a DEF Parents
    <3>4. end = q.endIndex /\ q.startIndex <= start
      BY <2>2, <2>3, <2>6, <2>9
    <3>5. ASSUME q.startIndex # start PROVE IsReady(t, r)
      <4>1. start = StartOf(t, k) /\ q.startIndex < start
        BY <2>2, <2>3, <3>4, <3>5
      <4>2. k # 1
        BY <2>2, <4>1, CutFacts
      <4>3. k - 1 \in 1..Len(t.paragraphs) /\ i = q.paragraphIndex - 1 /\ i + 1 = k - 1
        BY <2>1, <2>2, <3>a, <4>2, SMTT(40)
      <4>4. LimitOf(t, k - 1) = start /\ StartOf(t, k - 1) < LimitOf(t, k - 1) /\ StartOf(t, k - 1) \in Nat
        BY <2>2, <4>1, <4>2, <4>3, CutFacts
      <4>5. start <= Len(t.units)
        BY <2>1, <2>2, <2>5, <2>6, <2>7, <3>4
      <4>6. QED
        BY <2>1, <2>2, <2>5, <2>9, <3>3, <4>1, <4>3, <4>4, <4>5, SMTT(40) DEF IsReady
    <3>6. InRange(t, r)
      <4>1. start \in 0..Len(t.units)
        BY <2>1, <2>2, <2>5, <2>6, <2>7, <3>4
      <4>2. q.startIndex \in 0..Len(t.units)
        BY <2>1, <2>2, <2>6
      <4>3. QED
        BY <3>3, <3>5, <4>1, <4>2 DEF InRange
    <3>7. next.advanced
      BY <2>4, <2>9
    <3>8. QED
      BY <1>2, <2>1, <2>2, <2>3, <2>7, <2>9, <3>1, <3>3, <3>4, <3>6, <3>7
  <2>10. QED
    BY <2>2, <2>8, <2>9
<1>3. QED
  BY <1>1, <1>2

-----------------------------------------------------------------------------
(* Sequences that are made from the right: element i and what next[i] on   *)
(* makes.                                                                  *)

LinkOf(f, b, head, next, i) == IF i = b THEN <<>> ELSE <<head[i]>> \o f[next[i]]

IsChain(f, a, b, head, next) == f = [i \in a..b |-> LinkOf(f, b, head, next, i)]

LEMMA ChainExists ==
  ASSUME NEW a \in Int, NEW b \in Int, a <= b, NEW head, NEW next,
         \A i \in a..(b - 1) : next[i] \in (i + 1)..b
  PROVE  \E f : IsChain(f, a, b, head, next)
<1> DEFINE T == {m \in Nat : m <= b - a => \E f : IsChain(f, b - m, b, head, next)}
<1>1. 0 \in T
  <2> DEFINE f == [i \in (b - 0)..b |-> <<>>]
  <2>1. (b - 0)..b = {b}
    OBVIOUS
  <2>2. IsChain(f, b - 0, b, head, next)
    BY <2>1 DEF IsChain, LinkOf
  <2> HIDE DEF f
  <2>3. QED
    BY <2>2
<1>2. ASSUME NEW m \in 0..(b - a - 1), m \in T PROVE m + 1 \in T
  <2> DEFINE c == b - m
  <2>1. m <= b - a /\ m + 1 \in Nat /\ c \in Int /\ c <= b /\ c - 1 >= a /\ b - (m + 1) = c - 1
    OBVIOUS
  <2>2. PICK g : IsChain(g, c, b, head, next)
    BY <1>2, <2>1
  <2> HIDE DEF c
  <2> DEFINE f == [i \in (c - 1)..b |-> IF i = c - 1 THEN <<head[i]>> \o g[next[i]] ELSE g[i]]
  <2>3. next[c - 1] \in c..b
    <3>1. c - 1 \in a..(b - 1) /\ c - 1 + 1 = c
      BY <2>1
    <3>2. QED
      BY <3>1
  <2>4. ASSUME NEW i \in (c - 1)..b PROVE f[i] = LinkOf(f, b, head, next, i)
    <3>1. CASE i = c - 1
      <4>1. f[i] = <<head[i]>> \o g[next[i]]
        BY <3>1
      <4>2. f[next[i]] = g[next[i]]
        BY <2>1, <2>3, <3>1
      <4>3. i # b
        BY <2>1, <3>1
      <4>4. QED
        BY <4>1, <4>2, <4>3 DEF LinkOf
    <3>2. CASE i # c - 1
      <4>1. i \in c..b
        BY <2>1, <3>2
      <4>2. f[i] = g[i] /\ g[i] = LinkOf(g, b, head, next, i)
        BY <2>2, <3>2, <4>1 DEF IsChain
      <4>3. i # b => f[next[i]] = g[next[i]]
        <5>1. SUFFICES ASSUME i # b PROVE f[next[i]] = g[next[i]]
          OBVIOUS
        <5>2. i \in a..(b - 1)
          BY <2>1, <4>1, <5>1
        <5>3. next[i] \in (i + 1)..b
          BY <5>2
        <5>4. next[i] \in (c - 1)..b /\ next[i] # c - 1
          BY <2>1, <4>1, <5>3
        <5>5. QED
          BY <5>4
      <4>4. QED
        BY <4>2, <4>3 DEF LinkOf
    <3>3. QED
      BY <3>1, <3>2, SMTT(40)
  <2>5. IsChain(f, c - 1, b, head, next)
    <3>1. f = [i \in (c - 1)..b |-> f[i]]
      OBVIOUS
    <3> HIDE DEF f
    <3>2. [i \in (c - 1)..b |-> f[i]] = [i \in (c - 1)..b |-> LinkOf(f, b, head, next, i)]
      BY <2>4
    <3>3. QED
      BY <3>1, <3>2 DEF IsChain
  <2> HIDE DEF f
  <2>6. QED
    BY <2>1, <2>5
<1>3. b - a \in Nat
  OBVIOUS
<1>4. b - a \in T
  <2> HIDE DEF T
  <2>1. \A m \in 0..(b - a) : m \in T
    BY <1>1, <1>2, <1>3, Numbers!UpToInduction
  <2>2. QED
    BY <1>3, <2>1
<1>5. b - (b - a) = a
  OBVIOUS
<1>6. QED
  BY <1>4, <1>5

(* What is said of the empty sequence, and kept by one more element at the *)
(* front, is said of what each position makes; T are the positions of      *)
(* which it is said.                                                       *)
LEMMA Downwards ==
  ASSUME NEW a \in Int, NEW b \in Int, a <= b, NEW T, b \in T,
         \A i \in a..(b - 1) : (\A j \in (i + 1)..b : j \in T) => i \in T
  PROVE  \A i \in a..b : i \in T
<1> DEFINE U == {m \in Nat : m <= b - a => \A i \in (b - m)..b : i \in T}
<1>1. 0 \in U
  <2>1. (b - 0)..b = {b}
    OBVIOUS
  <2>2. QED
    BY <2>1
<1>2. ASSUME NEW m \in 0..(b - a - 1), m \in U PROVE m + 1 \in U
  <2>1. m <= b - a /\ \A i \in (b - m)..b : i \in T
    BY <1>2
  <2>2. b - (m + 1) \in a..(b - 1) /\ b - (m + 1) + 1 = b - m
    OBVIOUS
  <2>3. b - (m + 1) \in T
    BY <2>1, <2>2
  <2>4. \A i \in (b - (m + 1))..b : i = b - (m + 1) \/ i \in (b - m)..b
    BY <2>2
  <2>5. QED
    BY <2>1, <2>3, <2>4
<1>3. b - a \in Nat
  OBVIOUS
<1>4. b - a \in U
  <2> HIDE DEF U
  <2>1. \A m \in 0..(b - a) : m \in U
    BY <1>1, <1>2, <1>3, Numbers!UpToInduction
  <2>2. QED
    BY <1>3, <2>1
<1>5. b - (b - a) = a
  OBVIOUS
<1>6. QED
  BY <1>4, <1>5

(* One more element at the front.                                          *)
LEMMA PrependIs ==
  ASSUME NEW S, NEW e \in S, NEW s \in Seq(S), NEW r, r = <<e>> \o s
  PROVE  /\ r \in Seq(S) /\ Len(r) = Len(s) + 1 /\ Len(s) \in Nat
         /\ r[1] = e
         /\ \A k \in 2..Len(r) : r[k] = s[k - 1] /\ k - 1 \in 1..Len(s)
<1>1. <<e>> \in Seq(S) /\ Len(<<e>>) = 1 /\ <<e>>[1] = e /\ Len(s) \in Nat
  OBVIOUS
<1>2. /\ r \in Seq(S) /\ Len(r) = 1 + Len(s)
      /\ \A i \in 1..(1 + Len(s)) : r[i] = IF i <= 1 THEN <<e>>[i] ELSE s[i - 1]
  BY <1>1, ConcatProperties
<1>3. QED
  BY <1>1, <1>2

-----------------------------------------------------------------------------
(* The runs of a line in logical order.                                    *)

Run == [offset : Nat, length : Nat \ {0}, level : SBLevels]

(* The runs s are those of a line with these levels, from unit i on.       *)
IsRunsFrom(s, levels, off, i) ==
  /\ s \in Seq(Run)
  /\ Len(s) <= Len(levels) + 1 - i
  /\ i <= Len(levels) => Len(s) >= 1 /\ s[1].offset = off + i - 1 /\ s[1].level = levels[i]
  /\ Len(s) >= 1 => s[Len(s)].offset + s[Len(s)].length = off + Len(levels)
  /\ \A k \in 1..Len(s) :
       /\ off + i - 1 <= s[k].offset /\ s[k].offset + s[k].length <= off + Len(levels)
       /\ \A u \in s[k].offset..(s[k].offset + s[k].length - 1) : levels[u - off + 1] = s[k].level
  /\ \A k \in 2..Len(s) :
       /\ s[k].offset = s[k - 1].offset + s[k - 1].length
       /\ s[k].level # s[k - 1].level

LEMMA RunLimitIs ==
  ASSUME NEW levels, Len(levels) \in Nat, NEW i \in 1..Len(levels)
  PROVE  /\ RunLimit(levels, i) \in (i + 1)..(Len(levels) + 1)
         /\ \A j \in i..(RunLimit(levels, i) - 1) : levels[j] = levels[i]
         /\ RunLimit(levels, i) <= Len(levels) => levels[RunLimit(levels, i)] # levels[i]
<1> DEFINE S == {Len(levels) + 1} \cup {j \in (i + 1)..Len(levels) : levels[j] # levels[i]}
<1>1. S \subseteq Nat /\ S # {} /\ \A j \in S : j \in (i + 1)..(Len(levels) + 1)
  OBVIOUS
<1>2. RunLimit(levels, i) = Min(S)
  BY DEF RunLimit
<1>3. PICK m : m = Min(S)
  OBVIOUS
<1>4. m \in S /\ \A y \in S : m <= y
  <2> HIDE DEF S
  <2>1. QED
    BY <1>1, <1>3, MinIs
<1>5. m \in (i + 1)..(Len(levels) + 1)
  BY <1>1, <1>4
<1>6. ASSUME NEW j \in i..(m - 1) PROVE levels[j] = levels[i]
  <2>1. CASE j = i
    BY <2>1
  <2>2. CASE j # i
    <3>1. j \in (i + 1)..Len(levels) /\ ~(m <= j)
      BY <1>5, <2>2
    <3>2. j \notin S
      BY <1>4, <3>1
    <3>3. QED
      BY <3>1, <3>2
  <2>3. QED
    BY <2>1, <2>2
<1>7. m <= Len(levels) => levels[m] # levels[i]
  BY <1>4, <1>5
<1>8. QED
  BY <1>2, <1>3, <1>5, <1>6, <1>7

LEMMA RunsFromStep ==
  ASSUME NEW levels, NEW n \in Nat, n = Len(levels), levels \in [1..n -> SBLevels],
         NEW off \in Nat, NEW i \in 1..n, NEW m, m = RunLimit(levels, i),
         NEW s, IsRunsFrom(s, levels, off, m),
         NEW r, r = <<[offset |-> off + i - 1, length |-> m - i, level |-> levels[i]]>> \o s
  PROVE  IsRunsFrom(r, levels, off, i)
<1>1. /\ m \in (i + 1)..(n + 1) /\ \A j \in i..(m - 1) : levels[j] = levels[i]
      /\ m <= n => levels[m] # levels[i]
  BY RunLimitIs
<1>2. PICK e : e = [offset |-> off + i - 1, length |-> m - i, level |-> levels[i]]
  OBVIOUS
<1>3. e \in Run /\ e.offset = off + i - 1 /\ e.length = m - i /\ e.level = levels[i]
  <2>1. PICK o \in Nat, d \in Nat \ {0}, l \in SBLevels : o = off + i - 1 /\ d = m - i /\ l = levels[i]
    <3>1. levels[i] \in SBLevels
      OBVIOUS
    <3>2. off + i - 1 \in Nat /\ m - i \in Nat \ {0}
      BY <1>1
    <3>3. QED
      BY <3>1, <3>2
  <2>2. e = [offset |-> o, length |-> d, level |-> l]
    BY <1>2, <2>1
  <2>3. QED
    BY <2>1, <2>2 DEF Run
<1>4. PICK q \in Nat : q = Len(s) /\ s \in Seq(Run) /\ q <= n + 1 - m
  BY DEF IsRunsFrom
<1>5. /\ r \in Seq(Run) /\ Len(r) = q + 1 /\ r[1] = e
      /\ \A k \in 2..(q + 1) : r[k] = s[k - 1] /\ k - 1 \in 1..q
  BY <1>2, <1>3, <1>4, PrependIs
<1>6. \A k \in 1..q : s[k].offset \in Nat /\ s[k].length \in Nat
  <2>1. \A k \in 1..q : s[k] \in Run
    BY <1>4, ElementOfSeq
  <2>2. QED
    BY <2>1 DEF Run
<1>7. ASSUME NEW k \in 1..(q + 1)
      PROVE  /\ off + i - 1 <= r[k].offset /\ r[k].offset + r[k].length <= off + n
             /\ \A u \in r[k].offset..(r[k].offset + r[k].length - 1) : levels[u - off + 1] = r[k].level
  <2>1. CASE k = 1
    <3>1. \A u \in (off + i - 1)..(off + i - 1 + (m - i) - 1) : u - off + 1 \in i..(m - 1)
      BY <1>1, SMTT(40)
    <3>2. r[k].offset = off + i - 1 /\ r[k].length = m - i /\ r[k].level = levels[i]
      BY <1>3, <1>5, <2>1
    <3>3. off + i - 1 <= off + i - 1 /\ off + i - 1 + (m - i) <= off + n
      BY <1>1
    <3>4. \A u \in (off + i - 1)..(off + i - 1 + (m - i) - 1) : levels[u - off + 1] = levels[i]
      BY <1>1, <3>1
    <3>5. QED
      BY <3>2, <3>3, <3>4
  <2>2. CASE k # 1
    <3>1. k \in 2..(q + 1)
      BY <2>2
    <3>2. PICK j \in 1..q : j = k - 1 /\ r[k] = s[j]
      BY <1>5, <3>1
    <3>3. /\ off + m - 1 <= s[j].offset /\ s[j].offset + s[j].length <= off + n
          /\ \A u \in s[j].offset..(s[j].offset + s[j].length - 1) : levels[u - off + 1] = s[j].level
      BY <1>4, <3>2 DEF IsRunsFrom
    <3>4. off + i - 1 <= s[j].offset
      <4>1. PICK o \in Nat : o = s[j].offset
        BY <1>6, <3>2
      <4>2. off + m - 1 <= o
        BY <3>3, <4>1
      <4>3. off + i - 1 <= o
        BY <1>1, <4>2, SMTT(40)
      <4>4. QED
        BY <4>1, <4>3
    <3>5. QED
      BY <3>2, <3>3, <3>4
  <2>3. QED
    BY <2>1, <2>2
<1>8. ASSUME NEW k \in 2..(q + 1)
      PROVE  /\ r[k].offset = r[k - 1].offset + r[k - 1].length
             /\ r[k].level # r[k - 1].level
  <2>1. CASE k = 2
    <3>1. k - 1 = 1 /\ r[k] = s[1] /\ q >= 1 /\ m <= n
      BY <1>1, <1>4, <1>5, <2>1
    <3>2. s[1].offset = off + m - 1 /\ s[1].level = levels[m]
      BY <3>1 DEF IsRunsFrom
    <3>3. r[k - 1].offset = off + i - 1 /\ r[k - 1].length = m - i /\ r[k - 1].level = levels[i]
      BY <1>3, <1>5, <3>1
    <3>4. off + m - 1 = off + i - 1 + (m - i) /\ levels[m] # levels[i]
      BY <1>1, <3>1
    <3>5. QED
      BY <3>1, <3>2, <3>3, <3>4
  <2>2. CASE k # 2
    <3>1. k \in 2..(q + 1) /\ k - 1 \in 2..(q + 1) /\ k - 1 - 1 = k - 2 /\ k - 1 \in 2..q
      BY <2>2
    <3>2. r[k] = s[k - 1] /\ r[k - 1] = s[k - 1 - 1]
      BY <1>5, <3>1
    <3>3. s[k - 1].offset = s[k - 1 - 1].offset + s[k - 1 - 1].length /\ s[k - 1].level # s[k - 1 - 1].level
      BY <1>4, <3>1 DEF IsRunsFrom
    <3>4. QED
      BY <3>2, <3>3
  <2>3. QED
    BY <2>1, <2>2
<1>9. r[q + 1].offset + r[q + 1].length = off + n
  <2>1. CASE q = 0
    <3>1. m = n + 1
      <4>1. m <= n => q >= 1
        BY <1>4 DEF IsRunsFrom
      <4>2. PICK x \in Int : x = m /\ x <= n + 1
        BY <1>1
      <4>3. ~(x <= n)
        BY <2>1, <4>1, <4>2
      <4>4. x = n + 1
        BY <4>2, <4>3, SMTT(40)
      <4>5. QED
        BY <4>2, <4>4
    <3>2. QED
      BY <1>3, <1>5, <2>1, <3>1
  <2>2. CASE q # 0
    <3>1. q + 1 \in 2..(q + 1) /\ q + 1 - 1 = q
      BY <2>2
    <3>2. r[q + 1] = s[q]
      BY <1>5, <3>1
    <3>3. s[q].offset + s[q].length = off + n
      BY <1>4, <2>2 DEF IsRunsFrom
    <3>4. QED
      BY <3>2, <3>3
  <2>3. QED
    BY <2>1, <2>2
<1>10. q + 1 <= n + 1 - i
  BY <1>1, <1>4, SMTT(40)
<1>11. Len(r) >= 1 /\ r[1].offset = off + i - 1 /\ r[1].level = levels[i]
  BY <1>3, <1>5
<1>12. QED
  BY <1>5, <1>7, <1>8, <1>9, <1>10, <1>11, ZenonT(60) DEF IsRunsFrom

(* InitializeRuns makes the maximal runs of one level, which tile the line. *)
LEMMA InitializeRunsIs ==
  ASSUME NEW levels, NEW n \in Nat, n = Len(levels), levels \in [1..n -> SBLevels], NEW off \in Nat
  PROVE  IsRunsFrom(InitializeRuns(levels, off), levels, off, 1)
<1> DEFINE head == [i \in 1..n |-> [offset |-> off + i - 1, length |-> RunLimit(levels, i) - i,
                                    level |-> levels[i]]]
           next == [i \in 1..n |-> RunLimit(levels, i)]
           f == CHOOSE f : f = [i \in 1..(Len(levels) + 1) |->
                  IF i = Len(levels) + 1 THEN <<>>
                  ELSE <<[offset |-> off + i - 1, length |-> RunLimit(levels, i) - i,
                          level |-> levels[i]]>> \o f[RunLimit(levels, i)]]
<1>1. \A g : IsChain(g, 1, n + 1, head, next) <=>
               g = [i \in 1..(Len(levels) + 1) |->
                  IF i = Len(levels) + 1 THEN <<>>
                  ELSE <<[offset |-> off + i - 1, length |-> RunLimit(levels, i) - i,
                          level |-> levels[i]]>> \o g[RunLimit(levels, i)]]
  <2>1. ASSUME NEW g, NEW i \in 1..(n + 1)
        PROVE  LinkOf(g, n + 1, head, next, i) =
                  IF i = n + 1 THEN <<>>
                  ELSE <<[offset |-> off + i - 1, length |-> RunLimit(levels, i) - i,
                          level |-> levels[i]]>> \o g[RunLimit(levels, i)]
    <3>1. CASE i = n + 1
      BY <3>1 DEF LinkOf
    <3>2. CASE i # n + 1
      <4>1. i \in 1..n
        BY <3>2
      <4>2. head[i] = [offset |-> off + i - 1, length |-> RunLimit(levels, i) - i, level |-> levels[i]]
            /\ next[i] = RunLimit(levels, i)
        BY <4>1
      <4> HIDE DEF head, next
      <4>3. QED
        BY <3>2, <4>2 DEF LinkOf
    <3>3. QED
      BY <3>1, <3>2
  <2> HIDE DEF head, next
  <2>2. QED
    BY <2>1, ZenonT(60) DEF IsChain
<1>2. \E g : IsChain(g, 1, n + 1, head, next)
  <2>1. \A i \in 1..n : next[i] \in (i + 1)..(n + 1)
    BY RunLimitIs
  <2>2. n + 1 - 1 = n
    OBVIOUS
  <2> HIDE DEF head, next
  <2>3. QED
    BY <2>1, <2>2, ChainExists, SMTT(40)
<1>3. IsChain(f, 1, n + 1, head, next)
  <2> HIDE DEF head, next
  <2>1. QED
    BY <1>1, <1>2
<1>4. InitializeRuns(levels, off) = f[1]
  BY DEF InitializeRuns
<1> HIDE DEF f
<1> DEFINE T == {i \in 1..(n + 1) : IsRunsFrom(f[i], levels, off, i)}
<1>5. n + 1 \in T
  <2>1. f[n + 1] = <<>>
    BY <1>3 DEF IsChain, LinkOf
  <2>2. PICK s : s = <<>> /\ s = f[n + 1]
    BY <2>1
  <2>3. s \in Seq(Run) /\ Len(s) = 0
    BY <2>2
  <2>4. IsRunsFrom(s, levels, off, n + 1)
    BY <2>3 DEF IsRunsFrom
  <2>5. QED
    BY <2>2, <2>4
<1>6. ASSUME NEW i \in 1..(n + 1 - 1), \A j \in (i + 1)..(n + 1) : j \in T PROVE i \in T
  <2>1. i \in 1..n /\ i # n + 1 /\ i \in 1..(n + 1)
    OBVIOUS
  <2>2. PICK m : m = RunLimit(levels, i)
    OBVIOUS
  <2>3. m \in (i + 1)..(n + 1)
    BY <2>1, <2>2, RunLimitIs
  <2>4. IsRunsFrom(f[m], levels, off, m)
    BY <1>6, <2>3
  <2>5. f[i] = <<[offset |-> off + i - 1, length |-> m - i, level |-> levels[i]]>> \o f[m]
    <3>1. f[i] = LinkOf(f, n + 1, head, next, i)
      BY <1>3, <2>1 DEF IsChain
    <3>2. head[i] = [offset |-> off + i - 1, length |-> m - i, level |-> levels[i]] /\ next[i] = m
      BY <2>1, <2>2
    <3> HIDE DEF head, next
    <3>3. QED
      BY <2>1, <3>1, <3>2 DEF LinkOf
  <2>6. IsRunsFrom(f[i], levels, off, i)
    BY <2>1, <2>2, <2>4, <2>5, RunsFromStep
  <2>7. QED
    BY <2>1, <2>6
<1>7. 1 \in T
  <2> HIDE DEF T
  <2>1. \A i \in 1..(n + 1) : i \in T
    <3>1. PICK a \in Int, b \in Int : a = 1 /\ b = n + 1 /\ a <= b
      OBVIOUS
    <3>2. PICK U : U = T
      OBVIOUS
    <3>3. b \in U /\ \A i \in a..(b - 1) : (\A j \in (i + 1)..b : j \in U) => i \in U
      BY <1>5, <1>6, <3>1, <3>2
    <3>4. a <= b
      BY <3>1
    <3>5. \A i \in a..b : i \in U
      BY <3>3, <3>4, Downwards
    <3>6. QED
      BY <3>1, <3>2, <3>5
  <2>2. QED
    BY <2>1
<1>8. QED
  BY <1>4, <1>7

-----------------------------------------------------------------------------
(* Rule L2.                                                                *)

Below(rs, level, k) == rs[k].level < level

FirstAt(rs, level, k) == 1 + Max({0} \cup {j \in 1..k : Below(rs, level, j)})

LastAt(rs, level, k) == Min({Len(rs) + 1} \cup {j \in k..Len(rs) : Below(rs, level, j)}) - 1

(* Where the reversal of the stretches takes position k.                   *)
Across(rs, level, k) ==
  IF Below(rs, level, k) THEN k ELSE FirstAt(rs, level, k) + LastAt(rs, level, k) - k

(* first..last is the stretch of runs of at least level around k.          *)
IsStretch(rs, level, k, first, last) ==
  /\ first \in 1..k /\ last \in k..Len(rs)
  /\ \A j \in first..last : ~Below(rs, level, j)
  /\ first # 1 => Below(rs, level, first - 1)
  /\ last # Len(rs) => Below(rs, level, last + 1)

LEMMA RunFacts ==
  ASSUME NEW rs \in Seq(Run)
  PROVE  /\ Len(rs) \in Nat /\ DOMAIN rs = 1..Len(rs) /\ rs \in [1..Len(rs) -> Run]
         /\ \A k \in 1..Len(rs) : /\ rs[k] \in Run /\ rs[k].level \in Nat
                                  /\ rs[k].offset \in Nat /\ rs[k].length \in Nat \ {0}
<1>1. Len(rs) \in Nat /\ DOMAIN rs = 1..Len(rs) /\ rs \in [1..Len(rs) -> Run]
  BY LenProperties
<1>2. \A k \in 1..Len(rs) : rs[k] \in Run
  BY <1>1
<1>3. \A k \in 1..Len(rs) : rs[k].level \in Nat /\ rs[k].offset \in Nat /\ rs[k].length \in Nat \ {0}
  BY <1>2 DEF Run, SBLevels
<1>4. QED
  BY <1>1, <1>2, <1>3

LEMMA StretchExists ==
  ASSUME NEW rs \in Seq(Run), NEW level \in Nat, NEW k \in 1..Len(rs), ~Below(rs, level, k)
  PROVE  IsStretch(rs, level, k, FirstAt(rs, level, k), LastAt(rs, level, k))
<1> DEFINE n == Len(rs)
           A == {0} \cup {j \in 1..k : Below(rs, level, j)}
           Z == {n + 1} \cup {j \in k..n : Below(rs, level, j)}
<1>0. n \in Nat /\ k \in 1..n
  BY RunFacts
<1>1. PICK a : a = Max(A)
  OBVIOUS
<1>2. PICK z : z = Min(Z)
  OBVIOUS
<1>3. FirstAt(rs, level, k) = 1 + a /\ LastAt(rs, level, k) = z - 1
  BY <1>1, <1>2 DEF FirstAt, LastAt
<1>4. a \in A /\ a \in 0..k /\ \A y \in A : y <= a
  <2>1. A \subseteq 0..k /\ A # {} /\ k \in Nat
    BY <1>0
  <2> HIDE DEF A
  <2>2. QED
    BY <1>1, <2>1, MaxIs
<1>5. z \in Z /\ z \in Nat /\ \A y \in Z : z <= y
  <2>1. Z \subseteq Nat /\ Z # {}
    BY <1>0
  <2> HIDE DEF Z
  <2>2. QED
    BY <1>2, <2>1, MinIs
<1>6. a # k
  BY <1>4
<1>7. z # k /\ z \in k..(n + 1)
  BY <1>0, <1>5
<1>8. 1 + a \in 1..k /\ z - 1 \in k..n
  BY <1>0, <1>4, <1>6, <1>7
<1>9. ASSUME NEW j \in (1 + a)..(z - 1) PROVE ~Below(rs, level, j)
  <2>1. CASE j <= k
    <3>1. j \in 1..k /\ ~(j <= a)
      BY <1>4, <2>1
    <3>2. QED
      BY <1>4, <3>1
  <2>2. CASE ~(j <= k)
    <3>1. j \in k..n /\ ~(z <= j)
      BY <1>0, <1>4, <1>7, <2>2
    <3>2. QED
      BY <1>5, <3>1
  <2>3. QED
    BY <2>1, <2>2
<1>10. 1 + a # 1 => Below(rs, level, 1 + a - 1)
  <2>1. 1 + a # 1 => a # 0
    BY <1>4
  <2>2. 1 + a - 1 = a
    BY <1>4
  <2>3. QED
    BY <1>4, <2>1, <2>2
<1>11. z - 1 # n => Below(rs, level, z - 1 + 1)
  <2>1. z - 1 # n => z # n + 1
    BY <1>0, <1>5
  <2>2. z - 1 + 1 = z
    BY <1>5
  <2>3. QED
    BY <1>5, <2>1, <2>2
<1>12. QED
  <2> HIDE DEF A, Z
  <2>1. PICK f, l : f = 1 + a /\ l = z - 1
    OBVIOUS
  <2>a. f \in 1..k /\ l \in k..n
    BY <1>8, <2>1
  <2>b. \A j \in f..l : ~Below(rs, level, j)
    BY <1>9, <2>1
  <2>c. f # 1 => Below(rs, level, f - 1)
    <3>1. a \in Int
      BY <1>4
    <3>2. f - 1 = 1 + a - 1
      BY <2>1, <3>1
    <3>3. QED
      BY <1>10, <2>1, <3>2
  <2>d. l # n => Below(rs, level, l + 1)
    BY <1>11, <2>1
  <2>2. IsStretch(rs, level, k, f, l)
    BY <2>a, <2>b, <2>c, <2>d DEF IsStretch
  <2>3. QED
    BY <1>3, <2>1, <2>2

(* There is one stretch around a position, and it is the one around each   *)
(* of its positions.                                                       *)
LEMMA StretchUnique ==
  ASSUME NEW rs, Len(rs) \in Nat, NEW level, NEW k \in 1..Len(rs), NEW first, NEW last,
         IsStretch(rs, level, k, first, last),
         NEW j \in first..last, NEW f, NEW l, IsStretch(rs, level, j, f, l)
  PROVE  f = first /\ l = last
<1> DEFINE n == Len(rs)
<1>1. /\ first \in 1..k /\ last \in k..n /\ f \in 1..j /\ l \in j..n /\ j \in 1..n /\ n \in Nat
      /\ \A i \in first..last : ~Below(rs, level, i)
      /\ \A i \in f..l : ~Below(rs, level, i)
  BY DEF IsStretch
<1>2. /\ first # 1 => Below(rs, level, first - 1)
      /\ last # n => Below(rs, level, last + 1)
      /\ f # 1 => Below(rs, level, f - 1)
      /\ l # n => Below(rs, level, l + 1)
  BY DEF IsStretch
<1> HIDE DEF n
<1>3. ~(f < first)
  <2>1. SUFFICES ASSUME f < first PROVE FALSE
    OBVIOUS
  <2>2. first - 1 \in f..l /\ first # 1
    BY <1>1, <2>1
  <2>3. QED
    BY <1>1, <1>2, <2>2
<1>4. ~(first < f)
  <2>1. SUFFICES ASSUME first < f PROVE FALSE
    OBVIOUS
  <2>2. f - 1 \in first..last /\ f # 1
    BY <1>1, <2>1
  <2>3. QED
    BY <1>1, <1>2, <2>2
<1>5. ~(l < last)
  <2>1. SUFFICES ASSUME l < last PROVE FALSE
    OBVIOUS
  <2>2. l + 1 \in first..last /\ l # n
    BY <1>1, <2>1
  <2>3. QED
    BY <1>1, <1>2, <2>2
<1>6. ~(last < l)
  <2>1. SUFFICES ASSUME last < l PROVE FALSE
    OBVIOUS
  <2>2. last + 1 \in f..l /\ last # n
    BY <1>1, <2>1
  <2>3. QED
    BY <1>1, <1>2, <2>2
<1>7. QED
  BY <1>1, <1>3, <1>4, <1>5, <1>6

(* The reversal is its own inverse and stays in the stretch.               *)
LEMMA AcrossIs ==
  ASSUME NEW rs \in Seq(Run), NEW level \in Nat, NEW k \in 1..Len(rs)
  PROVE  /\ Across(rs, level, k) \in 1..Len(rs)
         /\ Across(rs, level, Across(rs, level, k)) = k
<1>1. CASE Below(rs, level, k)
  BY <1>1 DEF Across
<1>2. CASE ~Below(rs, level, k)
  <2>1. PICK first, last : /\ first = FirstAt(rs, level, k) /\ last = LastAt(rs, level, k)
                           /\ IsStretch(rs, level, k, first, last)
    BY <1>2, StretchExists
  <2>2. Len(rs) \in Nat /\ first \in 1..k /\ last \in k..Len(rs)
        /\ \A j \in first..last : ~Below(rs, level, j)
    BY <2>1, RunFacts DEF IsStretch
  <2>3. PICK j \in Int : j = first + last - k
    BY <2>2
  <2>4. Across(rs, level, k) = j /\ j \in first..last /\ j \in 1..Len(rs) /\ first + last - j = k
    <3>1. Across(rs, level, k) = j
      BY <1>2, <2>1, <2>3, Zenon DEF Across
    <3>2. PICK n \in Nat : n = Len(rs)
      BY <2>2
    <3>3. first \in 1..k /\ last \in k..n
      BY <2>2, <3>2
    <3>4. j \in first..last /\ j \in 1..n /\ first + last - j = k
      BY <2>3, <3>2, <3>3
    <3>5. QED
      BY <3>1, <3>2, <3>4, Zenon
  <2>5. ~Below(rs, level, j)
    BY <2>2, <2>4
  <2>6. FirstAt(rs, level, j) = first /\ LastAt(rs, level, j) = last
    BY <2>1, <2>2, <2>4, <2>5, StretchExists, StretchUnique
  <2>7. Across(rs, level, j) = k
    BY <2>4, <2>5, <2>6 DEF Across
  <2>8. QED
    BY <2>4, <2>7
<1>3. QED
  BY <1>1, <1>2

LEMMA ReverseIs ==
  ASSUME NEW rs \in Seq(Run), NEW level \in Nat, NEW out, out = ReverseAtLevel(rs, level)
  PROVE  /\ out \in Seq(Run) /\ Len(out) = Len(rs)
         /\ \A k \in 1..Len(rs) : out[k] = rs[Across(rs, level, k)]
         /\ \A k \in 1..Len(rs) : out[Across(rs, level, k)] = rs[k]
<1>1. DOMAIN rs = 1..Len(rs) /\ Len(rs) \in Nat /\ rs \in [1..Len(rs) -> Run]
  BY RunFacts
<1>2. out = [k \in 1..Len(rs) |->
                IF Below(rs, level, k) THEN rs[k]
                ELSE rs[FirstAt(rs, level, k) + LastAt(rs, level, k) - k]]
  BY <1>1 DEF ReverseAtLevel, Below, FirstAt, LastAt
<1>3. \A k \in 1..Len(rs) : out[k] = rs[Across(rs, level, k)]
  BY <1>2 DEF Across
<1>4. \A k \in 1..Len(rs) : Across(rs, level, k) \in 1..Len(rs) /\ Across(rs, level, Across(rs, level, k)) = k
  BY AcrossIs
<1>5. \A k \in 1..Len(rs) : rs[Across(rs, level, k)] \in Run
  BY <1>1, <1>4
<1>6. out \in [1..Len(rs) -> Run]
  <2>1. out = [k \in 1..Len(rs) |-> rs[Across(rs, level, k)]]
    BY <1>2 DEF Across
  <2>2. QED
    BY <1>5, <2>1
<1>7. out \in Seq(Run) /\ Len(out) = Len(rs)
  BY <1>1, <1>6
<1>8. QED
  BY <1>3, <1>4, <1>7

(* m is the lowest level of the runs from i to j.                          *)
IsLowest(rs, i, j, m) ==
  /\ \E k \in i..j : rs[k].level = m
  /\ \A k \in i..j : m <= rs[k].level

(* st has the runs of rs, each at its position pos, when the levels from   *)
(* `level` up have been done.                                              *)
IsReorderedBy(pos, rs, st, level) ==
  /\ pos \in [1..Len(rs) -> 1..Len(rs)]
  /\ \A i \in 1..Len(rs) : st[pos[i]] = rs[i]
  /\ \A q \in 1..Len(rs) : \E i \in 1..Len(rs) : pos[i] = q
  /\ \A i \in 1..Len(rs) : \A j \in (i..pos[i]) \cup (pos[i]..i) :
        i # pos[i] => level <= rs[j].level
  /\ \A i, j \in 1..Len(rs) : \A m \in Nat :
        i < j /\ IsLowest(rs, i, j, m) =>
          /\ pos[i] # pos[j]
          /\ pos[i] < pos[j] <=> m < level \/ (m - level + 1) % 2 = 0

IsReordered(rs, st, level) ==
  /\ st \in Seq(Run) /\ Len(st) = Len(rs)
  /\ \E pos : IsReorderedBy(pos, rs, st, level)

LEMMA HasLowest ==
  ASSUME NEW rs \in Seq(Run), NEW i \in 1..Len(rs), NEW j \in i..Len(rs)
  PROVE  \E m \in Nat : IsLowest(rs, i, j, m)
<1> DEFINE S == {rs[k].level : k \in i..j}
<1>1. \A k \in i..j : k \in 1..Len(rs) /\ rs[k].level \in Nat
  BY RunFacts
<1>2. S \in SUBSET Nat
  <2>1. \A l \in S : l \in Nat
    BY <1>1
  <2>2. QED
    BY <2>1, Zenon
<1>3. S # {}
  <2>1. i \in i..j
    OBVIOUS
  <2>2. rs[i].level \in S
    BY <2>1
  <2>3. QED
    BY <2>2
<1>4. PICK m \in S : \A l \in S : m <= l
  <2> HIDE DEF S
  <2>1. QED
    BY <1>2, <1>3, Numbers!LeastNatural
<1>5. IsLowest(rs, i, j, m) /\ m \in Nat
  BY <1>2, <1>4 DEF IsLowest
<1>6. QED
  BY <1>5

(* What a position below a level is, before and after the levels above.    *)
LEMMA BelowStays ==
  ASSUME NEW rs \in Seq(Run), NEW st, NEW level \in Nat, NEW pos,
         IsReorderedBy(pos, rs, st, level + 1), NEW q \in 1..Len(rs)
  PROVE  Below(st, level, q) <=> Below(rs, level, q)
<1>0. Len(rs) \in Nat
  BY RunFacts
<1>1. PICK i \in 1..Len(rs) : pos[i] = q
  BY DEF IsReorderedBy
<1>2. st[q] = rs[i]
  BY <1>1 DEF IsReorderedBy
<1>3. CASE i = q
  BY <1>2, <1>3 DEF Below
<1>4. CASE i # q
  <2>1. q \in (i..q) \cup (q..i) /\ i \in (i..q) \cup (q..i)
    BY <1>0, <1>1
  <2>2. level + 1 <= rs[q].level /\ level + 1 <= rs[i].level
    BY <1>1, <1>4, <2>1 DEF IsReorderedBy
  <2>3. rs[q].level \in Nat /\ rs[i].level \in Nat
    BY RunFacts
  <2>4. ~(rs[q].level < level) /\ ~(rs[i].level < level)
    BY <2>2, <2>3
  <2>5. QED
    BY <1>2, <2>4 DEF Below
<1>5. QED
  BY <1>3, <1>4

(* Stretches are the same in both.                                         *)
LEMMA StretchesStay ==
  ASSUME NEW rs \in Seq(Run), NEW st \in Seq(Run), Len(st) = Len(rs), NEW level \in Nat,
         \A q \in 1..Len(rs) : Below(st, level, q) <=> Below(rs, level, q),
         NEW k \in 1..Len(rs), NEW first, NEW last, IsStretch(st, level, k, first, last)
  PROVE  IsStretch(rs, level, k, first, last)
<1>1. Len(rs) \in Nat
  BY RunFacts
<1>2. /\ first \in 1..k /\ last \in k..Len(rs)
      /\ \A j \in first..last : ~Below(st, level, j)
      /\ first # 1 => Below(st, level, first - 1)
      /\ last # Len(rs) => Below(st, level, last + 1)
  BY DEF IsStretch
<1>3. \A j \in first..last : ~Below(rs, level, j)
  <2>1. \A j \in first..last : j \in 1..Len(rs)
    BY <1>1, <1>2
  <2>2. QED
    BY <1>2, <2>1
<1>4. first # 1 => Below(rs, level, first - 1)
  <2>1. first # 1 => first - 1 \in 1..Len(rs)
    BY <1>1, <1>2
  <2>2. QED
    BY <1>2, <2>1
<1>5. last # Len(rs) => Below(rs, level, last + 1)
  <2>1. last # Len(rs) => last + 1 \in 1..Len(rs)
    BY <1>1, <1>2
  <2>2. QED
    BY <1>2, <2>1
<1>6. QED
  BY <1>2, <1>3, <1>4, <1>5 DEF IsStretch

(* Where a run that is not below the level goes: across its stretch.       *)
LEMMA AcrossStretch ==
  ASSUME NEW rs \in Seq(Run), NEW st \in Seq(Run), Len(st) = Len(rs), NEW level \in Nat,
         NEW pos, IsReorderedBy(pos, rs, st, level + 1),
         NEW i \in 1..Len(rs), ~Below(rs, level, i)
  PROVE  \E first, last : /\ IsStretch(rs, level, i, first, last)
                          /\ pos[i] \in first..last
                          /\ Across(st, level, pos[i]) = first + last - pos[i]
<1>0. Len(rs) \in Nat /\ pos[i] \in 1..Len(rs) /\ rs[i].level \in Nat
  BY RunFacts DEF IsReorderedBy
<1>1. \A q \in 1..Len(rs) : Below(st, level, q) <=> Below(rs, level, q)
  BY BelowStays
<1>2. ~Below(st, level, pos[i])
  <2>1. st[pos[i]] = rs[i]
    BY DEF IsReorderedBy
  <2>2. QED
    BY <2>1 DEF Below
<1>3. PICK first, last : /\ first = FirstAt(st, level, pos[i]) /\ last = LastAt(st, level, pos[i])
                         /\ IsStretch(st, level, pos[i], first, last)
  BY <1>0, <1>2, StretchExists
<1>4. IsStretch(rs, level, pos[i], first, last)
  BY <1>0, <1>1, <1>3, StretchesStay
<1>5. Across(st, level, pos[i]) = first + last - pos[i]
  BY <1>2, <1>3 DEF Across
<1>6. first \in 1..pos[i] /\ last \in pos[i]..Len(rs)
  BY <1>4 DEF IsStretch
<1>7. PICK f, l : IsStretch(rs, level, i, f, l)
  BY StretchExists
<1>8. f \in 1..i /\ l \in i..Len(rs) /\ \A j \in f..l : ~Below(rs, level, j)
      /\ (f # 1 => Below(rs, level, f - 1)) /\ (l # Len(rs) => Below(rs, level, l + 1))
  BY <1>7 DEF IsStretch
<1>9. \A j \in (i..pos[i]) \cup (pos[i]..i) : ~Below(rs, level, j)
  <2>1. CASE i = pos[i]
    BY <2>1, <1>0
  <2>2. CASE i # pos[i]
    <3>1. ASSUME NEW j \in (i..pos[i]) \cup (pos[i]..i) PROVE ~Below(rs, level, j)
      <4>1. level + 1 <= rs[j].level
        BY <2>2 DEF IsReorderedBy
      <4>2. j \in 1..Len(rs)
        BY <1>0
      <4>3. rs[j].level \in Nat
        BY <4>2, RunFacts
      <4>4. QED
        BY <4>1, <4>3 DEF Below
    <3>2. QED
      BY <3>1
  <2>3. QED
    BY <2>1, <2>2
<1>10. pos[i] \in f..l
  <2>1. ~(pos[i] < f)
    <3>1. SUFFICES ASSUME pos[i] < f PROVE FALSE
      OBVIOUS
    <3>2. f # 1 /\ f - 1 \in pos[i]..i
      BY <1>0, <1>8, <3>1
    <3>3. QED
      BY <1>8, <1>9, <3>2
  <2>2. ~(l < pos[i])
    <3>1. SUFFICES ASSUME l < pos[i] PROVE FALSE
      OBVIOUS
    <3>2. l # Len(rs) /\ l + 1 \in i..pos[i]
      BY <1>0, <1>8, <3>1
    <3>3. QED
      BY <1>8, <1>9, <3>2
  <2>3. QED
    BY <1>0, <1>8, <2>1, <2>2
<1>11. first = f /\ last = l
  BY <1>0, <1>4, <1>7, <1>10, StretchUnique
<1>12. QED
  BY <1>5, <1>7, <1>10, <1>11

(* One round: the stretches of one level less are reversed.                *)
LEMMA ReversePositions ==
  ASSUME NEW rs \in Seq(Run), NEW st \in Seq(Run), Len(st) = Len(rs), NEW level \in Nat,
         NEW pos, IsReorderedBy(pos, rs, st, level + 1),
         NEW new, new = [i \in 1..Len(rs) |-> Across(st, level, pos[i])]
  PROVE  IsReorderedBy(new, rs, ReverseAtLevel(st, level), level)
<1> DEFINE n == Len(rs)
<1>0. n \in Nat /\ pos \in [1..n -> 1..n] /\ Len(st) = n
  BY RunFacts DEF IsReorderedBy
<1>1. PICK out : out = ReverseAtLevel(st, level)
  OBVIOUS
<1>2. \A k \in 1..n : out[Across(st, level, k)] = st[k] /\ Across(st, level, k) \in 1..n
                      /\ Across(st, level, Across(st, level, k)) = k
  <2>1. \A k \in 1..Len(st) : Across(st, level, k) \in 1..Len(st)
                              /\ Across(st, level, Across(st, level, k)) = k
    BY AcrossIs
  <2>2. \A k \in 1..Len(st) : out[Across(st, level, k)] = st[k]
    BY <1>1, ReverseIs
  <2> HIDE DEF n
  <2>3. QED
    BY <1>0, <2>1, <2>2
<1>3. new \in [1..n -> 1..n]
  BY <1>0, <1>2
<1>4. \A i \in 1..n : out[new[i]] = rs[i]
  <2>1. \A i \in 1..n : st[pos[i]] = rs[i]
    BY DEF IsReorderedBy
  <2>2. QED
    BY <1>0, <1>2, <2>1
<1>5. \A q \in 1..n : \E i \in 1..n : new[i] = q
  <2>1. TAKE q \in 1..n
  <2>2. PICK i \in 1..n : pos[i] = Across(st, level, q)
    BY <1>2 DEF IsReorderedBy
  <2>3. new[i] = q
    BY <1>2, <2>2
  <2>4. QED
    BY <2>3
<1>6. \A i \in 1..n : rs[i].level \in Nat
  BY RunFacts
<1>7. \A i \in 1..n : new[i] = Across(st, level, pos[i]) /\ pos[i] \in 1..n
  BY <1>0
<1>8. \A q \in 1..n : Below(st, level, q) <=> Below(rs, level, q)
  BY BelowStays
(* A run below the level has not moved and does not move.                  *)
<1>9. ASSUME NEW i \in 1..n, Below(rs, level, i) PROVE pos[i] = i /\ new[i] = i
  <2>1. pos[i] = i
    <3>1. SUFFICES ASSUME i # pos[i] PROVE FALSE
      OBVIOUS
    <3>2. i \in (i..pos[i]) \cup (pos[i]..i)
      BY <1>7
    <3>3. level + 1 <= rs[i].level
      BY <3>1, <3>2 DEF IsReorderedBy
    <3>4. QED
      BY <1>6, <1>9, <3>3 DEF Below
  <2>2. Below(st, level, i)
    BY <1>8, <1>9
  <2>3. QED
    BY <1>7, <2>1, <2>2 DEF Across
<1>10. ASSUME NEW i \in 1..n, ~Below(rs, level, i)
       PROVE  \E f, l : /\ IsStretch(rs, level, i, f, l) /\ f \in 1..i /\ l \in i..n
                        /\ pos[i] \in f..l /\ new[i] = f + l - pos[i] /\ new[i] \in f..l
                        /\ \A j \in f..l : level <= rs[j].level
  <2>1. PICK f, l : /\ IsStretch(rs, level, i, f, l) /\ pos[i] \in f..l
                    /\ Across(st, level, pos[i]) = f + l - pos[i]
    BY <1>0, <1>10, AcrossStretch
  <2>2. f \in 1..i /\ l \in i..n /\ \A j \in f..l : ~Below(rs, level, j)
    BY <2>1 DEF IsStretch
  <2>3. new[i] = f + l - pos[i] /\ new[i] \in f..l
    BY <1>7, <2>1, <2>2
  <2>4. \A j \in f..l : level <= rs[j].level
    <3>1. \A j \in f..l : j \in 1..n
      BY <1>0, <2>2
    <3>2. QED
      BY <1>6, <2>2, <3>1 DEF Below
  <2>5. QED
    BY <2>1, <2>2, <2>3, <2>4
<1>11. \A i \in 1..n : \A j \in (i..new[i]) \cup (new[i]..i) : i # new[i] => level <= rs[j].level
  <2>1. SUFFICES ASSUME NEW i \in 1..n, NEW j \in (i..new[i]) \cup (new[i]..i), i # new[i]
                 PROVE  level <= rs[j].level
    OBVIOUS
  <2>2. ~Below(rs, level, i)
    BY <1>9, <2>1
  <2>3. PICK f, l : /\ f \in 1..i /\ l \in i..n /\ new[i] \in f..l
                    /\ \A k \in f..l : level <= rs[k].level
    BY <1>10, <2>2
  <2>4. j \in f..l
    BY <1>0, <2>3
  <2>5. QED
    BY <2>3, <2>4
<1>12. ASSUME NEW i \in 1..n, NEW j \in 1..n, NEW m \in Nat, i < j, IsLowest(rs, i, j, m)
       PROVE  /\ new[i] # new[j]
              /\ new[i] < new[j] <=> m < level \/ (m - level + 1) % 2 = 0
  <2>0. /\ pos[i] # pos[j]
        /\ pos[i] < pos[j] <=> m < level + 1 \/ (m - (level + 1) + 1) % 2 = 0
    BY <1>12 DEF IsReorderedBy
  <2>1. CASE level <= m
    <3>1. \A k \in i..j : k \in 1..n /\ m <= rs[k].level
      BY <1>0, <1>12 DEF IsLowest
    <3>2. \A k \in i..j : level <= rs[k].level /\ ~Below(rs, level, k)
      BY <1>6, <2>1, <3>1 DEF Below
    <3>3. i \in i..j /\ j \in i..j
      BY <1>12
    <3>4. PICK f, l : /\ IsStretch(rs, level, i, f, l) /\ f \in 1..i /\ l \in i..n
                      /\ pos[i] \in f..l /\ new[i] = f + l - pos[i]
      BY <1>10, <3>2, <3>3
    <3>5. PICK g, e : /\ IsStretch(rs, level, j, g, e) /\ g \in 1..j /\ e \in j..n
                      /\ pos[j] \in g..e /\ new[j] = g + e - pos[j]
      BY <1>10, <3>2, <3>3
    <3>6. j <= l
      <4>1. SUFFICES ASSUME l < j PROVE FALSE
        BY <3>4
      <4>2. l # n /\ l + 1 \in i..j
        BY <1>0, <3>4, <4>1
      <4>3. Below(rs, level, l + 1)
        BY <3>4, <4>2 DEF IsStretch
      <4>4. QED
        BY <3>2, <4>2, <4>3
    <3>7. j \in f..l
      BY <1>12, <3>4, <3>6
    <3>8. g = f /\ e = l
      <4>1. Len(rs) \in Nat /\ i \in 1..Len(rs)
        BY <1>0
      <4>2. IsStretch(rs, level, i, f, l) /\ IsStretch(rs, level, j, g, e)
        BY <3>4, <3>5
      <4>3. QED
        BY <3>7, <4>1, <4>2, StretchUnique
    <3>9. new[j] = f + l - pos[j]
      BY <3>5, <3>8
    <3>10. pos[i] \in Int /\ pos[j] \in Int /\ f \in Int /\ l \in Int
      BY <1>7, <3>4
    <3>11. new[i] # new[j] /\ (new[i] < new[j] <=> ~(pos[i] < pos[j]))
      <4>1. PICK x, y, u, v \in Int : x = pos[i] /\ y = pos[j] /\ u = f /\ v = l
        BY <3>10
      <4>2. x # y /\ new[i] = u + v - x /\ new[j] = u + v - y
        BY <2>0, <3>4, <3>9, <4>1
      <4>3. u + v - x # u + v - y /\ (u + v - x < u + v - y <=> ~(x < y))
        BY <4>2
      <4>4. QED
        BY <4>1, <4>2, <4>3
    <3>12. (m < level + 1 \/ (m - (level + 1) + 1) % 2 = 0)
             <=> ~(m < level \/ (m - level + 1) % 2 = 0)
      <4>1. PICK d \in Nat : d = m - level
        BY <2>1
      <4>2. m < level + 1 <=> d = 0
        BY <4>1
      <4>3. m - (level + 1) + 1 = d /\ m - level + 1 = d + 1 /\ ~(m < level)
        BY <2>1, <4>1
      <4>4. (d = 0 \/ d % 2 = 0) <=> ~((d + 1) % 2 = 0)
        OBVIOUS
      <4>5. QED
        BY <4>2, <4>3, <4>4
    <3>13. QED
      BY <2>0, <3>11, <3>12
  <2>2. CASE m < level
    <3>1. PICK k \in i..j : rs[k].level = m
      BY <1>12 DEF IsLowest
    <3>2. k \in 1..n /\ Below(rs, level, k)
      BY <1>0, <2>2, <3>1 DEF Below
    <3>3. new[i] <= k /\ (new[i] = k => i = k)
      <4>1. CASE Below(rs, level, i)
        BY <1>9, <3>1, <4>1
      <4>2. CASE ~Below(rs, level, i)
        <5>1. PICK f, l : /\ IsStretch(rs, level, i, f, l) /\ f \in 1..i /\ l \in i..n
                          /\ new[i] \in f..l
          BY <1>10, <4>2
        <5>2. l < k
          <6>1. SUFFICES ASSUME k <= l PROVE FALSE
            BY <3>1, <5>1
          <6>2. k \in f..l
            BY <3>1, <5>1, <6>1
          <6>3. QED
            BY <3>2, <5>1, <6>2 DEF IsStretch
        <5>3. QED
          BY <3>2, <5>1, <5>2
      <4>3. QED
        BY <4>1, <4>2
    <3>4. k <= new[j] /\ (new[j] = k => j = k)
      <4>1. CASE Below(rs, level, j)
        BY <1>9, <3>1, <4>1
      <4>2. CASE ~Below(rs, level, j)
        <5>1. PICK f, l : /\ IsStretch(rs, level, j, f, l) /\ f \in 1..j /\ l \in j..n
                          /\ new[j] \in f..l
          BY <1>10, <4>2
        <5>2. k < f
          <6>1. SUFFICES ASSUME f <= k PROVE FALSE
            BY <3>1, <5>1
          <6>2. k \in f..l
            BY <3>1, <5>1, <6>1
          <6>3. QED
            BY <3>2, <5>1, <6>2 DEF IsStretch
        <5>3. QED
          BY <3>2, <5>1, <5>2
      <4>3. QED
        BY <4>1, <4>2
    <3>5. new[i] < new[j]
      <4>0. new[i] \in 1..n /\ new[j] \in 1..n
        BY <1>3
      <4>1. new[i] \in Int /\ new[j] \in Int /\ k \in Int
        BY <1>0, <3>2, <4>0
      <4>2. ~(new[i] = k /\ new[j] = k)
        BY <1>12, <3>3, <3>4
      <4>3. QED
        BY <3>3, <3>4, <4>1, <4>2
    <3>6. new[i] # new[j]
      BY <1>3, <3>5
    <3>7. QED
      BY <2>2, <3>5, <3>6
  <2>3. QED
    BY <2>1, <2>2
<1>13. QED
  <2>1. \A i, j \in 1..n : \A m \in Nat :
          i < j /\ IsLowest(rs, i, j, m) =>
            /\ new[i] # new[j]
            /\ new[i] < new[j] <=> m < level \/ (m - level + 1) % 2 = 0
    BY <1>12
  <2> HIDE DEF n
  <2>2. QED
    BY <1>1, <1>3, <1>4, <1>5, <1>11, <2>1 DEF IsReorderedBy, n

(* The loop of ReorderRuns, from the highest level down to 1.              *)
ReorderTurn(env, st, e) == ReverseAtLevel(st, env.max + 1 - e)

ReorderInv(env, k, st) == IsReordered(env.runs, st, env.max + 1 - k)

Reorders == INSTANCE FoldTheorems WITH Op <- ReorderTurn, Inv <- ReorderInv

(* It is the fold that Reorders reasons on.                                *)
LEMMA ReorderRunsIsFold ==
  ASSUME NEW rs, NEW env
  PROVE  ReorderRuns(rs, env.max) = Reorders!Folded(env, rs, [k \in 1..env.max |-> k])
  BY DEF ReorderRuns, Reorders!Folded, FoldLeft, MapThenFoldSet, Max, Reorders!Max, ReorderTurn

(* Before the first round every run is at its place.                       *)
LEMMA NothingReordered ==
  ASSUME NEW rs \in Seq(Run), NEW level \in Nat, \A k \in 1..Len(rs) : rs[k].level < level
  PROVE  IsReordered(rs, rs, level)
<1>0. Len(rs) \in Nat
  BY RunFacts
<1>1. PICK pos : pos = [k \in 1..Len(rs) |-> k]
  OBVIOUS
<1>2. pos \in [1..Len(rs) -> 1..Len(rs)] /\ \A k \in 1..Len(rs) : pos[k] = k
  BY <1>1
<1>3. \A q \in 1..Len(rs) : \E i \in 1..Len(rs) : pos[i] = q
  BY <1>2
<1>4. ASSUME NEW i \in 1..Len(rs), NEW j \in 1..Len(rs), NEW m \in Nat,
             i < j, IsLowest(rs, i, j, m)
      PROVE  /\ pos[i] # pos[j]
             /\ pos[i] < pos[j] <=> m < level \/ (m - level + 1) % 2 = 0
  <2>1. PICK k \in i..j : rs[k].level = m
    BY <1>4 DEF IsLowest
  <2>2. k \in 1..Len(rs)
    BY <1>0
  <2>3. m < level
    BY <2>1, <2>2
  <2>4. pos[i] = i /\ pos[j] = j
    BY <1>2
  <2>5. i < j /\ i # j
    BY <1>4
  <2>6. QED
    BY <2>3, <2>4, <2>5
<1>5. IsReorderedBy(pos, rs, rs, level)
  BY <1>2, <1>3, <1>4 DEF IsReorderedBy
<1>6. QED
  BY <1>5 DEF IsReordered

LEMMA ReorderedByRounds ==
  ASSUME NEW rs \in Seq(Run), NEW max \in Nat, \A k \in 1..Len(rs) : rs[k].level <= max
  PROVE  IsReordered(rs, ReorderRuns(rs, max), 1)
<1>1. PICK env : env = [runs |-> rs, max |-> max]
  OBVIOUS
<1>2. env.runs = rs /\ env.max = max
  BY <1>1
<1>3. PICK seq : seq = [k \in 1..max |-> k]
  OBVIOUS
<1>4. DOMAIN seq = 1..max /\ \A k \in 1..max : seq[k] = k
  BY <1>3
<1>5. ReorderInv(env, 0, rs)
  <2>1. \A k \in 1..Len(rs) : rs[k].level < max + 1
    BY RunFacts
  <2>2. max + 1 \in Nat /\ max + 1 - 0 = max + 1
    OBVIOUS
  <2>3. IsReordered(rs, rs, max + 1)
    BY <2>1, <2>2, NothingReordered
  <2>4. QED
    BY <1>2, <2>2, <2>3 DEF ReorderInv
<1>6. ASSUME NEW k \in 1..max, NEW st, ReorderInv(env, k - 1, st)
      PROVE  ReorderInv(env, k, ReorderTurn(env, st, seq[k]))
  <2>1. PICK level \in Nat : level = max + 1 - k
    OBVIOUS
  <2>2. max + 1 - (k - 1) = level + 1
    BY <2>1
  <2>3. IsReordered(rs, st, level + 1)
    BY <1>2, <1>6, <2>2 DEF ReorderInv
  <2>4. st \in Seq(Run) /\ Len(st) = Len(rs)
    BY <2>3 DEF IsReordered
  <2>5. PICK pos : IsReorderedBy(pos, rs, st, level + 1)
    BY <2>3 DEF IsReordered
  <2>6. PICK out : out = ReverseAtLevel(st, level)
    OBVIOUS
  <2>7. out \in Seq(Run) /\ Len(out) = Len(rs)
    BY <2>4, <2>6, ReverseIs
  <2>8. PICK new : new = [i \in 1..Len(rs) |-> Across(st, level, pos[i])]
    OBVIOUS
  <2>9. IsReorderedBy(new, rs, ReverseAtLevel(st, level), level)
    BY <2>4, <2>5, <2>8, ReversePositions
  <2>10. IsReordered(rs, out, level)
    BY <2>6, <2>7, <2>9 DEF IsReordered
  <2>11. ReorderTurn(env, st, seq[k]) = out
    BY <1>2, <1>4, <2>1, <2>6 DEF ReorderTurn
  <2>12. QED
    BY <1>2, <2>1, <2>10, <2>11 DEF ReorderInv
<1>7. ReorderInv(env, max, Reorders!Folded(env, rs, seq))
  BY <1>4, <1>5, <1>6, Reorders!FoldLeftInvariant
<1>8. ReorderRuns(rs, max) = Reorders!Folded(env, rs, seq)
  BY <1>2, <1>3, ReorderRunsIsFold
<1>9. max + 1 - max = 1
  OBVIOUS
<1>10. QED
  BY <1>2, <1>7, <1>8, <1>9 DEF ReorderInv

(* Rule L2: out has the runs of rs, each at its position pos, and of two   *)
(* runs the first one comes first if the lowest level from the one to the  *)
(* other is even, and last if it is odd.                                   *)
IsDisplayed(pos, rs, out) ==
  /\ pos \in [1..Len(rs) -> 1..Len(rs)]
  /\ \A q \in 1..Len(rs) : \E i \in 1..Len(rs) : pos[i] = q
  /\ \A i \in 1..Len(rs) : out[pos[i]] = rs[i]
  /\ \A i, j \in 1..Len(rs) : \A m \in Nat :
        i < j /\ IsLowest(rs, i, j, m) =>
          pos[i] # pos[j] /\ (pos[i] < pos[j] <=> ~IsOdd(m))

(* ReorderRuns of SBLine.c orders any runs as rule L2 says, whatever levels *)
(* they have, by reversals from the highest level down to 1.               *)
THEOREM RunsReorderedAsRuled ==
  ASSUME NEW rs \in Seq(Run), NEW maxLevel \in Nat,
         \A k \in 1..Len(rs) : rs[k].level <= maxLevel,
         NEW out, out = ReorderRuns(rs, maxLevel)
  PROVE  /\ out \in Seq(Run) /\ Len(out) = Len(rs)
         /\ \E pos : IsDisplayed(pos, rs, out)
<1>1. IsReordered(rs, out, 1)
  BY ReorderedByRounds
<1>2. out \in Seq(Run) /\ Len(out) = Len(rs)
  BY <1>1 DEF IsReordered
<1>3. PICK pos : IsReorderedBy(pos, rs, out, 1)
  BY <1>1 DEF IsReordered
<1>4. ASSUME NEW i \in 1..Len(rs), NEW j \in 1..Len(rs), NEW m \in Nat,
             i < j, IsLowest(rs, i, j, m)
      PROVE  pos[i] # pos[j] /\ (pos[i] < pos[j] <=> ~IsOdd(m))
  <2>1. /\ pos[i] # pos[j]
        /\ pos[i] < pos[j] <=> m < 1 \/ (m - 1 + 1) % 2 = 0
    BY <1>3, <1>4 DEF IsReorderedBy
  <2>2. m < 1 \/ (m - 1 + 1) % 2 = 0 <=> ~(m % 2 = 1)
    <3>1. m - 1 + 1 = m
      OBVIOUS
    <3>2. m < 1 \/ m % 2 = 0 <=> ~(m % 2 = 1)
      OBVIOUS
    <3>3. QED
      BY <3>1, <3>2
  <2>3. QED
    BY <2>1, <2>2 DEF IsOdd
<1>5. IsDisplayed(pos, rs, out)
  BY <1>3, <1>4 DEF IsReorderedBy, IsDisplayed
<1>6. QED
  BY <1>2, <1>5

-----------------------------------------------------------------------------
(* Rule L1.                                                                *)

(* What the loop of ResetLevels keeps track of: the levels, each as it was *)
(* or reset, and how many units wait to be reset with the next one.        *)
IsResetting(s, levels, base, n) ==
  /\ levels \in [1..n -> SBLevels] /\ base \in SBLevels
  /\ s \in [levels : [1..n -> SBLevels], length : Nat, reset : BOOLEAN, added : Nat]
  /\ \A u \in 1..n : s.levels[u] \in {levels[u], base}

(* What one unit of the loop makes of s.                                   *)
UnitDone(r, s, type, i, base, n) ==
  /\ type \in Separators \/ (type \in Spaces /\ s.reset) =>
       /\ r.length = 0 /\ r.reset = TRUE
       /\ \A u \in 1..n : r.levels[u] = IF i <= u /\ u <= i + s.length THEN base ELSE s.levels[u]
  /\ type \in Ignored => r.levels = s.levels /\ r.length = s.length + 1 /\ r.reset = s.reset
  /\ type \in Spaces /\ ~s.reset => r = s
  /\ type \notin Separators \cup Ignored \cup Spaces =>
       r.levels = s.levels /\ r.length = 0 /\ r.reset = FALSE

LEMMA ResetUnitIs ==
  ASSUME NEW n \in Nat, NEW s, NEW levels, NEW base, IsResetting(s, levels, base, n),
         NEW type, NEW i \in 1..n
  PROVE  /\ IsResetting(ResetUnit(s, type, i, base), levels, base, n)
         /\ UnitDone(ResetUnit(s, type, i, base), s, type, i, base, n)
<1>0. PICK r : r = ResetUnit(s, type, i, base)
  OBVIOUS
<1>a. SUFFICES IsResetting(r, levels, base, n) /\ UnitDone(r, s, type, i, base, n)
  BY <1>0
<1>1. PICK new : new = SetNewLevel(s.levels, i, s.length + 1, base)
  OBVIOUS
<1>2. /\ n \in Nat /\ levels \in [1..n -> SBLevels] /\ base \in SBLevels
      /\ s.levels \in [1..n -> SBLevels] /\ s.length \in Nat /\ s.reset \in BOOLEAN /\ s.added \in Nat
      /\ \A u \in 1..n : s.levels[u] \in {levels[u], base}
  BY DEF IsResetting
<1>3. new \in [1..n -> SBLevels]
      /\ \A u \in 1..n : new[u] = IF i <= u /\ u < i + (s.length + 1) THEN base ELSE s.levels[u]
  <2>1. new = [u \in 1..n |-> IF u \in i..(i + (s.length + 1) - 1) THEN base ELSE s.levels[u]]
    BY <1>1, <1>2 DEF SetNewLevel
  <2>2. \A u \in 1..n : u \in i..(i + (s.length + 1) - 1) <=> i <= u /\ u < i + (s.length + 1)
    BY <1>2
  <2>3. \A u \in 1..n :
           (IF u \in i..(i + (s.length + 1) - 1) THEN base ELSE s.levels[u]) \in SBLevels
    BY <1>2
  <2>4. new \in [1..n -> SBLevels]
    BY <2>1, <2>3
  <2>5. QED
    BY <2>1, <2>2, <2>4
<1>4. /\ "B" \notin Ignored /\ "S" \notin Ignored /\ Separators \cap Ignored = {}
      /\ Separators \cap Spaces = {} /\ Ignored \cap Spaces = {}
  BY DEF Separators, Ignored, Spaces
<1>5. CASE type \in Separators \/ (type \in Spaces /\ s.reset)
  <2>1. r = [levels |-> new, length |-> 0, reset |-> TRUE, added |-> s.added + 1]
    BY <1>0, <1>1, <1>4, <1>5 DEF ResetUnit
  <2>2. r.levels = new /\ r.length = 0 /\ r.reset = TRUE /\ r.added \in Nat
    BY <1>2, <2>1
  <2>3. \A u \in 1..n : r.levels[u] = IF i <= u /\ u <= i + s.length THEN base ELSE s.levels[u]
    <3>1. \A u \in 1..n : u < i + (s.length + 1) <=> u <= i + s.length
      BY <1>2
    <3>2. QED
      BY <1>3, <2>2, <3>1
  <2>4. IsResetting(r, levels, base, n)
    <3>1. r \in [levels : [1..n -> SBLevels], length : Nat, reset : BOOLEAN, added : Nat]
      BY <1>2, <1>3, <2>1
    <3>2. \A u \in 1..n : r.levels[u] \in {levels[u], base}
      BY <1>2, <2>3
    <3>3. QED
      BY <3>1, <3>2 DEF IsResetting
  <2>5. QED
    BY <1>4, <1>5, <2>2, <2>3, <2>4 DEF UnitDone
<1>6. CASE type \in Ignored
  <2>1. r = [s EXCEPT !.length = s.length + 1] /\ type \notin Separators /\ type \notin Spaces
    BY <1>0, <1>4, <1>6 DEF ResetUnit
  <2>2. r = [levels |-> s.levels, length |-> s.length + 1, reset |-> s.reset, added |-> s.added]
    BY <2>1 DEF IsResetting
  <2>3. r.levels = s.levels /\ r.length = s.length + 1 /\ r.reset = s.reset
    BY <2>2
  <2>4. IsResetting(r, levels, base, n)
    BY <1>2, <2>2 DEF IsResetting
  <2>5. QED
    BY <1>6, <2>1, <2>3, <2>4 DEF UnitDone
<1>7. CASE type \in Spaces /\ ~s.reset
  <2>1. r = s /\ type \notin Separators /\ type \notin Ignored
    BY <1>0, <1>4, <1>7 DEF ResetUnit
  <2>2. QED
    BY <1>7, <2>1 DEF UnitDone
<1>8. CASE type \notin Separators \cup Ignored \cup Spaces
  <2>1. r = [s EXCEPT !.length = 0, !.reset = FALSE]
    BY <1>0, <1>8 DEF ResetUnit
  <2>2. r = [levels |-> s.levels, length |-> 0, reset |-> FALSE, added |-> s.added]
    BY <2>1 DEF IsResetting
  <2>3. r.levels = s.levels /\ r.length = 0 /\ r.reset = FALSE
    BY <2>2
  <2>4. IsResetting(r, levels, base, n)
    BY <1>2, <2>2 DEF IsResetting
  <2>5. QED
    BY <1>8, <2>3, <2>4 DEF UnitDone
<1>9. QED
  BY <1>5, <1>6, <1>7, <1>8

(* From unit i on there are only spaces and ignored units, up to a         *)
(* separator or to the end.                                                *)
AtEnd(types, end, i) ==
  \E j \in i..end : /\ \A m \in i..(j - 1) : types[m] \in Spaces \cup Ignored
                    /\ j = end \/ types[j] \in Separators

ResetsAt(types, end, k) ==
  types[k] \in Separators \/ (types[k] \in Spaces /\ AtEnd(types, end, k + 1))

(* The units between start and u that are not ignored.                     *)
Befores(types, start, u) == {k \in start..(u - 1) : types[k] \notin Ignored}

LEMMA Disjoint ==
  /\ Separators \cap Ignored = {} /\ Separators \cap Spaces = {} /\ Ignored \cap Spaces = {}
  BY DEF Separators, Ignored, Spaces

LEMMA IsResetIs ==
  ASSUME NEW types, NEW start, NEW end, NEW u
  PROVE  IsReset(types, start, end, u) <=>
           IF types[u] \in Ignored
           THEN /\ Befores(types, start, u) # {}
                /\ ResetsAt(types, end, Max(Befores(types, start, u)))
           ELSE ResetsAt(types, end, u)
  BY DEF IsReset, Befores, ResetsAt, AtEnd

(* AtEnd, one unit after the other.                                        *)
LEMMA AtEndStep ==
  ASSUME NEW types, NEW n \in Nat, NEW x \in 1..n
  PROVE  AtEnd(types, n + 1, x) <=>
           types[x] \in Separators \/ (types[x] \in Spaces \cup Ignored /\ AtEnd(types, n + 1, x + 1))
<1>1. ASSUME AtEnd(types, n + 1, x), types[x] \notin Separators
      PROVE  types[x] \in Spaces \cup Ignored /\ AtEnd(types, n + 1, x + 1)
  <2>1. PICK j \in x..(n + 1) : /\ \A m \in x..(j - 1) : types[m] \in Spaces \cup Ignored
                                /\ j = n + 1 \/ types[j] \in Separators
    BY <1>1 DEF AtEnd
  <2>2. j # x
    BY <1>1, <2>1
  <2>3. x \in x..(j - 1) /\ j \in (x + 1)..(n + 1)
    BY <2>1, <2>2
  <2>4. \A m \in (x + 1)..(j - 1) : types[m] \in Spaces \cup Ignored
    BY <2>1
  <2>5. QED
    BY <2>1, <2>3, <2>4 DEF AtEnd
<1>2. ASSUME types[x] \in Separators PROVE AtEnd(types, n + 1, x)
  <2>1. x \in x..(n + 1) /\ \A m \in x..(x - 1) : types[m] \in Spaces \cup Ignored
    OBVIOUS
  <2>2. QED
    BY <1>2, <2>1 DEF AtEnd
<1>3. ASSUME types[x] \in Spaces \cup Ignored, AtEnd(types, n + 1, x + 1)
      PROVE  AtEnd(types, n + 1, x)
  <2>1. PICK j \in (x + 1)..(n + 1) : /\ \A m \in (x + 1)..(j - 1) : types[m] \in Spaces \cup Ignored
                                      /\ j = n + 1 \/ types[j] \in Separators
    BY <1>3 DEF AtEnd
  <2>2. j \in x..(n + 1)
    BY <2>1
  <2>3. \A m \in x..(j - 1) : types[m] \in Spaces \cup Ignored
    <3>1. \A m \in x..(j - 1) : m = x \/ m \in (x + 1)..(j - 1)
      OBVIOUS
    <3>2. QED
      BY <1>3, <2>1, <3>1
  <2>4. QED
    BY <2>1, <2>2, <2>3 DEF AtEnd
<1>4. QED
  BY <1>1, <1>2, <1>3

(* What a unit more in front changes in which units are reset.             *)
LEMMA IsResetStep ==
  ASSUME NEW types, NEW n \in Nat, NEW x \in 1..n, NEW u \in (x + 1)..n
  PROVE  /\ types[x] \in Ignored \/ (\E k \in (x + 1)..u : types[k] \notin Ignored) =>
              (IsReset(types, x, n + 1, u) <=> IsReset(types, x + 1, n + 1, u))
         /\ types[x] \notin Ignored /\ (\A k \in (x + 1)..u : types[k] \in Ignored) =>
              /\ IsReset(types, x, n + 1, u) <=> ResetsAt(types, n + 1, x)
              /\ ~IsReset(types, x + 1, n + 1, u)
<1>1. PICK P, Q : P = Befores(types, x, u) /\ Q = Befores(types, x + 1, u)
  OBVIOUS
<1>2. /\ P = {k \in x..(u - 1) : types[k] \notin Ignored}
      /\ Q = {k \in (x + 1)..(u - 1) : types[k] \notin Ignored}
  BY <1>1 DEF Befores
<1>3. /\ IsReset(types, x, n + 1, u) <=>
           IF types[u] \in Ignored THEN P # {} /\ ResetsAt(types, n + 1, Max(P))
           ELSE ResetsAt(types, n + 1, u)
      /\ IsReset(types, x + 1, n + 1, u) <=>
           IF types[u] \in Ignored THEN Q # {} /\ ResetsAt(types, n + 1, Max(Q))
           ELSE ResetsAt(types, n + 1, u)
  BY <1>1, IsResetIs
<1>4. P \subseteq 0..n /\ Q \subseteq P /\ (\A k \in P : k = x \/ k \in Q)
      /\ (x \in P <=> types[x] \notin Ignored) /\ \A k \in Q : x < k
  BY <1>2
<1>5. CASE types[u] \notin Ignored
  <2>1. IsReset(types, x, n + 1, u) <=> IsReset(types, x + 1, n + 1, u)
    BY <1>3, <1>5
  <2>2. u \in (x + 1)..u
    OBVIOUS
  <2>3. QED
    BY <1>5, <2>1, <2>2
<1>6. CASE types[u] \in Ignored /\ types[x] \in Ignored
  <2>1. P = Q
    BY <1>4, <1>6
  <2>2. QED
    BY <1>3, <1>6, <2>1
<1>7. CASE types[u] \in Ignored /\ types[x] \notin Ignored /\ Q # {}
  <2>1. PICK a, b \in Int : a = Max(P) /\ b = Max(Q) /\ a \in P /\ b \in Q
                       /\ (\A y \in P : y <= a) /\ (\A y \in Q : y <= b)
    <3>1. P # {} /\ Q \subseteq 0..n
      BY <1>4, <1>7
    <3>2. Max(P) \in P /\ Max(P) \in 0..n /\ \A y \in P : y <= Max(P)
      BY <1>4, <3>1, MaxIs
    <3>3. Max(Q) \in Q /\ Max(Q) \in 0..n /\ \A y \in Q : y <= Max(Q)
      BY <1>7, <3>1, MaxIs
    <3>4. QED
      BY <3>2, <3>3
  <2>2. b <= a /\ x < b
    BY <1>4, <2>1
  <2>3. a \in Q /\ a <= b
    BY <1>4, <2>1, <2>2
  <2>4. a = b
    BY <2>2, <2>3, <2>1
  <2>5. ~(\A k \in (x + 1)..u : types[k] \in Ignored)
    BY <1>2, <1>7
  <2>6. QED
    BY <1>3, <1>4, <1>7, <2>1, <2>4, <2>5
<1>8. CASE types[u] \in Ignored /\ types[x] \notin Ignored /\ Q = {}
  <2>1. P = {x}
    BY <1>4, <1>8
  <2>2. Max(P) = x
    <3>1. P # {} /\ Max(P) \in P
      BY <1>4, <2>1, MaxIs
    <3>2. QED
      BY <2>1, <3>1
  <2>3. ~(\E k \in (x + 1)..u : types[k] \notin Ignored)
    <3>1. SUFFICES ASSUME NEW k \in (x + 1)..u, types[k] \notin Ignored PROVE FALSE
      OBVIOUS
    <3>2. k # u
      BY <1>8, <3>1
    <3>3. k \in (x + 1)..(u - 1)
      BY <3>2
    <3>4. QED
      BY <1>2, <1>8, <3>1, <3>3
  <2>4. QED
    BY <1>3, <1>8, <2>1, <2>2, <2>3
<1>9. QED
  BY <1>5, <1>6, <1>7, <1>8

(* And the unit itself.                                                    *)
LEMMA IsResetFirst ==
  ASSUME NEW types, NEW n \in Nat, NEW x \in 1..n
  PROVE  IsReset(types, x, n + 1, x) <=> types[x] \notin Ignored /\ ResetsAt(types, n + 1, x)
<1>1. Befores(types, x, x) = {}
  BY DEF Befores
<1>2. QED
  BY <1>1, IsResetIs

(* The units that wait are the ignored ones that follow; or there is a     *)
(* space among them that stays as it is, and an ignored unit after it.     *)
WaitRuled(s, types, n, i) ==
  \/ /\ s.length + i <= n + 1
     /\ \A u \in i..n : u < i + s.length => types[u] \in Ignored
     /\ i + s.length <= n => types[i + s.length] \notin Ignored
  \/ /\ ~s.reset
     /\ \E j \in i..n, k \in i..n :
          /\ j < k /\ types[j] \in Spaces /\ types[k] \in Ignored
          /\ \A m \in i..k : types[m] \in Spaces \cup Ignored
          /\ ~ResetsAt(types, n + 1, j)

(* The units from i on have the levels of rule L1, the others their own.   *)
IsResetFrom(s, types, levels, base, n, i) ==
  /\ s.reset <=> AtEnd(types, n + 1, i)
  /\ \A u \in i..n : s.levels[u] = IF IsReset(types, i, n + 1, u) THEN base ELSE levels[u]
  /\ \A u \in 1..n : u < i => s.levels[u] = levels[u]
  /\ WaitRuled(s, types, n, i)

LEMMA ResetUnitRuled ==
  ASSUME NEW n \in Nat, NEW s, NEW levels, NEW base, IsResetting(s, levels, base, n),
         NEW types, NEW x \in 1..n, ~ResetsTooMuch(types, 1, n + 1),
         IsResetFrom(s, types, levels, base, n, x + 1),
         NEW r, r = ResetUnit(s, types[x], x, base)
  PROVE  IsResetFrom(r, types, levels, base, n, x)
<1>1. /\ n \in Nat /\ levels \in [1..n -> SBLevels] /\ base \in SBLevels
      /\ s.levels \in [1..n -> SBLevels] /\ s.length \in Nat /\ s.reset \in BOOLEAN
  BY DEF IsResetting
<1>2. /\ s.reset <=> AtEnd(types, n + 1, x + 1)
      /\ \A u \in (x + 1)..n :
            s.levels[u] = IF IsReset(types, x + 1, n + 1, u) THEN base ELSE levels[u]
      /\ \A u \in 1..n : u < x + 1 => s.levels[u] = levels[u]
      /\ WaitRuled(s, types, n, x + 1)
  BY DEF IsResetFrom
<1>3. PICK type : type = types[x]
  OBVIOUS
<1>4. /\ type \in Separators \/ (type \in Spaces /\ s.reset) =>
              /\ r.length = 0 /\ r.reset = TRUE
              /\ \A u \in 1..n : r.levels[u] = IF x <= u /\ u <= x + s.length THEN base
                                               ELSE s.levels[u]
      /\ type \in Ignored => r.levels = s.levels /\ r.length = s.length + 1 /\ r.reset = s.reset
      /\ type \in Spaces /\ ~s.reset => r = s
      /\ type \notin Separators \cup Ignored \cup Spaces =>
              r.levels = s.levels /\ r.length = 0 /\ r.reset = FALSE
  <2>1. UnitDone(r, s, type, x, base, n)
    BY <1>3, ResetUnitIs
  <2>2. QED
    BY <2>1 DEF UnitDone
<1>5. AtEnd(types, n + 1, x) <=>
           type \in Separators \/ (type \in Spaces \cup Ignored /\ AtEnd(types, n + 1, x + 1))
  BY <1>3, AtEndStep
<1>6. ResetsAt(types, n + 1, x) <=>
           type \in Separators \/ (type \in Spaces /\ AtEnd(types, n + 1, x + 1))
  BY <1>3 DEF ResetsAt
<1>7. IsReset(types, x, n + 1, x) <=> type \notin Ignored /\ ResetsAt(types, n + 1, x)
  BY <1>3, IsResetFirst
<1>8. \A u \in (x + 1)..n :
         /\ type \in Ignored \/ (\E k \in (x + 1)..u : types[k] \notin Ignored) =>
              (IsReset(types, x, n + 1, u) <=> IsReset(types, x + 1, n + 1, u))
         /\ type \notin Ignored /\ (\A k \in (x + 1)..u : types[k] \in Ignored) =>
              /\ IsReset(types, x, n + 1, u) <=> ResetsAt(types, n + 1, x)
              /\ ~IsReset(types, x + 1, n + 1, u)
  BY <1>3, IsResetStep
<1>9. \A u \in x..n : u = x \/ u \in (x + 1)..n
  OBVIOUS
<1>10. CASE type \in Separators \/ (type \in Spaces /\ s.reset)
  <2>1. type \notin Ignored /\ ResetsAt(types, n + 1, x) /\ AtEnd(types, n + 1, x)
    BY <1>2, <1>5, <1>6, <1>10, Disjoint
  <2>2. /\ s.length + (x + 1) <= n + 1
        /\ \A u \in (x + 1)..n : u < x + 1 + s.length => types[u] \in Ignored
        /\ x + 1 + s.length <= n => types[x + 1 + s.length] \notin Ignored
    <3>1. SUFFICES ASSUME ~s.reset,
                          NEW j \in (x + 1)..n, NEW k \in (x + 1)..n,
                          j < k, types[j] \in Spaces, types[k] \in Ignored,
                          \A m \in (x + 1)..k : types[m] \in Spaces \cup Ignored,
                          ~ResetsAt(types, n + 1, j)
                   PROVE  FALSE
      BY <1>2 DEF WaitRuled
    <3>2. types[x] \in Separators
      BY <1>3, <1>10, <3>1
    <3>3. types[j] \notin Ignored
      BY <3>1, Disjoint
    <3>4. ~IsReset(types, 1, n + 1, j)
      BY <3>1, <3>3, IsResetIs
    <3>5. x \in 1..(n + 1 - 1) /\ j \in 1..(n + 1 - 1) /\ k \in 1..(n + 1 - 1) /\ x < j
      BY <3>1
    <3>6. ResetsTooMuch(types, 1, n + 1)
      BY <3>1, <3>2, <3>4, <3>5 DEF ResetsTooMuch
    <3>7. QED
      BY <3>6
  <2>3. ASSUME NEW u \in x..n
        PROVE  r.levels[u] = IF IsReset(types, x, n + 1, u) THEN base ELSE levels[u]
    <3>1. CASE u = x
      <4>1. x <= u /\ u <= x + s.length
        BY <1>1, <3>1
      <4>2. r.levels[u] = base
        BY <1>4, <1>10, <4>1
      <4>3. QED
        BY <1>7, <2>1, <3>1, <4>2
    <3>2. CASE u \in (x + 1)..n /\ u <= x + s.length
      <4>1. r.levels[u] = base
        BY <1>4, <1>10, <3>2
      <4>2. \A k \in (x + 1)..u : types[k] \in Ignored
        BY <1>1, <2>2, <3>2
      <4>3. QED
        BY <1>8, <2>1, <3>2, <4>1, <4>2
    <3>3. CASE u \in (x + 1)..n /\ ~(u <= x + s.length)
      <4>1. r.levels[u] = s.levels[u]
        BY <1>4, <1>10, <3>3
      <4>2. x + 1 + s.length \in (x + 1)..u /\ types[x + 1 + s.length] \notin Ignored
        BY <1>1, <2>2, <3>3
      <4>3. IsReset(types, x, n + 1, u) <=> IsReset(types, x + 1, n + 1, u)
        BY <1>8, <3>3, <4>2
      <4>4. QED
        BY <1>2, <3>3, <4>1, <4>3
    <3>4. QED
      BY <1>9, <3>1, <3>2, <3>3
  <2>4. ASSUME NEW u \in 1..n, u < x PROVE r.levels[u] = levels[u]
    <3>1. r.levels[u] = s.levels[u] /\ u < x + 1
      BY <1>4, <1>10, <2>4
    <3>2. QED
      BY <1>2, <3>1
  <2>5. WaitRuled(r, types, n, x)
    <3>1. r.length = 0
      BY <1>4, <1>10
    <3>2. x + r.length = x /\ r.length + x <= n + 1
      BY <3>1
    <3>3. QED
      BY <1>3, <2>1, <3>2 DEF WaitRuled
  <2>6. r.reset <=> AtEnd(types, n + 1, x)
    BY <1>4, <1>10, <2>1
  <2>7. QED
    BY <2>3, <2>4, <2>5, <2>6 DEF IsResetFrom
<1>11. CASE type \in Ignored
  <2>1. r.levels = s.levels /\ r.length = s.length + 1 /\ r.reset = s.reset
        /\ type \notin Separators
    BY <1>4, <1>11, Disjoint
  <2>2. ASSUME NEW u \in x..n
        PROVE  r.levels[u] = IF IsReset(types, x, n + 1, u) THEN base ELSE levels[u]
    <3>1. CASE u = x
      <4>1. s.levels[x] = levels[x]
        BY <1>2
      <4>2. QED
        BY <1>7, <1>11, <2>1, <3>1, <4>1
    <3>2. CASE u \in (x + 1)..n
      BY <1>2, <1>8, <1>11, <2>1, <3>2
    <3>3. QED
      BY <1>9, <3>1, <3>2
  <2>3. ASSUME NEW u \in 1..n, u < x PROVE r.levels[u] = levels[u]
    <3>1. u < x + 1
      BY <2>3
    <3>2. QED
      BY <1>2, <2>1, <3>1
  <2>4. WaitRuled(r, types, n, x)
    <3>1. CASE /\ s.length + (x + 1) <= n + 1
               /\ \A u \in (x + 1)..n : u < x + 1 + s.length => types[u] \in Ignored
               /\ x + 1 + s.length <= n => types[x + 1 + s.length] \notin Ignored
      <4>0. PICK m \in Nat : m = s.length
        BY <1>1
      <4>1. r.length + x <= n + 1 /\ x + r.length = x + 1 + s.length
        <5>1. r.length = m + 1 /\ m + (x + 1) <= n + 1
          BY <2>1, <3>1, <4>0
        <5>2. m + 1 + x <= n + 1 /\ x + (m + 1) = x + 1 + m
          BY <5>1
        <5>3. QED
          BY <4>0, <5>1, <5>2
      <4>2. \A u \in x..n : u < x + r.length => types[u] \in Ignored
        <5>1. \A u \in (x + 1)..n : u < x + r.length => types[u] \in Ignored
          BY <3>1, <4>1
        <5>2. QED
          BY <1>3, <1>9, <1>11, <5>1
      <4>3. QED
        BY <3>1, <4>1, <4>2 DEF WaitRuled
    <3>2. CASE /\ ~s.reset
               /\ \E j \in (x + 1)..n, k \in (x + 1)..n :
                    /\ j < k /\ types[j] \in Spaces /\ types[k] \in Ignored
                    /\ \A m \in (x + 1)..k : types[m] \in Spaces \cup Ignored
                    /\ ~ResetsAt(types, n + 1, j)
      <4>1. PICK j \in (x + 1)..n, k \in (x + 1)..n :
                    /\ j < k /\ types[j] \in Spaces /\ types[k] \in Ignored
                    /\ \A m \in (x + 1)..k : types[m] \in Spaces \cup Ignored
                    /\ ~ResetsAt(types, n + 1, j)
        BY <3>2
      <4>2. \A m \in x..k : types[m] \in Spaces \cup Ignored
        <5>1. \A m \in x..k : m = x \/ m \in (x + 1)..k
          OBVIOUS
        <5>2. QED
          BY <1>3, <1>11, <4>1, <5>1
      <4>3. j \in x..n /\ k \in x..n /\ ~r.reset
        BY <2>1, <3>2
      <4>4. QED
        BY <4>1, <4>2, <4>3 DEF WaitRuled
    <3>3. QED
      BY <1>2, <3>1, <3>2 DEF WaitRuled
  <2>5. r.reset <=> AtEnd(types, n + 1, x)
    BY <1>2, <1>5, <1>11, <2>1
  <2>6. QED
    BY <2>2, <2>3, <2>4, <2>5 DEF IsResetFrom
<1>12. CASE type \notin Ignored /\ ~(type \in Separators \/ (type \in Spaces /\ s.reset))
  <2>1. ~ResetsAt(types, n + 1, x) /\ r.levels = s.levels /\ ~r.reset /\ ~AtEnd(types, n + 1, x)
    <3>1. CASE type \in Spaces
      BY <1>2, <1>4, <1>5, <1>6, <1>12, <3>1
    <3>2. CASE type \notin Spaces
      BY <1>2, <1>4, <1>5, <1>6, <1>12, <3>2
    <3>3. QED
      BY <3>1, <3>2
  <2>2. ASSUME NEW u \in x..n
        PROVE  r.levels[u] = IF IsReset(types, x, n + 1, u) THEN base ELSE levels[u]
    <3>1. CASE u = x
      <4>1. s.levels[x] = levels[x]
        BY <1>2
      <4>2. QED
        BY <1>7, <2>1, <3>1, <4>1
    <3>2. CASE u \in (x + 1)..n
      BY <1>2, <1>8, <1>12, <2>1, <3>2
    <3>3. QED
      BY <1>9, <3>1, <3>2
  <2>3. ASSUME NEW u \in 1..n, u < x PROVE r.levels[u] = levels[u]
    <3>1. u < x + 1
      BY <2>3
    <3>2. QED
      BY <1>2, <2>1, <3>1
  <2>4. WaitRuled(r, types, n, x)
    <3>1. CASE r.length = 0
      <4>1. x + r.length = x /\ r.length + x <= n + 1
        BY <3>1
      <4>2. QED
        BY <1>3, <1>12, <4>1 DEF WaitRuled
    <3>2. CASE r.length # 0
      <4>1. type \in Spaces /\ r = s
        BY <1>4, <1>12, <3>2
      <4>2. CASE /\ s.length + (x + 1) <= n + 1
                 /\ \A u \in (x + 1)..n : u < x + 1 + s.length => types[u] \in Ignored
                 /\ x + 1 + s.length <= n => types[x + 1 + s.length] \notin Ignored
        <5>1. x + 1 \in (x + 1)..n /\ x + 1 < x + 1 + s.length /\ x + 1 \in x..n
          BY <1>1, <3>2, <4>1, <4>2
        <5>2. types[x + 1] \in Ignored
          BY <4>2, <5>1
        <5>3. \A m \in x..(x + 1) : types[m] \in Spaces \cup Ignored
          <6>1. \A m \in x..(x + 1) : m = x \/ m = x + 1
            OBVIOUS
          <6>2. QED
            BY <1>3, <4>1, <5>2, <6>1
        <5>4. x \in x..n /\ x < x + 1 /\ types[x] \in Spaces
          BY <1>3, <4>1
        <5>5. QED
          BY <2>1, <5>1, <5>2, <5>3, <5>4 DEF WaitRuled
      <4>3. CASE \E j \in (x + 1)..n, k \in (x + 1)..n :
                    /\ j < k /\ types[j] \in Spaces /\ types[k] \in Ignored
                    /\ \A m \in (x + 1)..k : types[m] \in Spaces \cup Ignored
                    /\ ~ResetsAt(types, n + 1, j)
        <5>1. PICK j \in (x + 1)..n, k \in (x + 1)..n :
                    /\ j < k /\ types[j] \in Spaces /\ types[k] \in Ignored
                    /\ \A m \in (x + 1)..k : types[m] \in Spaces \cup Ignored
                    /\ ~ResetsAt(types, n + 1, j)
          BY <4>3
        <5>2. \A m \in x..k : types[m] \in Spaces \cup Ignored
          <6>1. \A m \in x..k : m = x \/ m \in (x + 1)..k
            OBVIOUS
          <6>2. QED
            BY <1>3, <4>1, <5>1, <6>1
        <5>3. j \in x..n /\ k \in x..n
          OBVIOUS
        <5>4. QED
          BY <2>1, <5>1, <5>2, <5>3 DEF WaitRuled
      <4>4. QED
        BY <1>2, <4>2, <4>3 DEF WaitRuled
    <3>3. QED
      BY <3>1, <3>2
  <2>5. QED
    BY <2>1, <2>2, <2>3, <2>4 DEF IsResetFrom
<1>13. QED
  BY <1>10, <1>11, <1>12

(* The loop of ResetLevels, from the end of the line.                      *)
ResetTurn(env, s, k) ==
  ResetUnit(s, env.types[Len(env.levels) + 1 - k], Len(env.levels) + 1 - k, env.base)

ResetInv(env, k, s) ==
  /\ IsResetting(s, env.levels, env.base, Len(env.levels))
  /\ ~ResetsTooMuch(env.types, 1, Len(env.levels) + 1) =>
       IsResetFrom(s, env.types, env.levels, env.base, Len(env.levels), Len(env.levels) + 1 - k)

Resets == INSTANCE FoldTheorems WITH Op <- ResetTurn, Inv <- ResetInv

(* It is the fold that Resets reasons on.                                  *)
LEMMA ResetLevelsIsFold ==
  ASSUME NEW env
  PROVE  ResetLevels(env.types, env.levels, env.base) =
           Resets!Folded(env, [levels |-> env.levels, length |-> 0, reset |-> TRUE, added |-> 0],
                         [k \in DOMAIN env.levels |-> k])
  BY DEF ResetLevels, Resets!Folded, FoldLeft, MapThenFoldSet, Max, Resets!Max, ResetTurn

LEMMA ResetLevelsIs ==
  ASSUME NEW n \in Nat, NEW levels, n = Len(levels), levels \in [1..n -> SBLevels],
         NEW base \in SBLevels, NEW types, NEW r, r = ResetLevels(types, levels, base)
  PROVE  /\ IsResetting(r, levels, base, n)
         /\ ~ResetsTooMuch(types, 1, n + 1) =>
              \A u \in 1..n : r.levels[u] = IF IsReset(types, 1, n + 1, u) THEN base ELSE levels[u]
<1>1. PICK env : env = [types |-> types, levels |-> levels, base |-> base]
  OBVIOUS
<1>2. env.types = types /\ env.levels = levels /\ env.base = base /\ Len(env.levels) = n
  BY <1>1
<1>3. PICK seq : seq = [k \in DOMAIN levels |-> k]
  OBVIOUS
<1>4. DOMAIN seq = 1..n /\ \A k \in 1..n : seq[k] = k
  BY <1>3
<1>5. PICK s : s = [levels |-> levels, length |-> 0, reset |-> TRUE, added |-> 0]
  OBVIOUS
<1>6. ResetInv(env, 0, s)
  <2>1. s.levels = levels /\ s.length = 0 /\ s.reset = TRUE
    BY <1>5
  <2>2. s \in [levels : [1..n -> SBLevels], length : Nat, reset : BOOLEAN, added : Nat]
    BY <1>5
  <2>3. IsResetting(s, levels, base, n)
    BY <2>1, <2>2 DEF IsResetting
  <2>4. AtEnd(types, n + 1, n + 1)
    <3>1. n + 1 \in (n + 1)..(n + 1) /\ \A m \in (n + 1)..(n + 1 - 1) : types[m] \in Spaces \cup Ignored
      OBVIOUS
    <3>2. QED
      BY <3>1 DEF AtEnd
  <2>5. WaitRuled(s, types, n, n + 1)
    BY <2>1 DEF WaitRuled
  <2>6. IsResetFrom(s, types, levels, base, n, n + 1)
    BY <2>1, <2>4, <2>5 DEF IsResetFrom
  <2>7. n + 1 - 0 = n + 1
    OBVIOUS
  <2>8. QED
    BY <1>2, <2>3, <2>6, <2>7 DEF ResetInv
<1>7. ASSUME NEW k \in 1..n, NEW st, ResetInv(env, k - 1, st)
      PROVE  ResetInv(env, k, ResetTurn(env, st, seq[k]))
  <2>1. PICK x \in 1..n : x = n + 1 - k
    BY SMTT(40)
  <2>2. n + 1 - (k - 1) = x + 1
    BY <2>1
  <2>3. PICK out : out = ResetUnit(st, types[x], x, base)
    OBVIOUS
  <2>4. ResetTurn(env, st, seq[k]) = out
    BY <1>2, <1>4, <2>1, <2>3 DEF ResetTurn
  <2>5. IsResetting(st, levels, base, n)
        /\ (~ResetsTooMuch(types, 1, n + 1) => IsResetFrom(st, types, levels, base, n, x + 1))
    BY <1>2, <1>7, <2>2 DEF ResetInv
  <2>6. IsResetting(out, levels, base, n)
    BY <2>3, <2>5, ResetUnitIs
  <2>7. ~ResetsTooMuch(types, 1, n + 1) => IsResetFrom(out, types, levels, base, n, x)
    BY <2>3, <2>5, ResetUnitRuled
  <2>8. QED
    BY <1>2, <2>1, <2>4, <2>6, <2>7 DEF ResetInv
<1>8. ResetInv(env, n, Resets!Folded(env, s, seq))
  BY <1>4, <1>6, <1>7, Resets!FoldLeftInvariant
<1>9. r = Resets!Folded(env, s, seq)
  BY <1>2, <1>3, <1>5, ResetLevelsIsFold
<1>10. n + 1 - n = 1
  OBVIOUS
<1>11. IsResetting(r, levels, base, n)
       /\ (~ResetsTooMuch(types, 1, n + 1) => IsResetFrom(r, types, levels, base, n, 1))
  BY <1>2, <1>8, <1>9, <1>10 DEF ResetInv
<1>12. QED
  BY <1>11 DEF IsResetFrom

-----------------------------------------------------------------------------
(* The lines.                                                              *)

(* How many runs the array of a line is allocated for, and the level from  *)
(* which its runs are reordered.                                           *)
LEMMA CopiedIs ==
  ASSUME NEW n \in Nat, NEW levels, levels \in [1..n -> SBLevels],
         NEW copied, copied = CopyLevels(levels)
  PROVE  /\ copied.runCount = n
         /\ copied.maxLevel \in Nat
         /\ \A i \in 1..n : levels[i] <= copied.maxLevel
<1>1. DOMAIN levels = 1..n
  OBVIOUS
<1>a. PICK top \in Nat : \A i \in 1..n : levels[i] \in 0..top /\ levels[i] # SBLevelInvalid
  <2>1. PICK top \in Nat : top = SBLevelInvalid - 1
    BY DEF SBLevelInvalid
  <2>2. SBLevels = 0..top
    BY <2>1 DEF SBLevels
  <2>3. \A i \in 1..n : levels[i] \in 0..top
    BY <2>2
  <2>4. SBLevelInvalid \notin 0..top
    BY <2>1 DEF SBLevelInvalid
  <2>5. QED
    BY <2>3, <2>4
<1>2. {i \in DOMAIN levels : levels[i] # SBLevelInvalid} = 1..n
  BY <1>1, <1>a
<1>3. Cardinality(1..n) = n
  BY FS_Interval
<1>4. copied.runCount = n
  BY <1>2, <1>3 DEF CopyLevels
<1>5. PICK S : S = {0} \cup {levels[i] : i \in 1..n}
  OBVIOUS
<1>6. S \subseteq 0..top /\ S # {} /\ \A i \in 1..n : levels[i] \in S
  <2>1. \A y \in S : y \in 0..top
    BY <1>5, <1>a
  <2>2. 0 \in S /\ \A i \in 1..n : levels[i] \in S
    BY <1>5
  <2>3. QED
    BY <2>1, <2>2
<1>7. PICK m \in Nat : m = Max(S) /\ \A y \in S : y <= m
  <2>1. Max(S) \in S /\ Max(S) \in 0..top /\ \A y \in S : y <= Max(S)
    BY <1>6, MaxIs
  <2>2. QED
    BY <2>1
<1>8. copied.maxLevel = m
  BY <1>1, <1>5, <1>7 DEF CopyLevels
<1>9. \A i \in 1..n : levels[i] <= m
  BY <1>6, <1>7
<1>10. QED
  BY <1>4, <1>8, <1>9

(* Of the line of n units from off on, lv are the levels after rule L1, rs *)
(* their maximal runs and pos where rule L2 takes them.                    *)
IsLine(line, types, levels, off, base, n, lv, rs, pos) ==
  /\ lv \in [1..n -> SBLevels] /\ Len(lv) = n
  /\ ~ResetsTooMuch(types, 1, n + 1) =>
       \A u \in 1..n : lv[u] = IF IsReset(types, 1, n + 1, u) THEN base ELSE levels[u]
  /\ IsRunsFrom(rs, lv, off, 1)
  /\ line.runs \in Seq(Run) /\ Len(line.runs) = Len(rs)
  /\ IsDisplayed(pos, rs, line.runs)
  /\ line.offset = off /\ line.length = n
  /\ Len(line.runs) \in 1..line.capacity

(* SBLineCreate makes a line as rules L1 and L2 say, and no longer than    *)
(* the array that it allocates before it knows the runs.                   *)
THEOREM LineAsRuled ==
  ASSUME NEW n \in Nat \ {0}, NEW levels, n = Len(levels), levels \in [1..n -> SBLevels],
         NEW types, NEW off \in Nat, NEW base \in SBLevels, \A i \in 1..n : base <= levels[i],
         NEW line, line = SBLineCreate(types, levels, off, base)
  PROVE  \E lv, rs, pos : IsLine(line, types, levels, off, base, n, lv, rs, pos)
<1>1. PICK copied : copied = CopyLevels(levels)
  OBVIOUS
<1>2. copied.runCount = n /\ copied.maxLevel \in Nat /\ \A i \in 1..n : levels[i] <= copied.maxLevel
  BY <1>1, CopiedIs
<1>3. PICK reset : reset = ResetLevels(types, levels, base)
  OBVIOUS
<1>4. /\ IsResetting(reset, levels, base, n)
      /\ ~ResetsTooMuch(types, 1, n + 1) =>
            \A u \in 1..n : reset.levels[u] = IF IsReset(types, 1, n + 1, u) THEN base ELSE levels[u]
  BY <1>3, ResetLevelsIs
<1>5. PICK lv : lv = reset.levels
  OBVIOUS
<1>6. lv \in [1..n -> SBLevels] /\ (\A u \in 1..n : lv[u] \in {levels[u], base}) /\ reset.added \in Nat
  BY <1>4, <1>5 DEF IsResetting
<1>7. Len(lv) = n
  BY <1>6
<1>8. PICK rs : rs = InitializeRuns(lv, off)
  OBVIOUS
<1>9. IsRunsFrom(rs, lv, off, 1)
  BY <1>6, <1>7, <1>8, InitializeRunsIs
<1>10. rs \in Seq(Run) /\ Len(rs) \in Nat /\ Len(rs) >= 1 /\ Len(rs) <= n
  <2>1. rs \in Seq(Run) /\ Len(rs) <= n + 1 - 1 /\ (1 <= n => Len(rs) >= 1)
    BY <1>7, <1>9 DEF IsRunsFrom
  <2>2. Len(rs) \in Nat
    BY <2>1, RunFacts
  <2>3. QED
    BY <2>1, <2>2
<1>11. ASSUME NEW k \in 1..Len(rs) PROVE rs[k].level <= copied.maxLevel
  <2>1. PICK o, l \in Int : o = rs[k].offset /\ l = rs[k].length /\ l >= 1 /\ o \in Nat
    <3>1. rs \in Seq(Run)
      BY <1>10
    <3>2. rs[k].offset \in Nat /\ rs[k].length \in Nat \ {0}
      BY <3>1, RunFacts
    <3>3. QED
      BY <3>2
  <2>2. /\ off + 1 - 1 <= o /\ o + l <= off + n
        /\ \A u \in o..(o + l - 1) : lv[u - off + 1] = rs[k].level
    BY <1>7, <1>9, <2>1 DEF IsRunsFrom
  <2>3. o \in o..(o + l - 1) /\ o - off + 1 \in 1..n
    <3>1. off + 1 - 1 <= o /\ o + l <= off + n /\ l >= 1
      BY <2>1, <2>2
    <3>2. QED
      BY <3>1
  <2>4. PICK u \in 1..n : u = o - off + 1 /\ lv[u] = rs[k].level
    BY <2>2, <2>3
  <2>5. levels[u] <= copied.maxLevel /\ base <= levels[u] /\ levels[u] \in Nat /\ base \in Nat
    BY <1>2 DEF SBLevels
  <2>6. base <= copied.maxLevel
    BY <1>2, <2>5
  <2>7. QED
    BY <1>6, <2>4, <2>5, <2>6
<1>12. PICK out : out = ReorderRuns(rs, copied.maxLevel)
  OBVIOUS
<1>13. out \in Seq(Run) /\ Len(out) = Len(rs) /\ \E pos : IsDisplayed(pos, rs, out)
  BY <1>2, <1>10, <1>11, <1>12, RunsReorderedAsRuled
<1>14. PICK pos : IsDisplayed(pos, rs, out)
  BY <1>13
<1>15. /\ line.offset = off /\ line.length = n /\ line.runs = out
       /\ line.capacity = copied.runCount + reset.added
  BY <1>1, <1>3, <1>5, <1>8, <1>12 DEF SBLineCreate
<1>16. Len(line.runs) \in 1..line.capacity
  BY <1>2, <1>6, <1>10, <1>13, <1>15
<1>17. IsLine(line, types, levels, off, base, n, lv, rs, pos)
  BY <1>4, <1>5, <1>6, <1>7, <1>9, <1>13, <1>14, <1>15, <1>16 DEF IsLine
<1>18. QED
  BY <1>17

(* The units of every run of a line are units of the line.                 *)
LEMMA LineInside ==
  ASSUME NEW n \in Nat, NEW off \in Nat, NEW line, NEW types, NEW levels, NEW base, NEW lv, NEW rs,
         NEW pos, IsLine(line, types, levels, off, base, n, lv, rs, pos),
         NEW k \in 1..Len(line.runs)
  PROVE  /\ line.runs[k].offset \in Nat /\ line.runs[k].length \in Nat \ {0}
         /\ line.runs[k].level \in SBLevels
         /\ off <= line.runs[k].offset /\ line.runs[k].offset + line.runs[k].length <= off + n
<1>1. PICK i \in 1..Len(rs) : line.runs[k] = rs[i]
  <2>1. PICK i \in 1..Len(rs) : pos[i] = k
    BY DEF IsLine, IsDisplayed
  <2>2. line.runs[k] = rs[i]
    BY <2>1 DEF IsLine, IsDisplayed
  <2>3. QED
    BY <2>2
<1>2. rs \in Seq(Run) /\ Len(lv) = n /\ IsRunsFrom(rs, lv, off, 1)
  BY DEF IsLine, IsRunsFrom
<1>3. off + 1 - 1 <= rs[i].offset /\ rs[i].offset + rs[i].length <= off + Len(lv)
  BY <1>2 DEF IsRunsFrom
<1>4. rs[i] \in Run /\ rs[i].offset \in Nat /\ rs[i].length \in Nat \ {0}
  BY <1>2, RunFacts
<1>5. rs[i].level \in SBLevels
  BY <1>4 DEF Run
<1>6. QED
  BY <1>1, <1>2, <1>3, <1>4, <1>5

(* The line that a part of a paragraph makes.                              *)
PartOf(s, p, offset, length) == SubSeq(s, offset - p.index + 1, (offset + length) - p.index)

IsLineOf(line, p, offset, length) ==
  \E lv, rs, pos :
     IsLine(line, PartOf(p.types, p, offset, length), PartOf(p.levels, p, offset, length),
            offset, p.baseLevel, length, lv, rs, pos)

LEMMA CreatedLine ==
  ASSUME NEW t, IsCut(t), NEW k \in DOMAIN t.paragraphs, NEW p, p = t.paragraphs[k],
         NEW offset \in Nat, NEW length \in Nat,
         NEW line, line = SBParagraphCreateLine(p, offset, length)
  PROVE  IF length # 0 /\ StartOf(t, k) <= offset /\ offset + length <= LimitOf(t, k)
         THEN line # NoLine /\ IsLineOf(line, p, offset, length)
         ELSE line = NoLine
<1>1. /\ p.index \in Nat /\ p.length \in Nat \ {0} /\ p.baseLevel \in SBLevels
      /\ p.levels \in [1..p.length -> SBLevels]
      /\ \A i \in 1..p.length : p.baseLevel <= p.levels[i]
  BY DEF IsCut
<1>2. StartOf(t, k) = p.index /\ LimitOf(t, k) = p.index + p.length
  BY DEF StartOf, LimitOf, ParagraphLimit
<1>3. CASE ~(length # 0 /\ StartOf(t, k) <= offset /\ offset + length <= LimitOf(t, k))
  <2>1. ~(offset < offset + length /\ offset >= p.index /\ offset + length <= ParagraphLimit(p))
    BY <1>1, <1>2, <1>3 DEF ParagraphLimit
  <2>2. QED
    BY <1>3, <2>1 DEF SBParagraphCreateLine
<1>4. CASE length # 0 /\ StartOf(t, k) <= offset /\ offset + length <= LimitOf(t, k)
  <2>1. offset < offset + length /\ offset >= p.index /\ offset + length <= ParagraphLimit(p)
    BY <1>1, <1>2, <1>4, SMTT(40) DEF ParagraphLimit
  <2>2. PICK types, levels : /\ types = PartOf(p.types, p, offset, length)
                             /\ levels = PartOf(p.levels, p, offset, length)
    OBVIOUS
  <2>3. line = SBLineCreate(types, levels, offset, p.baseLevel)
    <3>1. line = SBLineCreate(SubSeq(p.types, offset - p.index + 1, (offset + length) - p.index),
                              SubSeq(p.levels, offset - p.index + 1, (offset + length) - p.index),
                              offset, p.baseLevel)
      BY <2>1 DEF SBParagraphCreateLine
    <3>2. QED
      BY <2>2, <3>1 DEF PartOf
  <2>a. PICK x \in Nat, l \in Nat : x = p.index /\ l = p.length
    BY <1>1
  <2>b. PICK a \in Int : a = offset - x + 1
    OBVIOUS
  <2>c. PICK b \in Int : b = (offset + length) - x
    OBVIOUS
  <2>4. a = offset - p.index + 1 /\ b = (offset + length) - p.index
    BY <2>a, <2>b, <2>c
  <2>d. length # 0 /\ x <= offset /\ offset + length <= x + l
    BY <1>2, <1>4, <2>a
  <2>e. 1 <= a /\ a <= b /\ b <= l /\ b - a + 1 = length
    BY <2>b, <2>c, <2>d
  <2>5. 1 <= a /\ a <= b /\ b <= p.length /\ b - a + 1 = length
    BY <2>a, <2>e
  <2>f. \A i \in a..b : i \in 1..l
    BY <2>e
  <2>6. levels = SubSeq(p.levels, a, b) /\ \A i \in a..b : i \in 1..p.length /\ p.levels[i] \in SBLevels
    <3>1. levels = SubSeq(p.levels, a, b)
      BY <2>2, <2>4 DEF PartOf
    <3>2. QED
      BY <1>1, <2>a, <2>f, <3>1
  <2>7. /\ levels \in Seq(SBLevels) /\ Len(levels) = length
        /\ \A i \in 1..length : levels[i] = p.levels[a + i - 1]
    BY <2>5, <2>6, SubSeqProperties
  <2>8. levels \in [1..length -> SBLevels]
    BY <2>7
  <2>9. \A i \in 1..length : p.baseLevel <= levels[i]
    <3>1. \A i \in 1..length : a + i - 1 \in 1..p.length
      BY <1>1, <2>5
    <3>2. QED
      BY <1>1, <2>7, <3>1
  <2>10. \E lv, rs, pos : IsLine(line, types, levels, offset, p.baseLevel, length, lv, rs, pos)
    BY <1>1, <1>4, <2>3, <2>7, <2>8, <2>9, LineAsRuled
  <2>11. IsLineOf(line, p, offset, length)
    BY <2>2, <2>10 DEF IsLineOf
  <2>12. line # NoLine
    <3>1. Len(line.runs) \in 1..line.capacity
      BY <2>10 DEF IsLine
    <3>2. Len(line.runs) # 0
      BY <3>1
    <3>3. Len(NoLine.runs) = 0
      BY DEF NoLine
    <3>4. QED
      BY <3>2, <3>3
  <2>13. QED
    BY <1>4, <2>11, <2>12
<1>5. QED
  BY <1>3, <1>4

-----------------------------------------------------------------------------
(* The scripts of a paragraph: one for each of its units.                  *)

PopulateTurn(env, s, c) ==
  IF s.over THEN s ELSE PopulateRun(s, SBScriptLocatorMoveNext(s.locator))

PopulateInv(env, k, s) == "scripts" \in DOMAIN s /\ DOMAIN s.scripts = env

Populates == INSTANCE FoldTheorems WITH Op <- PopulateTurn, Inv <- PopulateInv

(* The loop of PopulateParagraphScripts is the fold that Populates reasons *)
(* on.                                                                     *)
LEMMA PopulateIsFold ==
  ASSUME NEW sequence, NEW env
  PROVE  PopulateParagraphScripts(sequence) =
           Populates!Folded(env, [locator |-> SBScriptLocatorLoadCodepoints(sequence),
                                  scripts |-> [i \in DOMAIN sequence |-> "nil"], over |-> FALSE],
                            sequence).scripts
  BY DEF PopulateParagraphScripts, Populates!Folded, FoldLeft, MapThenFoldSet, Max, Populates!Max,
         PopulateTurn

LEMMA ScriptsOfUnits ==
  ASSUME NEW sequence, Len(sequence) \in Nat, DOMAIN sequence = 1..Len(sequence)
  PROVE  DOMAIN PopulateParagraphScripts(sequence) = 1..Len(sequence)
<1>1. PICK env : env = DOMAIN sequence
  OBVIOUS
<1>2. PICK base : base = [locator |-> SBScriptLocatorLoadCodepoints(sequence),
                          scripts |-> [i \in DOMAIN sequence |-> "nil"], over |-> FALSE]
  OBVIOUS
<1>3. PopulateInv(env, 0, base)
  BY <1>1, <1>2 DEF PopulateInv
<1>4. ASSUME NEW k \in 1..Len(sequence), NEW st, PopulateInv(env, k - 1, st)
      PROVE  PopulateInv(env, k, PopulateTurn(env, st, sequence[k]))
  <2>1. PICK moved : moved = SBScriptLocatorMoveNext(st.locator)
    OBVIOUS
  <2>2. "scripts" \in DOMAIN st /\ DOMAIN st.scripts = env
    BY <1>4 DEF PopulateInv
  <2>3. CASE st.over
    BY <1>4, <2>3 DEF PopulateTurn, PopulateInv
  <2>4. CASE ~st.over /\ ~moved.found
    <3>1. PopulateTurn(env, st, sequence[k]) = [st EXCEPT !.over = TRUE]
      BY <2>1, <2>4 DEF PopulateTurn, PopulateRun
    <3>2. DOMAIN [st EXCEPT !.over = TRUE] = DOMAIN st /\ [st EXCEPT !.over = TRUE].scripts = st.scripts
      BY <2>2
    <3>3. QED
      BY <2>2, <3>1, <3>2 DEF PopulateInv
  <2>5. CASE ~st.over /\ moved.found
    <3>1. PICK run, script : PopulateTurn(env, st, sequence[k]) =
            [st EXCEPT !.locator = moved.locator,
                       !.scripts = [i \in DOMAIN st.scripts |-> IF i \in run THEN script ELSE st.scripts[i]]]
      BY <2>1, <2>2, <2>5 DEF PopulateTurn, PopulateRun
    <3>2. PICK new : new = [i \in DOMAIN st.scripts |-> IF i \in run THEN script ELSE st.scripts[i]]
      OBVIOUS
    <3>3. DOMAIN new = env
      BY <2>2, <3>2
    <3>4. PICK r : r = [st EXCEPT !.locator = moved.locator, !.scripts = new]
      OBVIOUS
    <3>5. DOMAIN r = DOMAIN st /\ r.scripts = new
      BY <2>2, <3>4
    <3>6. QED
      BY <2>2, <3>1, <3>2, <3>3, <3>4, <3>5, SMTT(40) DEF PopulateInv
  <2>6. QED
    BY <2>3, <2>4, <2>5
<1>5. PopulateInv(env, Len(sequence), Populates!Folded(env, base, sequence))
  BY <1>3, <1>4, Populates!FoldLeftInvariant
<1>6. PopulateParagraphScripts(sequence) = Populates!Folded(env, base, sequence).scripts
  BY <1>2, PopulateIsFold
<1>7. QED
  BY <1>1, <1>5, <1>6 DEF PopulateInv

(* The texts that are read are cut as TextsAssumption says.                *)
LEMMA ReadTextIsCut ==
  ASSUME NEW analysed \in Texts, NEW t, t = WithScripts(analysed)
  PROVE  IsCut(t)
<1>a. PICK R, ps : /\ R = [index : Nat, length : Nat \ {0}, baseLevel : SBLevels,
                           types : Seq(BidiTypes), levels : Seq(SBLevels)]
                   /\ ps = analysed.paragraphs
  OBVIOUS
<1>b. ps \in Seq(R)
  BY <1>a, TextsAssumption DEF IsAnalysed
<1>c. PICK n \in Nat : n = Len(ps) /\ DOMAIN ps = 1..n
  BY <1>b, LenProperties
<1>1. n = Len(analysed.paragraphs) /\ DOMAIN analysed.paragraphs = 1..n
  BY <1>a, <1>c
<1>d. \A k \in 1..n : ps[k] \in R
  BY <1>b, <1>c
<1>2. \A k \in 1..n : analysed.paragraphs[k] \in
         [index : Nat, length : Nat \ {0}, baseLevel : SBLevels, types : Seq(BidiTypes), levels : Seq(SBLevels)]
  BY <1>a, <1>d
<1>3. /\ t.units = analysed.units /\ DOMAIN t.paragraphs = 1..n /\ Len(t.paragraphs) = n
      /\ \A k \in 1..n :
           /\ t.paragraphs[k].index = analysed.paragraphs[k].index
           /\ t.paragraphs[k].length = analysed.paragraphs[k].length
           /\ t.paragraphs[k].baseLevel = analysed.paragraphs[k].baseLevel
           /\ t.paragraphs[k].types = analysed.paragraphs[k].types
           /\ t.paragraphs[k].levels = analysed.paragraphs[k].levels
           /\ t.paragraphs[k].scripts = PopulateParagraphScripts(
                SubSeq(analysed.units, analysed.paragraphs[k].index + 1,
                       ParagraphLimit(analysed.paragraphs[k])))
  BY <1>1 DEF WithScripts
<1>4. /\ analysed.units \in Seq(DOMAIN Codepoints) /\ Len(analysed.units) <= SBInvalidIndex
      /\ analysed.paragraphs = <<>> => analysed.units = <<>>
      /\ \A k \in 1..n :
            /\ analysed.paragraphs[k].index =
                 IF k = 1 THEN 0 ELSE ParagraphLimit(analysed.paragraphs[k - 1])
            /\ ParagraphLimit(analysed.paragraphs[k]) <= Len(analysed.units)
            /\ k = n => ParagraphLimit(analysed.paragraphs[k]) = Len(analysed.units)
            /\ Len(analysed.paragraphs[k].types) = analysed.paragraphs[k].length
            /\ Len(analysed.paragraphs[k].levels) = analysed.paragraphs[k].length
            /\ \A i \in 1..analysed.paragraphs[k].length :
                 analysed.paragraphs[k].baseLevel <= analysed.paragraphs[k].levels[i]
  BY <1>1, TextsAssumption, ZenonT(60) DEF IsAnalysed
<1>5. Len(t.units) \in 0..SBInvalidIndex
  <2>1. Len(analysed.units) \in Nat
    BY <1>4
  <2>2. QED
    BY <1>3, <1>4, <2>1, SBInvalidIndexAssumption
<1>6. n = 0 => Len(t.units) = 0
  <2>1. n = 0 => analysed.paragraphs = <<>>
    <3>1. n = 0 => ps = <<>>
      BY <1>b, <1>c, EmptySeq
    <3>2. QED
      BY <1>a, <3>1
  <2>2. QED
    BY <1>3, <1>4, <2>1
<1>7. ASSUME NEW k \in 1..n
      PROVE  LET p == t.paragraphs[k]
             IN  /\ p.index \in Nat /\ p.length \in Nat \ {0}
                 /\ p.index = IF k = 1 THEN 0 ELSE ParagraphLimit(t.paragraphs[k - 1])
                 /\ ParagraphLimit(p) <= Len(t.units)
                 /\ k = Len(t.paragraphs) => ParagraphLimit(p) = Len(t.units)
                 /\ p.baseLevel \in SBLevels
                 /\ p.types \in [1..p.length -> BidiTypes]
                 /\ p.levels \in [1..p.length -> SBLevels]
                 /\ \A i \in 1..p.length : p.baseLevel <= p.levels[i]
                 /\ DOMAIN p.scripts = 1..p.length
  <2>1. PICK a, p : a = analysed.paragraphs[k] /\ p = t.paragraphs[k]
    OBVIOUS
  <2>2. /\ a \in [index : Nat, length : Nat \ {0}, baseLevel : SBLevels, types : Seq(BidiTypes),
                  levels : Seq(SBLevels)]
        /\ Len(a.types) = a.length /\ Len(a.levels) = a.length
    BY <1>2, <1>4, <2>1
  <2>3. /\ p.index = a.index /\ p.length = a.length /\ p.baseLevel = a.baseLevel
        /\ p.types = a.types /\ p.levels = a.levels
        /\ p.scripts = PopulateParagraphScripts(SubSeq(analysed.units, a.index + 1, a.index + a.length))
    BY <1>3, <2>1 DEF ParagraphLimit
  <2>4. /\ a.index \in Nat /\ a.length \in Nat \ {0} /\ a.baseLevel \in SBLevels
        /\ a.types \in [1..a.length -> BidiTypes] /\ a.levels \in [1..a.length -> SBLevels]
    BY <2>2
  <2>5. p.index = IF k = 1 THEN 0 ELSE ParagraphLimit(t.paragraphs[k - 1])
    <3>1. CASE k = 1
      BY <1>4, <2>1, <2>3, <3>1
    <3>2. CASE k # 1
      <4>1. k - 1 \in 1..n
        BY <3>2
      <4>2. ParagraphLimit(t.paragraphs[k - 1]) = ParagraphLimit(analysed.paragraphs[k - 1])
        BY <1>3, <4>1 DEF ParagraphLimit
      <4>3. QED
        BY <1>4, <2>1, <2>3, <3>2, <4>2
    <3>3. QED
      BY <3>1, <3>2
  <2>6. ParagraphLimit(p) = ParagraphLimit(a)
    BY <2>3 DEF ParagraphLimit
  <2>7. ParagraphLimit(p) <= Len(t.units) /\ (k = n => ParagraphLimit(p) = Len(t.units))
        /\ \A i \in 1..p.length : p.baseLevel <= p.levels[i]
    BY <1>3, <1>4, <2>1, <2>3, <2>6
  <2>8. DOMAIN p.scripts = 1..p.length
    <3>1. PICK s : s = SubSeq(analysed.units, a.index + 1, a.index + a.length)
      OBVIOUS
    <3>2. PICK x \in Int, y \in Int : x = a.index + 1 /\ y = a.index + a.length
      BY <2>4
    <3>3. 1 <= x /\ x <= y /\ y <= Len(analysed.units) /\ y - x + 1 = a.length
      <4>1. PICK u \in Nat, l \in Nat : u = a.index /\ l = a.length /\ l # 0
        BY <2>4
      <4>2. u + l <= Len(analysed.units)
        BY <1>4, <2>1, <4>1 DEF ParagraphLimit
      <4>3. Len(analysed.units) \in Nat
        BY <1>4
      <4>4. x = u + 1 /\ y = u + l
        BY <3>2, <4>1
      <4>5. 1 <= x /\ x <= y /\ y <= Len(analysed.units) /\ y - x + 1 = l
        BY <4>1, <4>2, <4>3, <4>4, SMTT(40)
      <4>6. QED
        BY <4>1, <4>5
    <3>4. \A i \in x..y : analysed.units[i] \in DOMAIN Codepoints
      BY <1>4, <3>3
    <3>5. s \in Seq(DOMAIN Codepoints) /\ Len(s) = a.length
      BY <3>1, <3>2, <3>3, <3>4, SubSeqProperties
    <3>6. Len(s) \in Nat /\ DOMAIN s = 1..Len(s)
      BY <3>5, LenProperties
    <3>7. QED
      BY <2>3, <3>1, <3>5, <3>6, ScriptsOfUnits
  <2>9. QED
    BY <1>3, <2>1, <2>3, <2>4, <2>5, <2>7, <2>8
<1>8. QED
  BY <1>3, <1>5, <1>6, <1>7 DEF IsCut

-----------------------------------------------------------------------------
(* What the client saw.                                                    *)

IsSeq(g) == \E S : g \in Seq(S)

LEMMA AppendSeq ==
  ASSUME NEW g, IsSeq(g), NEW e
  PROVE  /\ IsSeq(Append(g, e)) /\ Len(g) \in Nat /\ DOMAIN g = 1..Len(g)
         /\ Len(Append(g, e)) = Len(g) + 1 /\ DOMAIN Append(g, e) = 1..(Len(g) + 1)
         /\ \A k \in 1..Len(g) : Append(g, e)[k] = g[k]
         /\ Append(g, e)[Len(g) + 1] = e
<1>1. PICK S : g \in Seq(S)
  BY DEF IsSeq
<1>2. Len(g) \in Nat /\ DOMAIN g = 1..Len(g) /\ g \in [1..Len(g) -> S]
  BY <1>1, LenProperties
<1>3. PICK R : R = S \cup {e}
  OBVIOUS
<1>4. g \in [1..Len(g) -> R] /\ e \in R
  BY <1>2, <1>3
<1>5. g \in Seq(R)
  BY <1>2, <1>4
<1>6. /\ Append(g, e) \in Seq(R) /\ Len(Append(g, e)) = Len(g) + 1
      /\ \A k \in 1..Len(g) : Append(g, e)[k] = g[k]
      /\ Append(g, e)[Len(g) + 1] = e
  BY <1>4, <1>5, AppendProperties
<1>7. DOMAIN Append(g, e) = 1..(Len(g) + 1)
  BY <1>6, LenProperties
<1>8. IsSeq(Append(g, e))
  BY <1>6 DEF IsSeq
<1>9. QED
  BY <1>2, <1>6, <1>7, <1>8

LEMMA EmptyIsSeq == IsSeq(<<>>) /\ Len(<<>>) = 0 /\ DOMAIN <<>> = {}
<1>1. <<>> \in Seq({})
  OBVIOUS
<1>2. QED
  BY <1>1 DEF IsSeq

IsSeen(t, s) ==
  /\ s = [index |-> s.index, length |-> s.length, given |-> s.given, finished |-> s.finished,
          dropped |-> s.dropped]
  /\ s.index \in 0..Len(t.units) /\ s.length \in 0..SBInvalidIndex
  /\ s.finished \in BOOLEAN /\ s.dropped \in 0..MaxDropped
  /\ IsSeq(s.given)
  /\ \A k \in DOMAIN s.given : s.given[k].index \in 0..(Len(t.units) - 1)

(* A run more, or the end.                                                 *)
LEMMA SeenMore ==
  ASSUME IsSeen(text, seen), NEW run, NEW found \in BOOLEAN,
         found => run.index \in 0..(Len(text.units) - 1),
         NEW s, s = SeenWith(run, found)
  PROVE  /\ IsSeen(text, s)
         /\ s.index = seen.index /\ s.length = seen.length /\ s.dropped = seen.dropped
         /\ s.finished = ~found
         /\ ~found => s.given = seen.given
         /\ found => s.given = Append(IF seen.finished THEN <<>> ELSE seen.given, run)
<1>1. /\ seen = [index |-> seen.index, length |-> seen.length, given |-> seen.given,
                 finished |-> seen.finished, dropped |-> seen.dropped]
      /\ seen.index \in 0..Len(text.units) /\ seen.length \in 0..SBInvalidIndex
      /\ seen.finished \in BOOLEAN /\ seen.dropped \in 0..MaxDropped
      /\ IsSeq(seen.given)
      /\ \A k \in DOMAIN seen.given : seen.given[k].index \in 0..(Len(text.units) - 1)
  BY DEF IsSeen
<1>2. CASE ~found
  <2>1. s = [index |-> seen.index, length |-> seen.length, given |-> seen.given,
             finished |-> TRUE, dropped |-> seen.dropped]
    <3>1. s = [seen EXCEPT !.finished = TRUE]
      BY <1>2 DEF SeenWith
    <3>2. QED
      BY <1>1, <3>1
  <2>2. /\ s.index = seen.index /\ s.length = seen.length /\ s.given = seen.given
        /\ s.finished = TRUE /\ s.dropped = seen.dropped
    BY <2>1
  <2>3. s = [index |-> s.index, length |-> s.length, given |-> s.given, finished |-> s.finished,
             dropped |-> s.dropped]
    BY <2>1, <2>2
  <2>4. IsSeen(text, s)
    BY <1>1, <2>2, <2>3 DEF IsSeen
  <2>5. QED
    BY <1>2, <2>2, <2>4
<1>3. CASE found
  <2>1. PICK g : g = IF seen.finished THEN <<>> ELSE seen.given
    OBVIOUS
  <2>2. s = [index |-> seen.index, length |-> seen.length, given |-> Append(g, run),
             finished |-> FALSE, dropped |-> seen.dropped]
    <3>1. s = [seen EXCEPT !.given = Append(IF seen.finished THEN <<>> ELSE seen.given, run),
                           !.finished = FALSE]
      BY <1>3 DEF SeenWith
    <3>2. QED
      BY <1>1, <2>1, <3>1
  <2>3. IsSeq(g) /\ \A k \in DOMAIN g : g[k].index \in 0..(Len(text.units) - 1)
    BY <1>1, <2>1, EmptyIsSeq
  <2>4. PICK a : a = Append(g, run)
    OBVIOUS
  <2>5. /\ IsSeq(a) /\ Len(g) \in Nat /\ DOMAIN g = 1..Len(g) /\ DOMAIN a = 1..(Len(g) + 1)
        /\ \A k \in 1..Len(g) : a[k] = g[k]
        /\ a[Len(g) + 1] = run
    BY <2>3, <2>4, AppendSeq
  <2>6. ASSUME NEW k \in DOMAIN a PROVE a[k].index \in 0..(Len(text.units) - 1)
    <3>1. k \in 1..Len(g) \/ k = Len(g) + 1
      BY <2>5
    <3>2. QED
      BY <1>3, <2>3, <2>5, <3>1
  <2>7. /\ s.index = seen.index /\ s.length = seen.length /\ s.given = a
        /\ s.finished = FALSE /\ s.dropped = seen.dropped
    BY <2>2, <2>4
  <2>8. s = [index |-> s.index, length |-> s.length, given |-> s.given, finished |-> s.finished,
             dropped |-> s.dropped]
    BY <2>2, <2>4, <2>7
  <2>9. IsSeen(text, s)
    BY <1>1, <2>5, <2>6, <2>7, <2>8 DEF IsSeen
  <2>10. QED
    BY <1>3, <2>1, <2>4, <2>7, <2>9
<1>4. QED
  BY <1>2, <1>3

-----------------------------------------------------------------------------
(* The iterators.                                                          *)

(* The part of a paragraph that an iterator is in.                         *)
InPart(t, q) ==
  /\ q.paragraph + 1 \in DOMAIN t.paragraphs
  /\ StartOf(t, q.paragraph + 1) <= q.paragraphStart
  /\ q.paragraphStart < q.paragraphEnd
  /\ q.paragraphEnd <= LimitOf(t, q.paragraph + 1)

PartLength(q) == q.paragraphEnd - q.paragraphStart

(* A run iterator that is to go on in the part.                            *)
AtRun(t, it) ==
  /\ InPart(t, it.parent)
  /\ it.index \in Nat /\ it.index < PartLength(it.parent)
  /\ it.current.index + it.current.length = it.parent.paragraphStart + it.index

(* A visual run iterator that is to go on in its line.                     *)
AtVisualRun(t, it) ==
  /\ InPart(t, it.parent)
  /\ IsLineOf(it.line, t.paragraphs[it.parent.paragraph + 1], it.parent.paragraphStart,
              PartLength(it.parent))
  /\ it.index \in Nat /\ it.index + 1 \in 1..Len(it.line.runs)

IsIterator(t, it) ==
  /\ it = [kind |-> it.kind, parent |-> it.parent, index |-> it.index, current |-> it.current,
           line |-> it.line]
  /\ it.kind \in IteratorKinds
  /\ InRange(t, it.parent)
  /\ it.kind # "visual" => it.parent.forwardMode /\ it.line = NoLine
  /\ it.kind \in {"logical", "script"} => it.index = SBInvalidIndex \/ AtRun(t, it)
  /\ it.kind = "visual" => it.line = NoLine \/ AtVisualRun(t, it)

LEMMA PartFacts ==
  ASSUME NEW t, IsCut(t), NEW q, InRange(t, q), InPart(t, q)
  PROVE  /\ q.paragraph \in Nat /\ q.paragraphStart \in Nat /\ q.paragraphEnd \in Nat
         /\ PartLength(q) \in Nat \ {0} /\ q.paragraphStart + PartLength(q) = q.paragraphEnd
         /\ q.paragraphEnd <= Len(t.units) /\ Len(t.units) \in 0..SBInvalidIndex
<1>1. q.paragraph \in Nat /\ q.paragraphStart \in Nat /\ q.paragraphEnd \in Nat
  BY DEF InRange, Parents
<1>2. PICK n \in Nat : n = Len(t.units) /\ n \in 0..SBInvalidIndex
  BY DEF IsCut
<1>3. PICK k \in DOMAIN t.paragraphs : k = q.paragraph + 1
  BY DEF InPart
<1>4. LimitOf(t, k) <= n /\ LimitOf(t, k) \in Nat
  BY <1>2, <1>3, CutFacts DEF IsCut
<1>5. q.paragraphStart < q.paragraphEnd /\ q.paragraphEnd <= LimitOf(t, k)
  BY <1>3 DEF InPart
<1>6. q.paragraphEnd <= n
  BY <1>1, <1>4, <1>5
<1>7. QED
  BY <1>1, <1>2, <1>5, <1>6 DEF PartLength

(* After a step to the next paragraph the iterator is in a part.           *)
LEMMA AdvancedInPart ==
  ASSUME NEW t, IsCut(t), NEW q, InRange(t, q), q.startIndex # q.endIndex,
         NEW r, r = AdvanceTextIterator(t, q).parent
  PROVE  /\ AdvanceTextIterator(t, q).advanced
         /\ InRange(t, r) /\ InPart(t, r)
         /\ r.forwardMode = q.forwardMode
         /\ q.forwardMode => /\ r.paragraphStart = q.startIndex /\ r.startIndex = r.paragraphEnd
                             /\ r.endIndex = q.endIndex
<1>1. PICK next : next = AdvanceTextIterator(t, q)
  OBVIOUS
<1>2. next.advanced /\ r = next.parent
  BY <1>1, AdvanceInRange
<1>3. PICK k \in DOMAIN t.paragraphs :
         /\ InRange(t, r) /\ r.forwardMode = q.forwardMode
         /\ r.paragraph = q.paragraphIndex /\ k = q.paragraphIndex + 1
         /\ StartOf(t, k) <= r.paragraphStart /\ r.paragraphStart < r.paragraphEnd
         /\ r.paragraphEnd <= LimitOf(t, k)
         /\ q.forwardMode => /\ r.paragraphStart = q.startIndex /\ r.startIndex = r.paragraphEnd
                             /\ r.endIndex = q.endIndex
  BY <1>1, <1>2, AdvanceInRange
<1>4. InPart(t, r)
  BY <1>3 DEF InPart
<1>5. QED
  BY <1>1, <1>2, <1>3, <1>4

(* Where the run of one value ends.                                        *)
EndOf(vals, from, length) ==
  Min({length} \cup {k \in (from + 1)..(length - 1) : vals[k] # vals[from]})

LEMMA EndOfIs ==
  ASSUME NEW m \in Nat, NEW from \in 0..(m - 1), NEW vals
  PROVE  /\ EndOf(vals, from, m) \in (from + 1)..m
         /\ \A k \in from..(EndOf(vals, from, m) - 1) : vals[k] = vals[from]
         /\ EndOf(vals, from, m) # m => vals[EndOf(vals, from, m)] # vals[from]
<1> DEFINE S == {m} \cup {k \in (from + 1)..(m - 1) : vals[k] # vals[from]}
<1>1. S \subseteq Nat /\ S # {} /\ \A k \in S : k \in (from + 1)..m
  OBVIOUS
<1>2. EndOf(vals, from, m) = Min(S)
  BY DEF EndOf
<1>3. PICK e : e = Min(S)
  OBVIOUS
<1>4. e \in S /\ \A y \in S : e <= y
  <2> HIDE DEF S
  <2>1. QED
    BY <1>1, <1>3, MinIs
<1>5. e \in (from + 1)..m
  BY <1>1, <1>4
<1>6. ASSUME NEW k \in from..(e - 1) PROVE vals[k] = vals[from]
  <2>1. CASE k = from
    BY <2>1
  <2>2. CASE k # from
    <3>1. k \in (from + 1)..(m - 1) /\ ~(e <= k)
      BY <1>5, <2>2
    <3>2. k \notin S
      BY <1>4, <3>1
    <3>3. QED
      BY <3>1, <3>2
  <2>3. QED
    BY <2>1, <2>2
<1>7. e # m => vals[e] # vals[from]
  BY <1>4
<1>8. QED
  BY <1>2, <1>3, <1>5, <1>6, <1>7

-----------------------------------------------------------------------------
(* The logical run and the script run iterator, which differ in the values *)
(* of the units of the part.                                               *)

RunParent(t, it) ==
  IF it.index = SBInvalidIndex THEN AdvanceTextIterator(t, it.parent).parent ELSE it.parent

RunFrom(it) == IF it.index = SBInvalidIndex THEN 0 ELSE it.index

RunStart(it) ==
  IF it.index = SBInvalidIndex THEN it.parent.startIndex ELSE it.current.index + it.current.length

Values(t, kind, q) ==
  [k \in 0..(PartLength(q) - 1) |-> IF kind = "logical" THEN LevelAt(t, q, k) ELSE ScriptAt(t, q, k)]

(* The iterator with its next run: from unit `from` of the part q on, and  *)
(* up to unit `end`.                                                       *)
NextRun(it, q, from, end, vals) ==
  [kind |-> it.kind, parent |-> q, index |-> IF end = PartLength(q) THEN SBInvalidIndex ELSE end,
   current |-> [index |-> q.paragraphStart + from, length |-> end - from, value |-> vals[from]],
   line |-> it.line]

LEMMA LogicalMoveNextIs ==
  ASSUME NEW t, NEW it, it.index # SBInvalidIndex \/ AdvanceTextIterator(t, it.parent).advanced
  PROVE  LogicalMoveNext(t, it) =
           LET p == RunParent(t, it)
               f == RunFrom(it)
               e == Min({PartLength(p)} \cup {k \in (f + 1)..(PartLength(p) - 1) :
                                                LevelAt(t, p, k) # LevelAt(t, p, f)})
           IN  [iterator |-> [it EXCEPT
                 !.parent = p, !.index = IF e = PartLength(p) THEN SBInvalidIndex ELSE e,
                 !.current = [index |-> RunStart(it), length |-> e - f, value |-> LevelAt(t, p, f)]],
                found |-> TRUE]
<1>1. ~(it.index = SBInvalidIndex /\ ~AdvanceTextIterator(t, it.parent).advanced)
  OBVIOUS
<1>2. QED
  BY <1>1 DEF LogicalMoveNext, RunMoveNext, RunParent, RunFrom, RunStart, PartLength

LEMMA ScriptMoveNextIs ==
  ASSUME NEW t, NEW it, it.index # SBInvalidIndex \/ AdvanceTextIterator(t, it.parent).advanced
  PROVE  ScriptMoveNext(t, it) =
           LET p == RunParent(t, it)
               f == RunFrom(it)
               e == Min({PartLength(p)} \cup {k \in (f + 1)..(PartLength(p) - 1) :
                                                ScriptAt(t, p, k) # ScriptAt(t, p, f)})
           IN  [iterator |-> [it EXCEPT
                 !.parent = p, !.index = IF e = PartLength(p) THEN SBInvalidIndex ELSE e,
                 !.current = [index |-> RunStart(it), length |-> e - f, value |-> ScriptAt(t, p, f)]],
                found |-> TRUE]
<1>1. ~(it.index = SBInvalidIndex /\ ~AdvanceTextIterator(t, it.parent).advanced)
  OBVIOUS
<1>2. QED
  BY <1>1 DEF ScriptMoveNext, RunMoveNext, RunParent, RunFrom, RunStart, PartLength

(* One call: the end, where there is no more of the range and nothing is    *)
(* left of the part; the next maximal run of the part otherwise.           *)
IsRunMove(t, it, moved) ==
  IF it.index = SBInvalidIndex /\ it.parent.startIndex = it.parent.endIndex
  THEN moved = [iterator |-> [kind |-> it.kind, parent |-> it.parent, index |-> it.index,
                              current |-> NoRun, line |-> it.line],
                found |-> FALSE]
  ELSE \E q, from, end, vals :
         /\ q = RunParent(t, it) /\ from = RunFrom(it) /\ vals = Values(t, it.kind, q)
         /\ InRange(t, q) /\ InPart(t, q) /\ q.forwardMode
         /\ from \in 0..(PartLength(q) - 1) /\ end \in (from + 1)..PartLength(q)
         /\ RunStart(it) = q.paragraphStart + from
         /\ \A k \in from..(end - 1) : vals[k] = vals[from]
         /\ end # PartLength(q) => vals[end] # vals[from]
         /\ moved = [iterator |-> NextRun(it, q, from, end, vals), found |-> TRUE]

LEMMA RunMoves ==
  ASSUME NEW t, IsCut(t), NEW it, IsIterator(t, it), it.kind \in {"logical", "script"},
         NEW moved, moved = IF it.kind = "logical" THEN LogicalMoveNext(t, it) ELSE ScriptMoveNext(t, it)
  PROVE  IsRunMove(t, it, moved)
<1>1. /\ it = [kind |-> it.kind, parent |-> it.parent, index |-> it.index, current |-> it.current,
               line |-> it.line]
      /\ InRange(t, it.parent) /\ it.parent.forwardMode
      /\ it.index = SBInvalidIndex \/ AtRun(t, it)
  BY DEF IsIterator
<1>2. CASE it.index = SBInvalidIndex /\ it.parent.startIndex = it.parent.endIndex
  <2>1. ~AdvanceTextIterator(t, it.parent).advanced
    BY <1>1, <1>2, AdvanceInRange
  <2>2. moved = [iterator |-> [it EXCEPT !.current = NoRun], found |-> FALSE]
    <3>1. CASE it.kind = "logical"
      BY <1>2, <2>1, <3>1 DEF LogicalMoveNext, RunMoveNext
    <3>2. CASE it.kind = "script"
      BY <1>2, <2>1, <3>2 DEF ScriptMoveNext, RunMoveNext
    <3>3. QED
      BY <3>1, <3>2
  <2>3. [it EXCEPT !.current = NoRun] =
          [kind |-> it.kind, parent |-> it.parent, index |-> it.index, current |-> NoRun, line |-> it.line]
    BY <1>1
  <2>4. QED
    BY <1>2, <2>2, <2>3 DEF IsRunMove
<1>3. CASE ~(it.index = SBInvalidIndex /\ it.parent.startIndex = it.parent.endIndex)
  <2>1. PICK q, from : q = RunParent(t, it) /\ from = RunFrom(it)
    OBVIOUS
  <2>2. /\ it.index # SBInvalidIndex \/ AdvanceTextIterator(t, it.parent).advanced
        /\ InRange(t, q) /\ InPart(t, q) /\ q.forwardMode
        /\ from \in 0..(PartLength(q) - 1) /\ RunStart(it) = q.paragraphStart + from
    <3>1. CASE it.index = SBInvalidIndex
      <4>1. q = AdvanceTextIterator(t, it.parent).parent /\ from = 0 /\ RunStart(it) = it.parent.startIndex
        BY <2>1, <3>1 DEF RunParent, RunFrom, RunStart
      <4>2. /\ AdvanceTextIterator(t, it.parent).advanced
            /\ InRange(t, q) /\ InPart(t, q) /\ q.forwardMode /\ q.paragraphStart = it.parent.startIndex
        BY <1>1, <1>3, <3>1, <4>1, AdvancedInPart
      <4>3. PartLength(q) \in Nat \ {0} /\ q.paragraphStart \in Nat
        BY <4>2, PartFacts
      <4>4. QED
        BY <4>1, <4>2, <4>3
    <3>2. CASE it.index # SBInvalidIndex
      <4>1. q = it.parent /\ from = it.index /\ RunStart(it) = it.current.index + it.current.length
        BY <2>1, <3>2 DEF RunParent, RunFrom, RunStart
      <4>2. /\ InPart(t, q) /\ from \in Nat /\ from < PartLength(q)
            /\ RunStart(it) = q.paragraphStart + from
        BY <1>1, <3>2, <4>1 DEF AtRun
      <4>3. PartLength(q) \in Nat \ {0}
        BY <1>1, <4>1, <4>2, PartFacts
      <4>4. QED
        BY <1>1, <3>2, <4>1, <4>2, <4>3
    <3>3. QED
      BY <3>1, <3>2
  <2>3. PICK m \in Nat : m = PartLength(q) /\ m # 0
    BY <2>2, PartFacts
  <2>4. PICK vals : vals = Values(t, it.kind, q)
    OBVIOUS
  <2>5. PICK end : end = EndOf(vals, from, m)
    OBVIOUS
  <2>6. /\ end \in (from + 1)..m
        /\ \A k \in from..(end - 1) : vals[k] = vals[from]
        /\ end # m => vals[end] # vals[from]
    <3>1. from \in 0..(m - 1)
      BY <2>2, <2>3
    <3>2. QED
      BY <2>3, <2>5, <3>1, EndOfIs, SMTT(40)
  <2>7. moved = [iterator |-> [it EXCEPT
                   !.parent = q, !.index = IF end = m THEN SBInvalidIndex ELSE end,
                   !.current = [index |-> RunStart(it), length |-> end - from, value |-> vals[from]]],
                 found |-> TRUE]
    <3>0. from \in 0..(m - 1) /\ \A k \in (from + 1)..(m - 1) : k \in 0..(m - 1)
      BY <2>2, <2>3
    <3>1. CASE it.kind = "logical"
      <4>1. \A k \in 0..(m - 1) : vals[k] = LevelAt(t, q, k)
        BY <2>3, <2>4, <3>1 DEF Values
      <4>2. {k \in (from + 1)..(m - 1) : vals[k] # vals[from]} =
            {k \in (from + 1)..(m - 1) : LevelAt(t, q, k) # LevelAt(t, q, from)}
        BY <3>0, <4>1
      <4>3. end = Min({PartLength(q)} \cup {k \in (from + 1)..(PartLength(q) - 1) :
                                                    LevelAt(t, q, k) # LevelAt(t, q, from)})
        BY <2>3, <2>5, <4>2 DEF EndOf
      <4>4. LogicalMoveNext(t, it) =
           LET p == RunParent(t, it)
               f == RunFrom(it)
               e == Min({PartLength(p)} \cup {k \in (f + 1)..(PartLength(p) - 1) :
                                                LevelAt(t, p, k) # LevelAt(t, p, f)})
           IN  [iterator |-> [it EXCEPT
                 !.parent = p, !.index = IF e = PartLength(p) THEN SBInvalidIndex ELSE e,
                 !.current = [index |-> RunStart(it), length |-> e - f, value |-> LevelAt(t, p, f)]],
                found |-> TRUE]
        BY <2>2, LogicalMoveNextIs, ZenonT(60)
      <4>6. LogicalMoveNext(t, it) =
           [iterator |-> [it EXCEPT
              !.parent = q, !.index = IF end = PartLength(q) THEN SBInvalidIndex ELSE end,
              !.current = [index |-> RunStart(it), length |-> end - from, value |-> LevelAt(t, q, from)]],
            found |-> TRUE]
        BY <2>1, <4>3, <4>4
      <4>5. vals[from] = LevelAt(t, q, from)
        BY <3>0, <4>1
      <4>7. QED
        BY <2>3, <3>1, <4>6, <4>5
    <3>2. CASE it.kind = "script"
      <4>1. \A k \in 0..(m - 1) : vals[k] = ScriptAt(t, q, k)
        BY <2>3, <2>4, <3>2 DEF Values
      <4>2. {k \in (from + 1)..(m - 1) : vals[k] # vals[from]} =
            {k \in (from + 1)..(m - 1) : ScriptAt(t, q, k) # ScriptAt(t, q, from)}
        BY <3>0, <4>1
      <4>3. end = Min({PartLength(q)} \cup {k \in (from + 1)..(PartLength(q) - 1) :
                                                    ScriptAt(t, q, k) # ScriptAt(t, q, from)})
        BY <2>3, <2>5, <4>2 DEF EndOf
      <4>4. ScriptMoveNext(t, it) =
           LET p == RunParent(t, it)
               f == RunFrom(it)
               e == Min({PartLength(p)} \cup {k \in (f + 1)..(PartLength(p) - 1) :
                                                ScriptAt(t, p, k) # ScriptAt(t, p, f)})
           IN  [iterator |-> [it EXCEPT
                 !.parent = p, !.index = IF e = PartLength(p) THEN SBInvalidIndex ELSE e,
                 !.current = [index |-> RunStart(it), length |-> e - f, value |-> ScriptAt(t, p, f)]],
                found |-> TRUE]
        BY <2>2, ScriptMoveNextIs, ZenonT(60)
      <4>6. ScriptMoveNext(t, it) =
           [iterator |-> [it EXCEPT
              !.parent = q, !.index = IF end = PartLength(q) THEN SBInvalidIndex ELSE end,
              !.current = [index |-> RunStart(it), length |-> end - from, value |-> ScriptAt(t, q, from)]],
            found |-> TRUE]
        BY <2>1, <4>3, <4>4
      <4>5. vals[from] = ScriptAt(t, q, from)
        BY <3>0, <4>1
      <4>7. QED
        BY <2>3, <3>2, <4>6, <4>5
    <3>3. QED
      BY <3>1, <3>2
  <2>8. PICK i, c : /\ i = IF end = m THEN SBInvalidIndex ELSE end
                    /\ c = [index |-> RunStart(it), length |-> end - from, value |-> vals[from]]
    OBVIOUS
  <2>9. [it EXCEPT !.parent = q, !.index = i, !.current = c] =
          [kind |-> it.kind, parent |-> q, index |-> i, current |-> c, line |-> it.line]
    <3>1. DOMAIN it = {"kind", "parent", "index", "current", "line"}
      BY <1>1
    <3>2. [it EXCEPT !.parent = q, !.index = i, !.current = c] =
            [x \in {"kind", "parent", "index", "current", "line"} |->
               IF x = "parent" THEN q ELSE IF x = "index" THEN i ELSE IF x = "current" THEN c ELSE it[x]]
      BY <3>1, Zenon
    <3>3. QED
      BY <3>2
  <2>10. moved = [iterator |-> NextRun(it, q, from, end, vals), found |-> TRUE]
    <3>1. moved = [iterator |-> [it EXCEPT !.parent = q, !.index = i, !.current = c], found |-> TRUE]
      BY <2>7, <2>8, Zenon
    <3>2. i = (IF end = PartLength(q) THEN SBInvalidIndex ELSE end)
      BY <2>3, <2>8, Zenon
    <3>3. c = [index |-> q.paragraphStart + from, length |-> end - from, value |-> vals[from]]
      BY <2>2, <2>8, Zenon
    <3>4. NextRun(it, q, from, end, vals) =
            [kind |-> it.kind, parent |-> q, index |-> i, current |-> c, line |-> it.line]
      BY <3>2, <3>3, Zenon DEF NextRun
    <3>5. [it EXCEPT !.parent = q, !.index = i, !.current = c] = NextRun(it, q, from, end, vals)
      BY <2>9, <3>4
    <3>6. QED
      BY <3>1, <3>5
  <2>11. /\ q = RunParent(t, it) /\ from = RunFrom(it) /\ vals = Values(t, it.kind, q)
         /\ InRange(t, q) /\ InPart(t, q) /\ q.forwardMode
         /\ RunStart(it) = q.paragraphStart + from
         /\ \A k \in from..(end - 1) : vals[k] = vals[from]
    BY <2>1, <2>2, <2>4, <2>6, Zenon
  <2>12. /\ from \in 0..(PartLength(q) - 1) /\ end \in (from + 1)..PartLength(q)
         /\ end # PartLength(q) => vals[end] # vals[from]
    BY <2>2, <2>3, <2>6
  <2>13. QED
    BY <1>3, <2>10, <2>11, <2>12, ZenonT(60) DEF IsRunMove
<1>4. QED
  BY <1>2, <1>3

(* One call of a paragraph iterator: the part of the next paragraph.       *)
IsParagraphMove(t, it, moved) ==
  IF it.parent.startIndex = it.parent.endIndex
  THEN moved = [iterator |-> it, found |-> FALSE]
  ELSE \E q : /\ q = AdvanceTextIterator(t, it.parent).parent
              /\ InRange(t, q) /\ InPart(t, q) /\ q.forwardMode
              /\ q.paragraphStart = it.parent.startIndex
              /\ moved = [iterator |-> [kind |-> it.kind, parent |-> q, index |-> it.index,
                            current |-> [index |-> q.paragraphStart, length |-> PartLength(q),
                                         baseLevel |-> t.paragraphs[q.paragraph + 1].baseLevel],
                            line |-> it.line],
                          found |-> TRUE]

LEMMA ParagraphMoves ==
  ASSUME NEW t, IsCut(t), NEW it, IsIterator(t, it), it.kind = "paragraph",
         NEW moved, moved = ParagraphMoveNext(t, it)
  PROVE  IsParagraphMove(t, it, moved)
<1>1. /\ it = [kind |-> it.kind, parent |-> it.parent, index |-> it.index, current |-> it.current,
               line |-> it.line]
      /\ InRange(t, it.parent) /\ it.parent.forwardMode
  BY DEF IsIterator
<1>2. CASE it.parent.startIndex = it.parent.endIndex
  <2>1. ~AdvanceTextIterator(t, it.parent).advanced
    BY <1>1, <1>2, AdvanceInRange
  <2>2. QED
    BY <1>2, <2>1 DEF ParagraphMoveNext, IsParagraphMove
<1>3. CASE it.parent.startIndex # it.parent.endIndex
  <2>1. PICK q : q = AdvanceTextIterator(t, it.parent).parent
    OBVIOUS
  <2>2. /\ AdvanceTextIterator(t, it.parent).advanced
        /\ InRange(t, q) /\ InPart(t, q) /\ q.forwardMode /\ q.paragraphStart = it.parent.startIndex
    BY <1>1, <1>3, <2>1, AdvancedInPart
  <2>3. PICK c : c = [index |-> q.paragraphStart, length |-> PartLength(q),
                      baseLevel |-> t.paragraphs[q.paragraph + 1].baseLevel]
    OBVIOUS
  <2>4. moved = [iterator |-> [it EXCEPT !.parent = q, !.current = c], found |-> TRUE]
    BY <2>1, <2>2, <2>3 DEF ParagraphMoveNext, PartLength, CurrentParagraph
  <2>5. [it EXCEPT !.parent = q, !.current = c] =
          [kind |-> it.kind, parent |-> q, index |-> it.index, current |-> c, line |-> it.line]
    <3>1. DOMAIN it = {"kind", "parent", "index", "current", "line"}
      BY <1>1
    <3>2. [it EXCEPT !.parent = q, !.current = c] =
            [x \in {"kind", "parent", "index", "current", "line"} |->
               IF x = "parent" THEN q ELSE IF x = "current" THEN c ELSE it[x]]
      BY <3>1, Zenon
    <3>3. QED
      BY <3>2
  <2>6. moved = [iterator |-> [kind |-> it.kind, parent |-> q, index |-> it.index,
                               current |-> [index |-> q.paragraphStart, length |-> PartLength(q),
                                            baseLevel |-> t.paragraphs[q.paragraph + 1].baseLevel],
                               line |-> it.line],
                 found |-> TRUE]
    BY <2>3, <2>4, <2>5
  <2>7. QED
    BY <1>3, <2>1, <2>2, <2>6 DEF IsParagraphMove
<1>4. QED
  BY <1>2, <1>3

(* A visual run iterator that is given the run k of a line of the part q.  *)
AtRunOf(it, q, line, k) ==
  [kind |-> "visual", parent |-> q, index |-> k + 1,
   current |-> [index |-> line.runs[k + 1].offset, length |-> line.runs[k + 1].length,
                value |-> line.runs[k + 1].level],
   line |-> IF k + 1 = Len(line.runs) THEN NoLine ELSE line]

LEMMA VisualRunIs ==
  ASSUME NEW it, NEW parent, NEW index, NEW current, NEW held,
         it = [kind |-> "visual", parent |-> parent, index |-> index, current |-> current, line |-> held],
         NEW q, NEW line, NEW k, NEW n
  PROVE  VisualRun(it, q, line, k, n) =
           [iterator |-> AtRunOf(it, q, line, k), found |-> TRUE,
            lines |-> IF k + 1 = Len(line.runs) THEN n - 1 ELSE n]
<1>1. PICK c, l, i : /\ c = [index |-> line.runs[k + 1].offset, length |-> line.runs[k + 1].length,
                             value |-> line.runs[k + 1].level]
                     /\ l = IF k + 1 = Len(line.runs) THEN NoLine ELSE line
                     /\ i = k + 1
  OBVIOUS
<1>2. VisualRun(it, q, line, k, n) =
        [iterator |-> [it EXCEPT !.parent = q, !.index = i, !.line = l, !.current = c], found |-> TRUE,
         lines |-> IF k + 1 = Len(line.runs) THEN n - 1 ELSE n]
  BY <1>1 DEF VisualRun
<1>3. [it EXCEPT !.parent = q, !.index = i, !.line = l, !.current = c] =
        [kind |-> "visual", parent |-> q, index |-> i, current |-> c, line |-> l]
  <2>1. DOMAIN it = {"kind", "parent", "index", "current", "line"} /\ it["kind"] = "visual"
    OBVIOUS
  <2>2. [it EXCEPT !.parent = q, !.index = i, !.line = l, !.current = c] =
          [x \in {"kind", "parent", "index", "current", "line"} |->
             IF x = "parent" THEN q ELSE IF x = "index" THEN i ELSE IF x = "line" THEN l
             ELSE IF x = "current" THEN c ELSE it[x]]
    BY <2>1, Zenon
  <2>3. QED
    BY <2>1, <2>2
<1>4. QED
  BY <1>1, <1>2, <1>3 DEF AtRunOf

(* One call of a visual run iterator. The lines that are alive become as   *)
(* many more or less as the iterator holds.                                *)
IsVisualMove(t, it, n, moved) ==
  IF it.line = NoLine /\ it.parent.startIndex = it.parent.endIndex
  THEN moved = [iterator |-> [kind |-> "visual", parent |-> it.parent, index |-> it.index,
                              current |-> NoRun, line |-> NoLine],
                found |-> FALSE, lines |-> n]
  ELSE \E q, line, k, alive :
         /\ q = IF it.line = NoLine THEN AdvanceTextIterator(t, it.parent).parent ELSE it.parent
         /\ k = IF it.line = NoLine THEN 0 ELSE it.index
         /\ it.line # NoLine => line = it.line
         /\ InRange(t, q) /\ InPart(t, q)
         /\ IsLineOf(line, t.paragraphs[q.paragraph + 1], q.paragraphStart, PartLength(q))
         /\ k \in Nat /\ k + 1 \in 1..Len(line.runs)
         /\ alive = (IF it.line = NoLine THEN n + 1 ELSE n)
                      - (IF k + 1 = Len(line.runs) THEN 1 ELSE 0)
         /\ moved = [iterator |-> AtRunOf(it, q, line, k), found |-> TRUE, lines |-> alive]

LEMMA LineIsThere ==
  ASSUME NEW line, NEW p, NEW offset, NEW length, IsLineOf(line, p, offset, length)
  PROVE  line # NoLine /\ Len(line.runs) \in Nat \ {0} /\ Len(line.runs) \in 1..line.capacity
<1>1. Len(line.runs) \in 1..line.capacity /\ line.runs \in Seq(Run)
  BY DEF IsLineOf, IsLine
<1>2. Len(line.runs) \in Nat
  BY <1>1
<1>3. Len(line.runs) \in Nat \ {0}
  BY <1>1, <1>2
<1>4. Len(NoLine.runs) = 0
  BY DEF NoLine
<1>5. QED
  BY <1>1, <1>3, <1>4

LEMMA VisualMoves ==
  ASSUME NEW t, IsCut(t), NEW it, IsIterator(t, it), it.kind = "visual", NEW n \in Nat,
         NEW moved, moved = VisualMoveNext(t, it, n)
  PROVE  IsVisualMove(t, it, n, moved)
<1>1. /\ it = [kind |-> it.kind, parent |-> it.parent, index |-> it.index, current |-> it.current,
               line |-> it.line]
      /\ InRange(t, it.parent)
      /\ it.line = NoLine \/ AtVisualRun(t, it)
  BY DEF IsIterator
<1>2. CASE it.line # NoLine
  <2>1. PICK q, line, k : q = it.parent /\ line = it.line /\ k = it.index
    OBVIOUS
  <2>2. /\ InPart(t, q)
        /\ IsLineOf(line, t.paragraphs[q.paragraph + 1], q.paragraphStart, PartLength(q))
        /\ k \in Nat /\ k + 1 \in 1..Len(line.runs)
    BY <1>1, <1>2, <2>1 DEF AtVisualRun
  <2>3. moved = VisualRun(it, q, line, k, n)
    BY <1>2, <2>1 DEF VisualMoveNext
  <2>4. moved = [iterator |-> AtRunOf(it, q, line, k), found |-> TRUE,
                 lines |-> IF k + 1 = Len(line.runs) THEN n - 1 ELSE n]
    BY <1>1, <2>3, VisualRunIs
  <2>5. PICK alive : alive = IF k + 1 = Len(line.runs) THEN n - 1 ELSE n
    OBVIOUS
  <2>6. alive = n - (IF k + 1 = Len(line.runs) THEN 1 ELSE 0)
    BY <2>5
  <2>7. QED
    BY <1>1, <1>2, <2>1, <2>2, <2>4, <2>5, <2>6 DEF IsVisualMove
<1>3. CASE it.line = NoLine /\ it.parent.startIndex = it.parent.endIndex
  <2>1. ~AdvanceTextIterator(t, it.parent).advanced
    BY <1>1, <1>3, AdvanceInRange
  <2>2. moved = [iterator |-> [it EXCEPT !.current = NoRun], found |-> FALSE, lines |-> n]
    BY <1>3, <2>1 DEF VisualMoveNext, FirstVisualRun
  <2>3. [it EXCEPT !.current = NoRun] =
          [kind |-> "visual", parent |-> it.parent, index |-> it.index, current |-> NoRun, line |-> NoLine]
    BY <1>1, <1>3
  <2>4. QED
    BY <1>3, <2>2, <2>3 DEF IsVisualMove
<1>4. CASE it.line = NoLine /\ it.parent.startIndex # it.parent.endIndex
  <2>1. PICK q : q = AdvanceTextIterator(t, it.parent).parent
    OBVIOUS
  <2>2. AdvanceTextIterator(t, it.parent).advanced /\ InRange(t, q) /\ InPart(t, q)
    BY <1>1, <1>4, <2>1, AdvancedInPart
  <2>3. PICK p, start, l : p = t.paragraphs[q.paragraph + 1] /\ start = q.paragraphStart /\ l = PartLength(q)
    OBVIOUS
  <2>4. PICK line : line = SBParagraphCreateLine(p, start, l)
    OBVIOUS
  <2>5. start \in Nat /\ l \in Nat \ {0} /\ start + l = q.paragraphEnd
    BY <2>2, <2>3, PartFacts
  <2>6. line # NoLine /\ IsLineOf(line, p, start, l)
    <3>1. PICK k \in DOMAIN t.paragraphs : k = q.paragraph + 1
      BY <2>2 DEF InPart
    <3>2. p = t.paragraphs[k] /\ StartOf(t, k) <= start /\ start + l <= LimitOf(t, k)
      BY <2>2, <2>3, <2>5, <3>1 DEF InPart
    <3>3. QED
      BY <2>4, <2>5, <3>2, CreatedLine
  <2>7. PICK k \in Nat, m \in Nat : k = 0 /\ m = n + 1
    OBVIOUS
  <2>8. moved = VisualRun(it, q, line, k, m)
    BY <1>4, <2>1, <2>2, <2>3, <2>4, <2>7 DEF VisualMoveNext, FirstVisualRun, CurrentParagraph, PartLength
  <2>9. moved = [iterator |-> AtRunOf(it, q, line, k), found |-> TRUE,
                 lines |-> IF k + 1 = Len(line.runs) THEN m - 1 ELSE m]
    BY <1>1, <2>8, VisualRunIs
  <2>10. PICK alive : alive = IF k + 1 = Len(line.runs) THEN m - 1 ELSE m
    OBVIOUS
  <2>11. alive = m - (IF k + 1 = Len(line.runs) THEN 1 ELSE 0)
    BY <2>10
  <2>12. k + 1 \in 1..Len(line.runs)
    BY <2>6, <2>7, LineIsThere
  <2>13. IsLineOf(line, t.paragraphs[q.paragraph + 1], q.paragraphStart, PartLength(q))
    BY <2>3, <2>6
  <2>14. alive = (IF it.line = NoLine THEN n + 1 ELSE n) - (IF k + 1 = Len(line.runs) THEN 1 ELSE 0)
    BY <1>4, <2>7, <2>11
  <2>15. moved = [iterator |-> AtRunOf(it, q, line, k), found |-> TRUE, lines |-> alive]
    BY <2>9, <2>10
  <2>16. QED
    BY <1>4, <2>1, <2>2, <2>7, <2>12, <2>13, <2>14, <2>15 DEF IsVisualMove
<1>5. QED
  BY <1>2, <1>3, <1>4

-----------------------------------------------------------------------------
(* The mirror locator.                                                     *)

IsMirror(t, r) ==
  /\ r = [kind |-> "mirror", line |-> r.line, runIndex |-> r.runIndex, stringIndex |-> r.stringIndex,
          agent |-> r.agent]
  /\ r.runIndex \in Nat /\ r.stringIndex \in Nat
  /\ r.line # NoLine =>
        /\ r.runIndex + 1 \in 1..Len(r.line.runs)
        /\ \E k \in DOMAIN t.paragraphs, offset \in Nat, length \in Nat \ {0} :
              /\ StartOf(t, k) <= offset /\ offset + length <= LimitOf(t, k)
              /\ IsLineOf(r.line, t.paragraphs[k], offset, length)

LEMMA MirrorLineInside ==
  ASSUME NEW t, IsCut(t), NEW r, IsMirror(t, r), r.line # NoLine, NEW i \in 1..Len(r.line.runs)
  PROVE  /\ r.line.runs[i].offset \in Nat /\ r.line.runs[i].length \in Nat \ {0}
         /\ r.line.runs[i].level \in SBLevels
         /\ r.line.runs[i].offset + r.line.runs[i].length <= Len(t.units)
<1>1. PICK k \in DOMAIN t.paragraphs, offset \in Nat, length \in Nat \ {0} :
              /\ StartOf(t, k) <= offset /\ offset + length <= LimitOf(t, k)
              /\ IsLineOf(r.line, t.paragraphs[k], offset, length)
  BY DEF IsMirror
<1>2. PICK types, levels, base, lv, rs, pos : IsLine(r.line, types, levels, offset, base, length, lv, rs, pos)
  BY <1>1 DEF IsLineOf
<1>3. /\ r.line.runs[i].offset \in Nat /\ r.line.runs[i].length \in Nat \ {0}
      /\ r.line.runs[i].level \in SBLevels
      /\ r.line.runs[i].offset + r.line.runs[i].length <= offset + length
  BY <1>2, LineInside
<1>4. PICK o \in Nat, l \in Nat, n \in Nat : o = r.line.runs[i].offset /\ l = r.line.runs[i].length
                                             /\ n = Len(t.units)
  BY <1>3, SMTT(40) DEF IsCut
<1>5. LimitOf(t, k) <= n /\ LimitOf(t, k) \in Nat
  BY <1>4, CutFacts DEF IsCut
<1>6. o + l <= n
  <2>1. PICK x \in Nat : x = LimitOf(t, k) /\ x <= n
    BY <1>5
  <2>2. o + l <= offset + length /\ offset + length <= x
    BY <1>1, <1>3, <1>4, <2>1
  <2>3. QED
    BY <2>1, <2>2
<1>7. QED
  BY <1>3, <1>4, <1>6

(* Where the search goes on in run k, and what it finds there.             *)
SearchFrom(r, k) ==
  IF k = r.runIndex /\ r.stringIndex # SBInvalidIndex THEN r.stringIndex ELSE r.line.runs[k + 1].offset

MirroredIn(r, units, k) ==
  {i \in SearchFrom(r, k)..(r.line.runs[k + 1].offset + r.line.runs[k + 1].length - 1) :
     IsOdd(r.line.runs[k + 1].level) /\ LookupMirror(units[i + 1]) # NoMirror}

(* One call: the first mirrored code point of the first run that has one.  *)
IsMirrorMove(t, r, moved) ==
  IF r.line = NoLine THEN moved = [locator |-> r, found |-> FALSE]
  ELSE IF \A k \in r.runIndex..(Len(r.line.runs) - 1) : MirroredIn(r, t.units, k) = {}
  THEN moved = [locator |-> [kind |-> "mirror", line |-> r.line, runIndex |-> 0,
                             stringIndex |-> SBInvalidIndex, agent |-> NoMirrorAgent],
                found |-> FALSE]
  ELSE \E run, index :
         /\ run \in r.runIndex..(Len(r.line.runs) - 1) /\ run \in Nat
         /\ \A k \in r.runIndex..(run - 1) : MirroredIn(r, t.units, k) = {}
         /\ index \in MirroredIn(r, t.units, run)
         /\ \A i \in MirroredIn(r, t.units, run) : index <= i
         /\ index \in 0..(Len(t.units) - 1)
         /\ NextIndex(t.units, index) \in Nat
         /\ moved = [locator |-> [kind |-> "mirror", line |-> r.line, runIndex |-> run,
                                  stringIndex |-> NextIndex(t.units, index),
                                  agent |-> [index |-> index, codepoint |-> t.units[index + 1],
                                             mirror |-> LookupMirror(t.units[index + 1])]],
                     found |-> TRUE]

Candidates(r, units) == {k \in r.runIndex..(Len(r.line.runs) - 1) : MirroredIn(r, units, k) # {}}

LEMMA MirrorMoveNextIs ==
  ASSUME NEW r, NEW units
  PROVE  SBMirrorLocatorMoveNext(r, units) =
           IF r.line = NoLine THEN [locator |-> r, found |-> FALSE]
           ELSE IF Candidates(r, units) = {}
           THEN [locator |-> SBMirrorLocatorReset(r), found |-> FALSE]
           ELSE [locator |-> [r EXCEPT
                   !.runIndex = Min(Candidates(r, units)),
                   !.stringIndex = NextIndex(units, Min(MirroredIn(r, units, Min(Candidates(r, units))))),
                   !.agent = [index |-> Min(MirroredIn(r, units, Min(Candidates(r, units)))),
                              codepoint |->
                                units[Min(MirroredIn(r, units, Min(Candidates(r, units)))) + 1],
                              mirror |-> LookupMirror(
                                units[Min(MirroredIn(r, units, Min(Candidates(r, units)))) + 1])]],
                 found |-> TRUE]
  BY DEF SBMirrorLocatorMoveNext, MirroredIn, SearchFrom, Candidates

LEMMA MirrorMoves ==
  ASSUME NEW t, IsCut(t), NEW r, IsMirror(t, r),
         NEW moved, moved = SBMirrorLocatorMoveNext(r, t.units)
  PROVE  IsMirrorMove(t, r, moved)
<1>1. /\ r = [kind |-> "mirror", line |-> r.line, runIndex |-> r.runIndex, stringIndex |-> r.stringIndex,
              agent |-> r.agent]
      /\ r.runIndex \in Nat /\ r.stringIndex \in Nat
      /\ r.line # NoLine => r.runIndex + 1 \in 1..Len(r.line.runs)
  BY DEF IsMirror
<1>2. CASE r.line = NoLine
  BY <1>2 DEF SBMirrorLocatorMoveNext, IsMirrorMove
<1>3. CASE r.line # NoLine
  <2> DEFINE M(k) == MirroredIn(r, t.units, k)
             candidates == {k \in r.runIndex..(Len(r.line.runs) - 1) : M(k) # {}}
  <2>1. PICK m \in Nat, n \in Nat : m = Len(r.line.runs) /\ n = Len(t.units)
    <3>1. Len(r.line.runs) \in Nat
      BY <1>3, LineIsThere DEF IsMirror
    <3>2. QED
      BY <3>1 DEF IsCut
  <2>2. ASSUME NEW k \in r.runIndex..(m - 1)
        PROVE  M(k) \subseteq 0..(n - 1) /\ M(k) \subseteq Nat
    <3>1. k + 1 \in 1..Len(r.line.runs)
      BY <1>1, <2>1
    <3>2. PICK o \in Nat, l \in Nat : /\ o = r.line.runs[k + 1].offset /\ l = r.line.runs[k + 1].length
                                      /\ o + l <= n
      BY <1>3, <2>1, <3>1, MirrorLineInside
    <3>3. PICK f \in Nat : f = SearchFrom(r, k)
      BY <1>1, <3>2 DEF SearchFrom
    <3>4. M(k) \subseteq f..(o + l - 1)
      BY <3>2, <3>3 DEF MirroredIn
    <3>5. f..(o + l - 1) \subseteq 0..(n - 1)
      BY <3>2, <3>3
    <3>6. QED
      BY <3>4, <3>5
  <2>3. PICK C : C = Candidates(r, t.units) /\ C = candidates
    BY DEF Candidates
  <2>4. DOMAIN r = {"kind", "line", "runIndex", "stringIndex", "agent"} /\ r["kind"] = "mirror"
    BY <1>1
  <2>5. ASSUME NEW x, NEW y, NEW z
        PROVE  [r EXCEPT !.runIndex = x, !.stringIndex = y, !.agent = z] =
                 [kind |-> "mirror", line |-> r.line, runIndex |-> x, stringIndex |-> y, agent |-> z]
    <3>1. [r EXCEPT !.runIndex = x, !.stringIndex = y, !.agent = z] =
            [f \in {"kind", "line", "runIndex", "stringIndex", "agent"} |->
               IF f = "runIndex" THEN x ELSE IF f = "stringIndex" THEN y ELSE IF f = "agent" THEN z ELSE r[f]]
      BY <2>4, Zenon
    <3>2. QED
      BY <2>4, <3>1
  <2>6. CASE candidates = {}
    <3>1. moved = [locator |-> SBMirrorLocatorReset(r), found |-> FALSE]
      BY <1>3, <2>3, <2>6, MirrorMoveNextIs
    <3>2. SBMirrorLocatorReset(r) =
            [kind |-> "mirror", line |-> r.line, runIndex |-> 0, stringIndex |-> SBInvalidIndex,
             agent |-> NoMirrorAgent]
      BY <2>5 DEF SBMirrorLocatorReset
    <3>3. \A k \in r.runIndex..(Len(r.line.runs) - 1) : MirroredIn(r, t.units, k) = {}
      BY <2>6
    <3>4. QED
      BY <1>3, <3>1, <3>2, <3>3 DEF IsMirrorMove
  <2>7. CASE candidates # {}
    <3>1. PICK run : run = Min(candidates)
      OBVIOUS
    <3>2. run \in candidates /\ run \in Nat /\ \A k \in candidates : run <= k
      <4>1. candidates \subseteq Nat
        BY <1>1, <2>1
      <4> HIDE DEF candidates
      <4>2. QED
        BY <2>7, <3>1, <4>1, MinIs
    <3>3. run \in r.runIndex..(m - 1) /\ M(run) # {}
      BY <2>1, <3>2
    <3>4. \A k \in r.runIndex..(run - 1) : M(k) = {}
      <4>1. ASSUME NEW k \in r.runIndex..(run - 1), M(k) # {} PROVE FALSE
        <5>1. k \in r.runIndex..(Len(r.line.runs) - 1) /\ ~(run <= k)
          BY <1>1, <2>1, <3>2, <3>3, <4>1
        <5>2. k \in candidates
          BY <4>1, <5>1
        <5>3. QED
          BY <3>2, <5>1, <5>2
      <4>2. QED
        BY <4>1
    <3>5. PICK S : S = M(run)
      OBVIOUS
    <3>6. PICK index : index = Min(S)
      OBVIOUS
    <3>7. index \in S /\ index \in 0..(n - 1) /\ index \in Nat /\ \A i \in S : index <= i
      <4>1. S \subseteq Nat /\ S # {} /\ S \subseteq 0..(n - 1)
        BY <2>2, <3>3, <3>5
      <4>2. QED
        BY <3>6, <4>1, MinIs
    <3>8. NextIndex(t.units, index) \in Nat
      BY <3>7 DEF NextIndex
    <3>9. moved = [locator |-> [r EXCEPT !.runIndex = run, !.stringIndex = NextIndex(t.units, index),
                                         !.agent = [index |-> index, codepoint |-> t.units[index + 1],
                                                    mirror |-> LookupMirror(t.units[index + 1])]],
                   found |-> TRUE]
      <4> HIDE DEF candidates, M
      <4>1. QED
        <5>1. run = Min(Candidates(r, t.units)) /\ Candidates(r, t.units) # {}
          BY <2>3, <2>7, <3>1
        <5>2. index = Min(MirroredIn(r, t.units, run))
          BY <3>5, <3>6 DEF M
        <5>3. QED
          BY <1>3, <5>1, <5>2, MirrorMoveNextIs
    <3>10. moved = [locator |-> [kind |-> "mirror", line |-> r.line, runIndex |-> run,
                                  stringIndex |-> NextIndex(t.units, index),
                                  agent |-> [index |-> index, codepoint |-> t.units[index + 1],
                                             mirror |-> LookupMirror(t.units[index + 1])]],
                     found |-> TRUE]
      <4> HIDE DEF candidates, M
      <4>1. QED
        BY <2>5, <3>9
    <3>11. ~ \A k \in r.runIndex..(Len(r.line.runs) - 1) : MirroredIn(r, t.units, k) = {}
      BY <2>1, <3>3
    <3>12. QED
      <4>1. /\ run \in r.runIndex..(Len(r.line.runs) - 1)
            /\ \A k \in r.runIndex..(run - 1) : MirroredIn(r, t.units, k) = {}
            /\ index \in MirroredIn(r, t.units, run)
            /\ \A i \in MirroredIn(r, t.units, run) : index <= i
            /\ index \in 0..(Len(t.units) - 1)
        BY <2>1, <3>3, <3>4, <3>5, <3>7
      <4> HIDE DEF candidates, M
      <4>2. QED
        BY <1>3, <3>2, <3>8, <3>10, <3>11, <4>1 DEF IsMirrorMove
  <2>8. QED
    BY <2>6, <2>7
<1>4. QED
  BY <1>2, <1>3

-----------------------------------------------------------------------------
(* The copies of levels and scripts.                                       *)

ArrayFor(kind, p) == IF kind = "levels" THEN p.levels ELSE p.scripts

(* b has the values of the units from index on, before i.                  *)
IsCopied(t, kind, index, i, b) ==
  /\ IsSeq(b) /\ Len(b) = i - index
  /\ \A u \in index..(i - 1) : \E q \in DOMAIN t.paragraphs :
        /\ StartOf(t, q) <= u /\ u < LimitOf(t, q)
        /\ b[u - index + 1] = ArrayFor(kind, t.paragraphs[q])[u - StartOf(t, q) + 1]

LEMMA PartAppended ==
  ASSUME NEW b, IsSeq(b), NEW array, NEW x \in Int, NEW y \in Int, x <= y
  PROVE  LET c == b \o SubSeq(array, x, y)
         IN  /\ IsSeq(c) /\ Len(b) \in Nat /\ Len(c) = Len(b) + (y - x + 1)
             /\ \A m \in 1..Len(b) : c[m] = b[m]
             /\ \A m \in 1..(y - x + 1) : c[Len(b) + m] = array[x + m - 1]
<1>1. PICK S : b \in Seq(S)
  BY DEF IsSeq
<1>2. PICK R, d : R = S \cup {array[i] : i \in x..y} /\ d = SubSeq(array, x, y)
  OBVIOUS
<1>3. PICK m \in Nat : m = Len(b) /\ b \in [1..m -> S]
  BY <1>1, LenProperties
<1>4. b \in Seq(R)
  BY <1>2, <1>3
<1>5. \A i \in x..y : array[i] \in R
  BY <1>2
<1>6. PICK l \in Nat : l = y - x + 1
  OBVIOUS
<1>7. d \in Seq(R) /\ Len(d) = l /\ \A i \in 1..l : d[i] = array[x + i - 1]
  BY <1>2, <1>5, <1>6, SubSeqProperties
<1>8. PICK c : c = b \o d
  OBVIOUS
<1>9. /\ c \in Seq(R) /\ Len(c) = m + l
      /\ \A i \in 1..(m + l) : c[i] = IF i <= m THEN b[i] ELSE d[i - m]
  BY <1>3, <1>4, <1>7, <1>8, ConcatProperties, ZenonT(60)
<1>10. \A i \in 1..m : c[i] = b[i]
  BY <1>9
<1>11. ASSUME NEW i \in 1..l PROVE c[m + i] = array[x + i - 1]
  <2>1. m + i \in 1..(m + l) /\ ~(m + i <= m) /\ (m + i) - m = i
    OBVIOUS
  <2>2. c[m + i] = d[i]
    BY <1>9, <2>1
  <2>3. QED
    BY <1>7, <2>2
<1>12. IsSeq(c)
  BY <1>9 DEF IsSeq
<1>13. QED
  BY <1>2, <1>3, <1>6, <1>8, <1>9, <1>10, <1>11, <1>12

(* What the loop does with one paragraph.                                  *)
CopyPart(s, p, end, array) ==
  IF s.rangeStart >= end THEN s
  ELSE [rangeStart |-> Min({ParagraphLimit(p), end}),
        buffer |-> s.buffer \o SubSeq(array, Max({p.index, s.rangeStart}) - p.index + 1,
                                      Min({ParagraphLimit(p), end}) - p.index)]

LEMMA CopyStep ==
  ASSUME NEW t, IsCut(t), NEW kind \in CopyKinds, NEW q \in DOMAIN t.paragraphs, NEW p, p = t.paragraphs[q],
         NEW index \in Nat, NEW end \in Nat, NEW r \in index..end,
         r < end => StartOf(t, q) <= r /\ r < LimitOf(t, q),
         NEW b, IsCopied(t, kind, index, r, b),
         NEW s, s = CopyPart([rangeStart |-> r, buffer |-> b], p, end, ArrayFor(kind, p))
  PROVE  \E i \in index..end : \E c :
            /\ s = [rangeStart |-> i, buffer |-> c]
            /\ i = IF r = end THEN end ELSE IF LimitOf(t, q) <= end THEN LimitOf(t, q) ELSE end
            /\ IsCopied(t, kind, index, i, c)
<1>1. CASE r = end
  <2>1. s = [rangeStart |-> r, buffer |-> b]
    BY <1>1 DEF CopyPart
  <2>2. QED
    BY <1>1, <2>1
<1>2. CASE r # end
  <2>1. PICK x \in Nat, z \in Nat : x = StartOf(t, q) /\ z = LimitOf(t, q) /\ x < z
    BY CutFacts DEF IsCut
  <2>2. p.index = x /\ ParagraphLimit(p) = z
    BY <2>1 DEF StartOf, LimitOf
  <2>3. r < end /\ x <= r /\ r < z
    BY <1>2, <2>1
  <2>4. PICK i \in Nat : i = IF z <= end THEN z ELSE end
    OBVIOUS
  <2>5. Min({z, end}) = i /\ Max({x, r}) = r
    BY <2>3, <2>4, Lesser, Greater
  <2>6. PICK array : array = ArrayFor(kind, p)
    OBVIOUS
  <2>7. PICK c : c = b \o SubSeq(array, r - x + 1, i - x)
    OBVIOUS
  <2>8. s = [rangeStart |-> i, buffer |-> c]
    <3>1. PICK st : st = [rangeStart |-> r, buffer |-> b]
      OBVIOUS
    <3>2. st.rangeStart = r /\ st.buffer = b /\ ~(r >= end)
      BY <2>3, <3>1
    <3>3. s = CopyPart(st, p, end, array)
      BY <2>6, <3>1
    <3>4. s = [rangeStart |-> Min({z, end}),
               buffer |-> b \o SubSeq(array, Max({x, r}) - x + 1, Min({z, end}) - x)]
      BY <2>2, <3>2, <3>3 DEF CopyPart
    <3>5. QED
      BY <2>5, <2>7, <3>4
  <2>9. r < i /\ i <= end /\ i <= z /\ i \in index..end
    BY <2>3, <2>4
  <2>10. PICK f \in Int, g \in Int : f = r - x + 1 /\ g = i - x /\ f <= g /\ g - f + 1 = i - r
    BY <2>9
  <2>11. PICK l \in Nat, m \in Nat : l = r - index /\ m = i - r /\ l + m = i - index
    BY <2>9
  <2>12. IsSeq(b) /\ Len(b) = l
    BY <2>11 DEF IsCopied
  <2>13. /\ IsSeq(c) /\ Len(c) = l + m
         /\ \A n \in 1..l : c[n] = b[n]
         /\ \A n \in 1..m : c[l + n] = array[f + n - 1]
    <3>1. PICK h \in Nat : h = g - f + 1
      BY <2>10
    <3>2. c = b \o SubSeq(array, f, g) /\ h = m
      BY <2>7, <2>10, <2>11, <3>1
    <3>3. /\ IsSeq(c) /\ Len(c) = l + h
          /\ \A n \in 1..l : c[n] = b[n]
          /\ \A n \in 1..h : c[l + n] = array[f + n - 1]
      <4>1. /\ IsSeq(b \o SubSeq(array, f, g))
            /\ Len(b \o SubSeq(array, f, g)) = Len(b) + (g - f + 1)
            /\ \A n \in 1..Len(b) : (b \o SubSeq(array, f, g))[n] = b[n]
            /\ \A n \in 1..(g - f + 1) : (b \o SubSeq(array, f, g))[Len(b) + n] = array[f + n - 1]
        <5>1. IsSeq(b) /\ f \in Int /\ g \in Int /\ f <= g
          BY <2>10, <2>12
        <5>2. QED
          BY <5>1, PartAppended
      <4>2. QED
        BY <2>12, <3>1, <3>2, <4>1
    <3>4. QED
      BY <3>2, <3>3
  <2>14. ASSUME NEW u \in index..(i - 1)
         PROVE  \E k \in DOMAIN t.paragraphs :
                   /\ StartOf(t, k) <= u /\ u < LimitOf(t, k)
                   /\ c[u - index + 1] = ArrayFor(kind, t.paragraphs[k])[u - StartOf(t, k) + 1]
    <3>1. CASE u < r
      <4>1. u \in index..(r - 1) /\ u - index + 1 \in 1..l
        BY <2>11, <3>1
      <4>2. PICK k \in DOMAIN t.paragraphs :
               /\ StartOf(t, k) <= u /\ u < LimitOf(t, k)
               /\ b[u - index + 1] = ArrayFor(kind, t.paragraphs[k])[u - StartOf(t, k) + 1]
        BY <4>1 DEF IsCopied
      <4>3. c[u - index + 1] = b[u - index + 1]
        BY <2>13, <4>1
      <4>4. QED
        BY <4>2, <4>3
    <3>2. CASE ~(u < r)
      <4>1. PICK n \in Int : n = u - r + 1
        OBVIOUS
      <4>2. n \in 1..m /\ l + n = u - index + 1 /\ f + n - 1 = u - x + 1 /\ x <= u /\ u < z
        BY <2>3, <2>9, <2>10, <2>11, <3>2, <4>1
      <4>3. c[u - index + 1] = array[u - x + 1]
        <5>1. c[l + n] = array[f + n - 1]
          BY <2>13, <4>2
        <5>2. QED
          BY <4>2, <5>1
      <4>4. QED
        BY <2>1, <2>6, <4>2, <4>3
    <3>3. QED
      BY <3>1, <3>2
  <2>15. Len(c) = i - index
    BY <2>11, <2>13
  <2>16. IsCopied(t, kind, index, i, c)
    BY <2>13, <2>14, <2>15 DEF IsCopied
  <2>17. r # end /\ i = IF LimitOf(t, q) <= end THEN LimitOf(t, q) ELSE end
    BY <1>2, <2>1, <2>4
  <2>18. QED
    BY <2>8, <2>9, <2>16, <2>17
<1>3. QED
  BY <1>1, <1>2

LevelsTurn(env, s, p) == CopyPart(s, p, env.end, p.levels)
ScriptsTurn(env, s, p) == CopyPart(s, p, env.end, p.scripts)

(* After k paragraphs.                                                     *)
CopyInv(env, k, s) ==
  \E i \in env.index..env.end : \E b :
    /\ s = [rangeStart |-> i, buffer |-> b]
    /\ i = IF k = 0 THEN env.index
           ELSE IF LimitOf(env.t, env.first + k - 1) <= env.end THEN LimitOf(env.t, env.first + k - 1)
           ELSE env.end
    /\ IsCopied(env.t, env.kind, env.index, i, b)

CopiesLevels == INSTANCE FoldTheorems WITH Op <- LevelsTurn, Inv <- CopyInv
CopiesScripts == INSTANCE FoldTheorems WITH Op <- ScriptsTurn, Inv <- CopyInv

LEMMA LevelsCopyIsFold ==
  ASSUME NEW t, NEW index, NEW length, NEW env, env.end = index + length
  PROVE  SBTextGetResolvedLevels(t, index, length) =
           CopiesLevels!Folded(env, [rangeStart |-> index, buffer |-> <<>>],
                               SubSeq(t.paragraphs, CodeUnitParagraphIndex(t, index) + 1,
                                      Len(t.paragraphs))).buffer
  BY DEF SBTextGetResolvedLevels, CopyRange, CopiesLevels!Folded, FoldLeft, MapThenFoldSet, Max,
         CopiesLevels!Max, LevelsTurn, CopyPart

LEMMA ScriptsCopyIsFold ==
  ASSUME NEW t, NEW index, NEW length, NEW env, env.end = index + length
  PROVE  SBTextGetScripts(t, index, length) =
           CopiesScripts!Folded(env, [rangeStart |-> index, buffer |-> <<>>],
                                SubSeq(t.paragraphs, CodeUnitParagraphIndex(t, index) + 1,
                                       Len(t.paragraphs))).buffer
  BY DEF SBTextGetScripts, CopyRange, CopiesScripts!Folded, FoldLeft, MapThenFoldSet, Max,
         CopiesScripts!Max, ScriptsTurn, CopyPart

LEMMA CopyInvStep ==
  ASSUME NEW t, IsCut(t), NEW kind \in CopyKinds, NEW index \in Nat, NEW end \in Nat, index <= end,
         NEW first \in DOMAIN t.paragraphs, StartOf(t, first) <= index, index < LimitOf(t, first),
         NEW env, env = [t |-> t, kind |-> kind, index |-> index, end |-> end, first |-> first],
         NEW k \in Nat \ {0}, NEW q \in DOMAIN t.paragraphs, q = first + k - 1,
         NEW st, CopyInv(env, k - 1, st),
         NEW s, s = CopyPart(st, t.paragraphs[q], env.end, ArrayFor(kind, t.paragraphs[q]))
  PROVE  CopyInv(env, k, s)
<1>1. env.t = t /\ env.kind = kind /\ env.index = index /\ env.end = end /\ env.first = first
  OBVIOUS
<1>2. PICK i, b :
        /\ i \in index..end
        /\ st = [rangeStart |-> i, buffer |-> b]
        /\ i = IF k - 1 = 0 THEN index
               ELSE IF LimitOf(t, first + (k - 1) - 1) <= end THEN LimitOf(t, first + (k - 1) - 1)
               ELSE end
        /\ IsCopied(t, kind, index, i, b)
  <2>1. PICK j \in Nat : j = k - 1
    OBVIOUS
  <2>2. CopyInv(env, j, st)
    BY <2>1
  <2>3. PICK i, b :
          /\ i \in index..end
          /\ st = [rangeStart |-> i, buffer |-> b]
          /\ i = IF j = 0 THEN index
                 ELSE IF LimitOf(t, first + j - 1) <= end THEN LimitOf(t, first + j - 1) ELSE end
          /\ IsCopied(t, kind, index, i, b)
    BY <1>1, <2>2 DEF CopyInv
  <2>4. first + j - 1 = first + (k - 1) - 1
    BY <2>1
  <2>5. QED
    BY <2>1, <2>3, <2>4
<1>3. first \in Nat /\ q \in Nat \ {0} /\ q - 1 = first + (k - 1) - 1 /\ first >= 1
  BY DEF IsCut
<1>4. PICK x \in Nat, z \in Nat : x = StartOf(t, q) /\ z = LimitOf(t, q) /\ x < z
  BY CutFacts DEF IsCut
<1>5. i < end => x <= i /\ i < z
  <2>1. CASE k = 1
    <3>1. q = first /\ i = index
      BY <1>2, <1>3, <2>1
    <3>2. QED
      BY <1>4, <3>1
  <2>2. CASE k # 1
    <3>1. q # 1 /\ k - 1 # 0
      BY <1>3, <2>2
    <3>2. x = LimitOf(t, q - 1)
      BY <1>4, <3>1, CutFacts DEF IsCut
    <3>3. i = IF x <= end THEN x ELSE end
      BY <1>2, <1>3, <3>1, <3>2
    <3>4. QED
      BY <1>4, <3>3
  <2>3. QED
    BY <2>1, <2>2
<1>6. s = CopyPart([rangeStart |-> i, buffer |-> b], t.paragraphs[q], end, ArrayFor(kind, t.paragraphs[q]))
  BY <1>1, <1>2
<1>7. i < end => StartOf(t, q) <= i /\ i < LimitOf(t, q)
  BY <1>4, <1>5
<1>8. PICK n, c :
            /\ n \in index..end
            /\ s = [rangeStart |-> n, buffer |-> c]
            /\ n = IF i = end THEN end ELSE IF LimitOf(t, q) <= end THEN LimitOf(t, q) ELSE end
            /\ IsCopied(t, kind, index, n, c)
  BY <1>2, <1>6, <1>7, CopyStep
<1>9. n = IF z <= end THEN z ELSE end
  <2>1. CASE i = end
    <3>1. CASE k = 1
      <4>1. q = first /\ i = index
        BY <1>2, <1>3, <3>1
      <4>2. index < z
        BY <1>4, <4>1
      <4>3. QED
        BY <1>8, <2>1, <4>1, <4>2
    <3>2. CASE k # 1
      <4>1. q # 1 /\ k - 1 # 0
        BY <1>3, <3>2
      <4>2. x = LimitOf(t, q - 1)
        BY <1>4, <4>1, CutFacts DEF IsCut
      <4>3. i = IF x <= end THEN x ELSE end
        BY <1>2, <1>3, <4>1, <4>2
      <4>4. ~(z <= end)
        BY <1>4, <2>1, <4>3
      <4>5. QED
        BY <1>8, <2>1, <4>4
    <3>3. QED
      BY <3>1, <3>2
  <2>2. CASE i # end
    BY <1>4, <1>8, <2>2
  <2>3. QED
    BY <2>1, <2>2
<1>10. n = IF k = 0 THEN index
           ELSE IF LimitOf(t, first + k - 1) <= end THEN LimitOf(t, first + k - 1) ELSE end
  BY <1>4, <1>9
<1>11. QED
  BY <1>1, <1>8, <1>10 DEF CopyInv

LEMMA CopiedRange ==
  ASSUME NEW t, IsCut(t), NEW kind \in CopyKinds, NEW index \in Nat, NEW length \in Nat,
         index < Len(t.units), index + length <= Len(t.units),
         NEW buffer, buffer = IF kind = "levels" THEN SBTextGetResolvedLevels(t, index, length)
                              ELSE SBTextGetScripts(t, index, length)
  PROVE  IsCopied(t, kind, index, index + length, buffer)
<1>0. PICK first : first = CodeUnitParagraphIndex(t, index) + 1
  OBVIOUS
<1>1. PICK n \in Nat : /\ first = CodeUnitParagraphIndex(t, index) + 1
                        /\ n = Len(t.paragraphs) /\ DOMAIN t.paragraphs = 1..n
  BY <1>0 DEF IsCut
<1>2. /\ first \in DOMAIN t.paragraphs /\ first \in 1..n
      /\ StartOf(t, first) <= index /\ index < LimitOf(t, first)
  BY <1>1, ParagraphIndexIs
<1>3. PICK end \in Nat : end = index + length /\ index <= end
  OBVIOUS
<1>4. PICK env : env = [t |-> t, kind |-> kind, index |-> index, end |-> end, first |-> first]
  OBVIOUS
<1>a. PICK m \in Nat : m = (n - first) + 1
  BY <1>2
<1>b. PICK seq : seq = SubSeq(t.paragraphs, first, n)
  OBVIOUS
<1>6. /\ DOMAIN seq = 1..m
      /\ \A k \in 1..m : /\ first + k - 1 \in DOMAIN t.paragraphs
                         /\ seq[k] = t.paragraphs[first + k - 1]
  <2>1. PICK S : S = {t.paragraphs[i] : i \in first..n}
    OBVIOUS
  <2>2. \A i \in first..n : t.paragraphs[i] \in S
    BY <2>1
  <2>3. first \in Int /\ n \in Int /\ first <= n /\ n - first + 1 = m
    BY <1>2, <1>a, <1>b
  <2>4. seq \in Seq(S) /\ Len(seq) = m /\ \A k \in 1..m : seq[k] = t.paragraphs[first + k - 1]
    BY <1>a, <1>b, <2>2, <2>3, SubSeqProperties
  <2>5. \A k \in 1..m : first + k - 1 \in 1..n
    <3>1. first \in Int /\ 1 <= first /\ first <= n
      BY <1>2
    <3>2. QED
      BY <1>a, <3>1
  <2>6. QED
    BY <1>1, <2>4, <2>5, LenProperties
<1>7. PICK base : base = [rangeStart |-> index, buffer |-> <<>>]
  OBVIOUS
<1>8. CopyInv(env, 0, base)
  <2>1. IsCopied(t, kind, index, index, <<>>)
    <3>1. index..(index - 1) = {} /\ index - index = 0
      OBVIOUS
    <3>2. QED
      BY <3>1, EmptyIsSeq DEF IsCopied
  <2>2. index \in index..end
    BY <1>3
  <2>3. env.t = t /\ env.kind = kind /\ env.index = index /\ env.end = end /\ env.first = first
    BY <1>4
  <2>4. QED
    BY <1>7, <2>1, <2>2, <2>3 DEF CopyInv
<1>9. ASSUME NEW s, CopyInv(env, m, s) PROVE IsCopied(t, kind, index, index + length, s.buffer)
  <2>1. env.t = t /\ env.kind = kind /\ env.index = index /\ env.end = end /\ env.first = first
    BY <1>4
  <2>2. PICK i, b :
          /\ i \in index..end
          /\ s = [rangeStart |-> i, buffer |-> b]
          /\ i = IF m = 0 THEN index
                 ELSE IF LimitOf(t, first + m - 1) <= end THEN LimitOf(t, first + m - 1) ELSE end
          /\ IsCopied(t, kind, index, i, b)
    BY <1>9, <2>1 DEF CopyInv
  <2>3. m # 0 /\ first + m - 1 = n
    <3>1. PICK a \in Int : a = first /\ a <= n
      BY <1>2
    <3>2. m = (n - a) + 1 /\ m # 0 /\ a + m - 1 = n
      BY <1>a, <3>1
    <3>3. QED
      BY <3>1, <3>2
  <2>4. LimitOf(t, n) = Len(t.units)
    BY <1>1, <1>2, CutFacts, SMTT(40)
  <2>5. end <= Len(t.units) /\ Len(t.units) \in Nat
    BY <1>3 DEF IsCut
  <2>6. i = end
    BY <2>2, <2>3, <2>4, <2>5
  <2>7. QED
    BY <1>3, <2>2, <2>6
<1>10. CASE kind = "levels"
  <2>1. ASSUME NEW k \in 1..m, NEW st, CopyInv(env, k - 1, st)
        PROVE  CopyInv(env, k, LevelsTurn(env, st, seq[k]))
    <3>1. PICK q \in DOMAIN t.paragraphs : q = first + k - 1 /\ seq[k] = t.paragraphs[q]
      BY <1>6
    <3>2. PICK s : s = LevelsTurn(env, st, seq[k])
      OBVIOUS
    <3>3. s = CopyPart(st, t.paragraphs[q], env.end, ArrayFor(kind, t.paragraphs[q]))
      BY <1>10, <3>1, <3>2 DEF LevelsTurn, ArrayFor
    <3>4. k \in Nat \ {0}
      OBVIOUS
    <3>5. CopyInv(env, k, s)
      BY <1>2, <1>3, <1>4, <2>1, <3>1, <3>3, <3>4, CopyInvStep
    <3>6. QED
      BY <3>2, <3>5
  <2>2. CopyInv(env, m, CopiesLevels!Folded(env, base, seq))
    BY <1>6, <1>8, <2>1, CopiesLevels!FoldLeftInvariant
  <2>3. buffer = CopiesLevels!Folded(env, base, seq).buffer
    BY <1>1, <1>3, <1>4, <1>a, <1>b, <1>7, <1>10, LevelsCopyIsFold
  <2>4. QED
    BY <1>9, <2>2, <2>3
<1>11. CASE kind = "scripts"
  <2>1. ASSUME NEW k \in 1..m, NEW st, CopyInv(env, k - 1, st)
        PROVE  CopyInv(env, k, ScriptsTurn(env, st, seq[k]))
    <3>1. PICK q \in DOMAIN t.paragraphs : q = first + k - 1 /\ seq[k] = t.paragraphs[q]
      BY <1>6
    <3>2. PICK s : s = ScriptsTurn(env, st, seq[k])
      OBVIOUS
    <3>3. s = CopyPart(st, t.paragraphs[q], env.end, ArrayFor(kind, t.paragraphs[q]))
      BY <1>11, <3>1, <3>2 DEF ScriptsTurn, ArrayFor
    <3>4. k \in Nat \ {0}
      OBVIOUS
    <3>5. CopyInv(env, k, s)
      BY <1>2, <1>3, <1>4, <2>1, <3>1, <3>3, <3>4, CopyInvStep
    <3>6. QED
      BY <3>2, <3>5
  <2>2. CopyInv(env, m, CopiesScripts!Folded(env, base, seq))
    BY <1>6, <1>8, <2>1, CopiesScripts!FoldLeftInvariant
  <2>3. buffer = CopiesScripts!Folded(env, base, seq).buffer
    BY <1>1, <1>3, <1>4, <1>a, <1>b, <1>7, <1>11, ScriptsCopyIsFold
  <2>4. QED
    BY <1>9, <2>2, <2>3
<1>12. QED
  BY <1>10, <1>11 DEF CopyKinds

-----------------------------------------------------------------------------
(* What every reader keeps to.                                             *)

LEMMA ResetIsIterator ==
  ASSUME NEW t, IsCut(t), NEW kind \in IteratorKinds,
         NEW index \in 0..Len(t.units), NEW length \in 0..SBInvalidIndex,
         NEW it, it = ResetIterator(t, kind, index, length)
  PROVE  IsIterator(t, it) /\ it.kind = kind /\ it.line = NoLine
<1>0. PICK mode \in BOOLEAN : mode = (kind = "visual")
  OBVIOUS
<1>1. PICK q : q = ResetTextIterator(t, mode, index, length)
  OBVIOUS
<1>2. it = [kind |-> kind, parent |-> q, index |-> SBInvalidIndex, current |-> NoRun, line |-> NoLine]
  BY <1>0, <1>1 DEF ResetIterator
<1>3. InRange(t, q) /\ (~mode => q.forwardMode)
  BY <1>1, ResetInRange
<1>4. /\ it.kind = kind /\ it.parent = q /\ it.index = SBInvalidIndex /\ it.current = NoRun
      /\ it.line = NoLine
  BY <1>2
<1>5. it = [kind |-> it.kind, parent |-> it.parent, index |-> it.index, current |-> it.current,
            line |-> it.line]
  BY <1>2, <1>4
<1>6. QED
  BY <1>0, <1>3, <1>4, <1>5 DEF IsIterator

LEMMA PartBounds ==
  ASSUME NEW t, IsCut(t), NEW q, InRange(t, q), InPart(t, q)
  PROVE  \E start \in Nat, l \in Nat \ {0}, n \in Nat :
            start = q.paragraphStart /\ l = PartLength(q) /\ n = Len(t.units) /\ start + l <= n
<1>1. PICK start \in Nat, l \in Nat \ {0}, n \in Nat, e \in Nat :
         start = q.paragraphStart /\ l = PartLength(q) /\ n = Len(t.units) /\ e = q.paragraphEnd
  BY PartFacts, SMTT(40) DEF IsCut
<1>2. start + l = e /\ e <= n
  BY <1>1, PartFacts
<1>3. QED
  BY <1>1, <1>2

(* The iterator that a call gives back is as it should be, and the run that *)
(* it has found starts in the text.                                        *)
LEMMA ParagraphMoveKeeps ==
  ASSUME NEW t, IsCut(t), NEW it, IsIterator(t, it), it.kind = "paragraph",
         NEW moved, moved = ParagraphMoveNext(t, it)
  PROVE  /\ IsIterator(t, moved.iterator) /\ moved.iterator.kind = it.kind
         /\ moved.found \in BOOLEAN
         /\ moved.found => moved.iterator.current.index \in 0..(Len(t.units) - 1)
<1>1. IsParagraphMove(t, it, moved)
  BY ParagraphMoves
<1>2. CASE it.parent.startIndex = it.parent.endIndex
  <2>1. moved.iterator = it /\ moved.found = FALSE
    BY <1>1, <1>2 DEF IsParagraphMove
  <2>2. QED
    BY <2>1
<1>3. CASE it.parent.startIndex # it.parent.endIndex
  <2>1. PICK q, c : /\ InRange(t, q) /\ InPart(t, q) /\ q.forwardMode
                    /\ c.index = q.paragraphStart
                    /\ moved = [iterator |-> [kind |-> it.kind, parent |-> q, index |-> it.index,
                                              current |-> c, line |-> it.line],
                                found |-> TRUE]
    BY <1>1, <1>3 DEF IsParagraphMove
  <2>2. PICK r : r = moved.iterator
    OBVIOUS
  <2>3. r = [kind |-> it.kind, parent |-> q, index |-> it.index, current |-> c, line |-> it.line]
        /\ moved.found = TRUE
    BY <2>1, <2>2
  <2>4. /\ r.kind = it.kind /\ r.parent = q /\ r.index = it.index /\ r.current = c
        /\ r.line = it.line
    BY <2>3
  <2>5. r = [kind |-> r.kind, parent |-> r.parent, index |-> r.index, current |-> r.current,
             line |-> r.line]
    BY <2>3, <2>4
  <2>6. it.kind \in IteratorKinds /\ it.line = NoLine
    BY DEF IsIterator
  <2>7. IsIterator(t, r)
    BY <2>1, <2>4, <2>5, <2>6 DEF IsIterator
  <2>8. c.index \in 0..(Len(t.units) - 1)
    <3>1. PICK start \in Nat, l \in Nat \ {0}, n \in Nat :
            start = q.paragraphStart /\ l = PartLength(q) /\ n = Len(t.units) /\ start + l <= n
      BY <2>1, PartBounds
    <3>2. start \in 0..(n - 1)
      BY <3>1
    <3>3. QED
      BY <2>1, <3>1, <3>2
  <2>9. QED
    BY <2>2, <2>3, <2>4, <2>7, <2>8
<1>4. QED
  BY <1>2, <1>3

LEMMA RunMoveKeeps ==
  ASSUME NEW t, IsCut(t), NEW it, IsIterator(t, it), it.kind \in {"logical", "script"},
         NEW moved, moved = IF it.kind = "logical" THEN LogicalMoveNext(t, it) ELSE ScriptMoveNext(t, it)
  PROVE  /\ IsIterator(t, moved.iterator) /\ moved.iterator.kind = it.kind
         /\ moved.found \in BOOLEAN
         /\ moved.found => moved.iterator.current.index \in 0..(Len(t.units) - 1)
<1>1. IsRunMove(t, it, moved)
  BY RunMoves
<1>0. it.kind \in IteratorKinds /\ it.line = NoLine /\ InRange(t, it.parent) /\ it.parent.forwardMode
  BY DEF IsIterator, IteratorKinds
<1>2. CASE it.index = SBInvalidIndex /\ it.parent.startIndex = it.parent.endIndex
  <2>1. PICK r : r = moved.iterator
    OBVIOUS
  <2>2. r = [kind |-> it.kind, parent |-> it.parent, index |-> it.index, current |-> NoRun, line |-> it.line]
        /\ moved.found = FALSE
    BY <1>1, <1>2, <2>1 DEF IsRunMove
  <2>3. r.kind = it.kind /\ r.parent = it.parent /\ r.index = it.index /\ r.current = NoRun /\ r.line = it.line
    BY <2>2
  <2>4. r = [kind |-> r.kind, parent |-> r.parent, index |-> r.index, current |-> r.current,
             line |-> r.line]
    BY <2>2, <2>3
  <2>5. IsIterator(t, r)
    BY <1>0, <1>2, <2>3, <2>4 DEF IsIterator
  <2>6. QED
    BY <2>1, <2>2, <2>3, <2>5
<1>3. CASE ~(it.index = SBInvalidIndex /\ it.parent.startIndex = it.parent.endIndex)
  <2>1. PICK q, from, end, vals :
         /\ InRange(t, q) /\ InPart(t, q) /\ q.forwardMode
         /\ from \in 0..(PartLength(q) - 1) /\ end \in (from + 1)..PartLength(q)
         /\ moved = [iterator |-> NextRun(it, q, from, end, vals), found |-> TRUE]
    BY <1>1, <1>3 DEF IsRunMove
  <2>2. PICK start \in Nat, l \in Nat \ {0}, n \in Nat :
            start = q.paragraphStart /\ l = PartLength(q) /\ n = Len(t.units) /\ start + l <= n
    BY <2>1, PartBounds
  <2>3. PICK c, i, r : /\ c = [index |-> start + from, length |-> end - from, value |-> vals[from]]
                       /\ i = IF end = l THEN SBInvalidIndex ELSE end
                       /\ r = moved.iterator
    OBVIOUS
  <2>4. r = [kind |-> it.kind, parent |-> q, index |-> i, current |-> c, line |-> it.line]
        /\ moved.found = TRUE
    BY <2>1, <2>2, <2>3 DEF NextRun
  <2>5. /\ r.kind = it.kind /\ r.parent = q /\ r.index = i /\ r.current = c /\ r.line = it.line
        /\ c.index = start + from /\ c.length = end - from
    BY <2>3, <2>4
  <2>6. r = [kind |-> r.kind, parent |-> r.parent, index |-> r.index, current |-> r.current,
             line |-> r.line]
    BY <2>4, <2>5
  <2>7. i = SBInvalidIndex \/ AtRun(t, r)
    <3>1. from \in 0..(l - 1) /\ end \in (from + 1)..l
      BY <2>1, <2>2
    <3>2. start + from + (end - from) = start + end
      BY <3>1
    <3>3. end # l => i \in Nat /\ i < l /\ c.index + c.length = start + i
      BY <2>3, <2>5, <3>1, <3>2
    <3>4. QED
      BY <2>1, <2>2, <2>3, <2>5, <3>3 DEF AtRun
  <2>8. IsIterator(t, r)
    BY <1>0, <2>1, <2>5, <2>6, <2>7 DEF IsIterator
  <2>9. start + from \in 0..(n - 1)
    BY <2>1, <2>2, SMTT(40)
  <2>10. QED
    BY <2>2, <2>3, <2>4, <2>5, <2>8, <2>9
<1>4. QED
  BY <1>2, <1>3

LEMMA VisualMoveKeeps ==
  ASSUME NEW t, IsCut(t), NEW it, IsIterator(t, it), it.kind = "visual", NEW n \in Nat,
         NEW moved, moved = VisualMoveNext(t, it, n)
  PROVE  /\ IsIterator(t, moved.iterator) /\ moved.iterator.kind = "visual"
         /\ moved.found \in BOOLEAN
         /\ moved.found => moved.iterator.current.index \in 0..(Len(t.units) - 1)
         /\ moved.lines = (n - (IF it.line # NoLine THEN 1 ELSE 0))
                            + (IF moved.iterator.line # NoLine THEN 1 ELSE 0)
<1>1. IsVisualMove(t, it, n, moved)
  BY VisualMoves
<1>0. InRange(t, it.parent) /\ "visual" \in IteratorKinds
  BY DEF IsIterator, IteratorKinds
<1>2. CASE it.line = NoLine /\ it.parent.startIndex = it.parent.endIndex
  <2>1. PICK r : r = moved.iterator
    OBVIOUS
  <2>2. r = [kind |-> "visual", parent |-> it.parent, index |-> it.index, current |-> NoRun, line |-> NoLine]
        /\ moved.found = FALSE /\ moved.lines = n
    BY <1>1, <1>2, <2>1 DEF IsVisualMove
  <2>3. r.kind = "visual" /\ r.parent = it.parent /\ r.index = it.index /\ r.current = NoRun /\ r.line = NoLine
    BY <2>2
  <2>4. r = [kind |-> r.kind, parent |-> r.parent, index |-> r.index, current |-> r.current,
             line |-> r.line]
    BY <2>2, <2>3
  <2>5. IsIterator(t, r)
    BY <1>0, <2>3, <2>4 DEF IsIterator
  <2>6. n = (n - 0) + 0
    OBVIOUS
  <2>7. QED
    BY <1>2, <2>1, <2>2, <2>3, <2>5, <2>6
<1>3. CASE ~(it.line = NoLine /\ it.parent.startIndex = it.parent.endIndex)
  <2>1. PICK q, line, k, alive :
         /\ InRange(t, q) /\ InPart(t, q)
         /\ IsLineOf(line, t.paragraphs[q.paragraph + 1], q.paragraphStart, PartLength(q))
         /\ k \in Nat /\ k + 1 \in 1..Len(line.runs)
         /\ alive = (IF it.line = NoLine THEN n + 1 ELSE n)
                      - (IF k + 1 = Len(line.runs) THEN 1 ELSE 0)
         /\ moved = [iterator |-> AtRunOf(it, q, line, k), found |-> TRUE, lines |-> alive]
    BY <1>1, <1>3 DEF IsVisualMove
  <2>2. PICK c, h, i, r : /\ c = [index |-> line.runs[k + 1].offset, length |-> line.runs[k + 1].length,
                                  value |-> line.runs[k + 1].level]
                          /\ h = IF k + 1 = Len(line.runs) THEN NoLine ELSE line
                          /\ i = k + 1
                          /\ r = moved.iterator
    OBVIOUS
  <2>3. r = [kind |-> "visual", parent |-> q, index |-> i, current |-> c, line |-> h]
        /\ moved.found = TRUE /\ moved.lines = alive
    BY <2>1, <2>2 DEF AtRunOf
  <2>4. /\ r.kind = "visual" /\ r.parent = q /\ r.index = i /\ r.current = c /\ r.line = h
        /\ c.index = line.runs[k + 1].offset
    BY <2>2, <2>3
  <2>5. r = [kind |-> r.kind, parent |-> r.parent, index |-> r.index, current |-> r.current,
             line |-> r.line]
    BY <2>3, <2>4
  <2>6. line # NoLine /\ Len(line.runs) \in Nat
    BY <2>1, LineIsThere
  <2>7. h = NoLine \/ AtVisualRun(t, r)
    <3>1. CASE k + 1 = Len(line.runs)
      BY <2>2, <3>1
    <3>2. CASE k + 1 # Len(line.runs)
      <4>1. h = line /\ i \in Nat /\ i + 1 \in 1..Len(line.runs)
        BY <2>1, <2>2, <2>6, <3>2
      <4>2. QED
        BY <2>1, <2>4, <4>1 DEF AtVisualRun
    <3>3. QED
      BY <3>1, <3>2
  <2>8. IsIterator(t, r)
    BY <1>0, <2>1, <2>4, <2>5, <2>7 DEF IsIterator
  <2>9. c.index \in 0..(Len(t.units) - 1)
    <3>1. PICK start \in Nat, l \in Nat \ {0}, m \in Nat :
            start = q.paragraphStart /\ l = PartLength(q) /\ m = Len(t.units) /\ start + l <= m
      BY <2>1, PartBounds
    <3>2. PICK types, levels, base, lv, rs, pos : IsLine(line, types, levels, start, base, l, lv, rs, pos)
      BY <2>1, <3>1 DEF IsLineOf
    <3>3. PICK o \in Nat, w \in Nat \ {0} : /\ o = line.runs[k + 1].offset /\ w = line.runs[k + 1].length
                                            /\ o + w <= start + l
      BY <2>1, <3>1, <3>2, LineInside
    <3>4. o \in 0..(m - 1)
      <4>1. o + w <= start + l /\ start + l <= m
        BY <3>1, <3>3
      <4>2. QED
        BY <4>1
    <3>5. QED
      BY <2>4, <3>1, <3>3, <3>4
  <2>10. alive = (n - (IF it.line # NoLine THEN 1 ELSE 0)) + (IF h # NoLine THEN 1 ELSE 0)
    <3>1. it.line # NoLine => alive = n - (IF k + 1 = Len(line.runs) THEN 1 ELSE 0)
      BY <2>1
    <3>2. it.line = NoLine => alive = (n + 1) - (IF k + 1 = Len(line.runs) THEN 1 ELSE 0)
      BY <2>1
    <3>3. h = NoLine <=> k + 1 = Len(line.runs)
      BY <2>2, <2>6
    <3>4. QED
      BY <3>1, <3>2, <3>3
  <2>11. QED
    BY <2>2, <2>3, <2>4, <2>8, <2>9, <2>10
<1>4. QED
  BY <1>2, <1>3

LEMMA MirrorMoveKeeps ==
  ASSUME NEW t, IsCut(t), NEW r, IsMirror(t, r),
         NEW moved, moved = SBMirrorLocatorMoveNext(r, t.units)
  PROVE  /\ IsMirror(t, moved.locator) /\ moved.locator.line = r.line
         /\ moved.found \in BOOLEAN
         /\ moved.found => moved.locator.agent.index \in 0..(Len(t.units) - 1)
<1>1. IsMirrorMove(t, r, moved)
  BY MirrorMoves
<1>2. CASE r.line = NoLine
  <2>1. moved.locator = r /\ moved.found = FALSE
    BY <1>1, <1>2 DEF IsMirrorMove
  <2>2. QED
    BY <2>1
<1>3. ASSUME r.line # NoLine,
             NEW run \in Nat, run + 1 \in 1..Len(r.line.runs), NEW next \in Nat, NEW agent, NEW f \in BOOLEAN,
             f => agent.index \in 0..(Len(t.units) - 1),
             moved = [locator |-> [kind |-> "mirror", line |-> r.line, runIndex |-> run,
                                   stringIndex |-> next, agent |-> agent],
                      found |-> f]
      PROVE  /\ IsMirror(t, moved.locator) /\ moved.locator.line = r.line
             /\ moved.found \in BOOLEAN
             /\ moved.found => moved.locator.agent.index \in 0..(Len(t.units) - 1)
  <2>1. PICK s : s = moved.locator
    OBVIOUS
  <2>2. s = [kind |-> "mirror", line |-> r.line, runIndex |-> run, stringIndex |-> next, agent |-> agent]
        /\ moved.found = f
    BY <1>3, <2>1
  <2>3. s.line = r.line /\ s.runIndex = run /\ s.stringIndex = next /\ s.agent = agent
    BY <2>2
  <2>4. s = [kind |-> "mirror", line |-> s.line, runIndex |-> s.runIndex, stringIndex |-> s.stringIndex,
             agent |-> s.agent]
    BY <2>2, <2>3
  <2>5. IsMirror(t, s)
    BY <1>3, <2>3, <2>4 DEF IsMirror
  <2>6. QED
    BY <1>3, <2>1, <2>2, <2>3, <2>5
<1>4. CASE r.line # NoLine
  <2>1. PICK m \in Nat : m = Len(r.line.runs) /\ m # 0
    BY <1>4, LineIsThere DEF IsMirror
  <2>2. CASE \A k \in r.runIndex..(Len(r.line.runs) - 1) : MirroredIn(r, t.units, k) = {}
    <3>1. moved = [locator |-> [kind |-> "mirror", line |-> r.line, runIndex |-> 0,
                                stringIndex |-> SBInvalidIndex, agent |-> NoMirrorAgent],
                   found |-> FALSE]
      BY <1>1, <1>4, <2>2 DEF IsMirrorMove
    <3>2. SBInvalidIndex \in Nat /\ 0 + 1 \in 1..Len(r.line.runs)
      BY <2>1, SBInvalidIndexAssumption
    <3>3. QED
      BY <1>3, <1>4, <3>1, <3>2
  <2>3. CASE ~\A k \in r.runIndex..(Len(r.line.runs) - 1) : MirroredIn(r, t.units, k) = {}
    <3>1. PICK run, index :
            /\ run \in r.runIndex..(Len(r.line.runs) - 1) /\ run \in Nat
            /\ index \in 0..(Len(t.units) - 1)
            /\ NextIndex(t.units, index) \in Nat
            /\ moved = [locator |-> [kind |-> "mirror", line |-> r.line, runIndex |-> run,
                                  stringIndex |-> NextIndex(t.units, index),
                                  agent |-> [index |-> index, codepoint |-> t.units[index + 1],
                                             mirror |-> LookupMirror(t.units[index + 1])]],
                     found |-> TRUE]
      BY <1>1, <1>4, <2>3 DEF IsMirrorMove
    <3>2. PICK agent : agent = [index |-> index, codepoint |-> t.units[index + 1],
                                mirror |-> LookupMirror(t.units[index + 1])]
      OBVIOUS
    <3>3. agent.index = index
      BY <3>2
    <3>4. run + 1 \in 1..Len(r.line.runs)
      BY <2>1, <3>1
    <3>5. moved = [locator |-> [kind |-> "mirror", line |-> r.line, runIndex |-> run,
                                stringIndex |-> NextIndex(t.units, index), agent |-> agent],
                   found |-> TRUE]
      BY <3>1, <3>2
    <3>6. QED
      BY <1>3, <1>4, <3>1, <3>3, <3>4, <3>5
  <2>4. QED
    BY <2>2, <2>3
<1>5. QED
  BY <1>2, <1>4

IsReader(t, r) ==
  \/ r = NoReader
  \/ \E kind \in CopyKinds : r = [kind |-> kind]
  \/ IsIterator(t, r)
  \/ IsMirror(t, r)

Held(r) == IF (IF r.kind \in {"visual", "mirror"} THEN r.line # NoLine ELSE FALSE) THEN 1 ELSE 0

(* The inductive invariant.                                                *)
IInv ==
  /\ IsCut(text)
  /\ IsSeen(text, seen)
  /\ IsReader(text, reader)
  /\ lines = Held(reader) + seen.dropped

LEMMA HeldIs == Held(reader) = (IF HoldsLine THEN 1 ELSE 0)
  BY DEF Held, HoldsLine

(* Which reader it is shows in its kind.                                   *)
LEMMA KindOfReader ==
  ASSUME NEW t, NEW r, IsReader(t, r)
  PROVE  /\ r.kind \in IteratorKinds => IsIterator(t, r)
         /\ r.kind = "mirror" => IsMirror(t, r)
         /\ r.kind = "none" => r = NoReader
         /\ r.kind \in CopyKinds \cup {"none"} => Held(r) = 0
<1>1. NoReader.kind = "none" /\ \A kind \in CopyKinds : [kind |-> kind].kind = kind
  BY DEF NoReader
<1>2. CopyKinds = {"levels", "scripts"} /\ IteratorKinds = {"paragraph", "logical", "script", "visual"}
  BY DEF CopyKinds, IteratorKinds
<1>3. CASE r = NoReader
  BY <1>1, <1>2, <1>3 DEF Held
<1>4. CASE \E kind \in CopyKinds : r = [kind |-> kind]
  BY <1>1, <1>2, <1>4 DEF Held
<1>5. CASE IsIterator(t, r)
  BY <1>2, <1>5 DEF IsIterator
<1>6. CASE IsMirror(t, r)
  <2>1. r.kind = "mirror"
    BY <1>6 DEF IsMirror
  <2>2. QED
    BY <1>2, <1>6, <2>1
<1>7. QED
  BY <1>3, <1>4, <1>5, <1>6 DEF IsReader

LEMMA FreshIsSeen ==
  ASSUME NEW t, NEW dropped \in 0..MaxDropped, NEW index \in 0..Len(t.units),
         NEW length \in 0..SBInvalidIndex, NEW s,
         s = [index |-> index, length |-> length, given |-> <<>>, finished |-> FALSE, dropped |-> dropped]
  PROVE  IsSeen(t, s) /\ s.dropped = dropped
<1>1. /\ s.index = index /\ s.length = length /\ s.given = <<>> /\ s.finished = FALSE
      /\ s.dropped = dropped
  OBVIOUS
<1>2. s = [index |-> s.index, length |-> s.length, given |-> s.given, finished |-> s.finished,
           dropped |-> s.dropped]
  BY <1>1
<1>3. IsSeq(s.given) /\ DOMAIN s.given = {}
  BY <1>1, EmptyIsSeq
<1>4. QED
  BY <1>1, <1>2, <1>3 DEF IsSeen

LEMMA InitHolds == Init => IInv
<1> SUFFICES ASSUME Init PROVE IInv
  OBVIOUS
<1>1. PICK analysed \in Texts : text = WithScripts(analysed)
  BY DEF Init
<1>2. IsCut(text)
  BY <1>1, ReadTextIsCut
<1>3. IsSeen(text, seen) /\ seen.dropped = 0
  <2>1. seen = [index |-> 0, length |-> 0, given |-> <<>>, finished |-> FALSE, dropped |-> 0]
    BY DEF Init, FreshlySeen
  <2>2. 0 \in 0..MaxDropped /\ 0 \in 0..Len(text.units) /\ 0 \in 0..SBInvalidIndex
    BY <1>2, MaxDroppedAssumption, SBInvalidIndexAssumption DEF IsCut
  <2>3. QED
    BY <2>1, <2>2, FreshIsSeen
<1>4. reader = NoReader /\ lines = 0
  BY DEF Init
<1>5. Held(reader) = 0
  BY <1>4 DEF Held, NoReader
<1>6. QED
  BY <1>2, <1>3, <1>4, <1>5 DEF IInv, IsReader

(* The inputs of an action.                                                *)
LEMMA Inputs ==
  ASSUME IsCut(text), NEW index \in 0..Length, NEW length \in Lengths(Length)
  PROVE  /\ index \in 0..Len(text.units) /\ index \in Nat
         /\ length \in 0..SBInvalidIndex /\ length \in Nat
<1>1. Len(text.units) \in 0..SBInvalidIndex
  BY DEF IsCut
<1>2. Lengths(Length) \subseteq 0..SBInvalidIndex
  BY <1>1, LengthsAssumption DEF Length
<1>3. QED
  BY <1>1, <1>2, SBInvalidIndexAssumption DEF Length

LEMMA CreateIteratorHolds ==
  ASSUME IInv, NEW kind \in IteratorKinds, CreateIterator(kind)
  PROVE  IInv'
<1>1. /\ reader = NoReader /\ reader' = ResetIterator(text, kind, 0, Length)
      /\ seen' = [FreshlySeen(seen.dropped) EXCEPT !.length = Length]
      /\ text' = text /\ lines' = lines
  BY DEF CreateIterator
<1>2. /\ IsCut(text) /\ IsSeen(text, seen) /\ lines = Held(reader) + seen.dropped
      /\ seen.dropped \in 0..MaxDropped
  BY DEF IInv, IsSeen
<1>3. Length \in 0..SBInvalidIndex /\ 0 \in 0..Len(text.units) /\ Length = Len(text.units)
  BY <1>2 DEF IsCut, Length
<1>4. IsIterator(text, reader') /\ (reader').line = NoLine
  BY <1>1, <1>2, <1>3, ResetIsIterator
<1>5. seen' = [index |-> 0, length |-> Length, given |-> <<>>, finished |-> FALSE, dropped |-> seen.dropped]
  BY <1>1 DEF FreshlySeen
<1>6. IsSeen(text, seen') /\ (seen').dropped = seen.dropped
  BY <1>2, <1>3, <1>5, FreshIsSeen
<1>7. Held(reader) = 0 /\ Held(reader') = 0
  BY <1>1, <1>4 DEF Held, NoReader
<1>8. QED
  BY <1>1, <1>2, <1>4, <1>6, <1>7 DEF IInv, IsReader

LEMMA ResetHolds ==
  ASSUME IInv, NEW index \in 0..Length, NEW length \in Lengths(Length), Reset(index, length)
  PROVE  IInv'
<1>1. /\ reader.kind \in IteratorKinds /\ (HoldsLine => seen.dropped < MaxDropped)
      /\ reader' = ResetIterator(text, reader.kind, index, length)
      /\ seen' = [FreshlySeen(IF HoldsLine THEN seen.dropped + 1 ELSE seen.dropped)
                    EXCEPT !.index = index, !.length = length]
      /\ text' = text /\ lines' = lines
  BY DEF Reset
<1>2. /\ IsCut(text) /\ IsSeen(text, seen) /\ lines = Held(reader) + seen.dropped
      /\ seen.dropped \in 0..MaxDropped
  BY DEF IInv, IsSeen
<1>3. index \in 0..Len(text.units) /\ length \in 0..SBInvalidIndex
  BY <1>2, Inputs
<1>4. IsIterator(text, reader') /\ (reader').line = NoLine
  BY <1>1, <1>2, <1>3, ResetIsIterator
<1>5. PICK dropped : dropped = IF HoldsLine THEN seen.dropped + 1 ELSE seen.dropped
  OBVIOUS
<1>6. dropped \in 0..MaxDropped
  BY <1>1, <1>2, <1>5, MaxDroppedAssumption
<1>7. seen' = [index |-> index, length |-> length, given |-> <<>>, finished |-> FALSE, dropped |-> dropped]
  BY <1>1, <1>5 DEF FreshlySeen
<1>8. IsSeen(text, seen') /\ (seen').dropped = dropped
  BY <1>3, <1>6, <1>7, FreshIsSeen
<1>9. Held(reader') = 0 /\ lines = 0 + dropped
  <2>1. Held(reader') = 0
    BY <1>4 DEF Held
  <2>2. lines = dropped
    BY <1>2, <1>5, HeldIs
  <2>3. QED
    BY <1>6, <2>1, <2>2
<1>10. QED
  BY <1>1, <1>2, <1>4, <1>8, <1>9 DEF IInv, IsReader

LEMMA LoadLineHolds ==
  ASSUME IInv, NEW k \in DOMAIN text.paragraphs, NEW index \in 0..Length, NEW length \in Lengths(Length),
         LoadLine(text.paragraphs[k], index, length)
  PROVE  IInv'
<1>1. PICK line :
        /\ reader.kind \in {"none", "mirror"}
        /\ line = SBParagraphCreateLine(text.paragraphs[k], index, length)
        /\ reader' = SBMirrorLocatorLoadLine(line)
        /\ lines' = lines - (IF HoldsLine THEN 1 ELSE 0) + (IF line # NoLine THEN 1 ELSE 0)
        /\ seen' = [FreshlySeen(seen.dropped) EXCEPT !.index = index, !.length = length]
        /\ text' = text
  BY DEF LoadLine
<1>2. /\ IsCut(text) /\ IsSeen(text, seen) /\ lines = Held(reader) + seen.dropped
      /\ seen.dropped \in 0..MaxDropped
  BY DEF IInv, IsSeen
<1>3. /\ index \in 0..Len(text.units) /\ index \in Nat
      /\ length \in 0..SBInvalidIndex /\ length \in Nat
  BY <1>2, Inputs
<1>4. IF length # 0 /\ StartOf(text, k) <= index /\ index + length <= LimitOf(text, k)
      THEN line # NoLine /\ IsLineOf(line, text.paragraphs[k], index, length)
      ELSE line = NoLine
  BY <1>1, <1>2, <1>3, CreatedLine
<1>5. PICK r : r = reader'
  OBVIOUS
<1>6. r = [kind |-> "mirror", line |-> line, runIndex |-> 0, stringIndex |-> SBInvalidIndex,
           agent |-> NoMirrorAgent]
  BY <1>1, <1>5 DEF SBMirrorLocatorLoadLine
<1>7. /\ r.kind = "mirror" /\ r.line = line /\ r.runIndex = 0 /\ r.stringIndex = SBInvalidIndex
      /\ r.agent = NoMirrorAgent
  BY <1>6
<1>8. r = [kind |-> "mirror", line |-> r.line, runIndex |-> r.runIndex, stringIndex |-> r.stringIndex,
           agent |-> r.agent]
  BY <1>6, <1>7
<1>9. line # NoLine =>
        /\ 0 + 1 \in 1..Len(line.runs)
        /\ \E j \in DOMAIN text.paragraphs, offset \in Nat, l \in Nat \ {0} :
              /\ StartOf(text, j) <= offset /\ offset + l <= LimitOf(text, j)
              /\ IsLineOf(line, text.paragraphs[j], offset, l)
  <2>1. SUFFICES ASSUME line # NoLine
                 PROVE  /\ 0 + 1 \in 1..Len(line.runs)
                        /\ \E j \in DOMAIN text.paragraphs, offset \in Nat, l \in Nat \ {0} :
                              /\ StartOf(text, j) <= offset /\ offset + l <= LimitOf(text, j)
                              /\ IsLineOf(line, text.paragraphs[j], offset, l)
    OBVIOUS
  <2>2. /\ length # 0 /\ StartOf(text, k) <= index /\ index + length <= LimitOf(text, k)
        /\ IsLineOf(line, text.paragraphs[k], index, length)
    BY <1>4, <2>1
  <2>3. Len(line.runs) \in Nat \ {0}
    BY <2>2, LineIsThere
  <2>4. 0 + 1 \in 1..Len(line.runs)
    BY <2>3
  <2>5. length \in Nat \ {0}
    BY <1>3, <2>2
  <2>6. QED
    BY <1>3, <2>2, <2>4, <2>5
<1>10. IsMirror(text, r)
  BY <1>7, <1>8, <1>9, SBInvalidIndexAssumption DEF IsMirror
<1>11. seen' = [index |-> index, length |-> length, given |-> <<>>, finished |-> FALSE, dropped |-> seen.dropped]
  BY <1>1 DEF FreshlySeen
<1>12. IsSeen(text, seen') /\ (seen').dropped = seen.dropped
  BY <1>2, <1>3, <1>11, FreshIsSeen
<1>13. lines' = Held(r) + seen.dropped
  <2>1. Held(r) = IF line # NoLine THEN 1 ELSE 0
    BY <1>7 DEF Held
  <2>2. lines = (IF HoldsLine THEN 1 ELSE 0) + seen.dropped
    BY <1>2, HeldIs
  <2>3. QED
    BY <1>1, <1>2, <2>1, <2>2
<1>14. QED
  BY <1>1, <1>2, <1>5, <1>10, <1>12, <1>13 DEF IInv, IsReader

LEMMA ResetMirrorsHolds ==
  ASSUME IInv, ResetMirrors
  PROVE  IInv'
<1>1. /\ reader.kind = "mirror" /\ reader' = SBMirrorLocatorReset(reader)
      /\ seen' = [seen EXCEPT !.given = <<>>, !.finished = FALSE]
      /\ text' = text /\ lines' = lines
  BY DEF ResetMirrors
<1>2. /\ IsCut(text) /\ IsSeen(text, seen) /\ lines = Held(reader) + seen.dropped
      /\ IsMirror(text, reader)
  BY <1>1, KindOfReader DEF IInv
<1>3. PICK r : r = reader'
  OBVIOUS
<1>4. r = [kind |-> "mirror", line |-> reader.line, runIndex |-> 0, stringIndex |-> SBInvalidIndex,
           agent |-> NoMirrorAgent]
  <2>1. reader = [kind |-> "mirror", line |-> reader.line, runIndex |-> reader.runIndex,
                  stringIndex |-> reader.stringIndex, agent |-> reader.agent]
    BY <1>2 DEF IsMirror
  <2>2. DOMAIN reader = {"kind", "line", "runIndex", "stringIndex", "agent"} /\ reader["kind"] = "mirror"
    BY <2>1
  <2>3. [reader EXCEPT !.runIndex = 0, !.stringIndex = SBInvalidIndex, !.agent = NoMirrorAgent] =
            [f \in {"kind", "line", "runIndex", "stringIndex", "agent"} |->
               IF f = "runIndex" THEN 0 ELSE IF f = "stringIndex" THEN SBInvalidIndex
               ELSE IF f = "agent" THEN NoMirrorAgent ELSE reader[f]]
    BY <2>2, Zenon
  <2>4. QED
    BY <1>1, <1>3, <2>2, <2>3 DEF SBMirrorLocatorReset
<1>5. /\ r.kind = "mirror" /\ r.line = reader.line /\ r.runIndex = 0 /\ r.stringIndex = SBInvalidIndex
      /\ r.agent = NoMirrorAgent
  BY <1>4
<1>6. r = [kind |-> "mirror", line |-> r.line, runIndex |-> r.runIndex, stringIndex |-> r.stringIndex,
           agent |-> r.agent]
  BY <1>4, <1>5
<1>7. r.line # NoLine => r.runIndex + 1 \in 1..Len(r.line.runs)
  <2>1. r.line # NoLine => Len(r.line.runs) \in Nat \ {0}
    BY <1>2, <1>5, LineIsThere DEF IsMirror
  <2>2. QED
    BY <1>5, <2>1
<1>8. IsMirror(text, r)
  BY <1>2, <1>5, <1>6, <1>7, SBInvalidIndexAssumption DEF IsMirror
<1>9. IsSeen(text, seen') /\ (seen').dropped = seen.dropped
  <2>1. /\ seen = [index |-> seen.index, length |-> seen.length, given |-> seen.given,
                   finished |-> seen.finished, dropped |-> seen.dropped]
        /\ seen.index \in 0..Len(text.units) /\ seen.length \in 0..SBInvalidIndex
        /\ seen.dropped \in 0..MaxDropped
    BY <1>2 DEF IsSeen
  <2>2. seen' = [index |-> seen.index, length |-> seen.length, given |-> <<>>, finished |-> FALSE,
                 dropped |-> seen.dropped]
    BY <1>1, <2>1
  <2>3. QED
    BY <2>1, <2>2, FreshIsSeen
<1>10. Held(r) = Held(reader)
  BY <1>1, <1>5 DEF Held
<1>11. QED
  BY <1>1, <1>2, <1>3, <1>8, <1>9, <1>10 DEF IInv, IsReader

LEMMA GetRangeHolds ==
  ASSUME IInv, NEW kind \in CopyKinds, NEW index \in 0..Length, NEW length \in Lengths(Length),
         GetRange(kind, index, length)
  PROVE  IInv'
<1>1. PICK buffer :
        /\ buffer = IF kind = "levels" THEN SBTextGetResolvedLevels(text, index, length)
                    ELSE SBTextGetScripts(text, index, length)
        /\ reader = NoReader /\ index < Length /\ index + length <= Length
        /\ reader' = [kind |-> kind]
        /\ seen' = [index |-> index, length |-> length, finished |-> TRUE, dropped |-> seen.dropped,
                    given |-> [k \in DOMAIN buffer |->
                                 [index |-> index + k - 1, length |-> 1, value |-> buffer[k]]]]
        /\ text' = text /\ lines' = lines
  BY DEF GetRange
<1>2. /\ IsCut(text) /\ IsSeen(text, seen) /\ lines = Held(reader) + seen.dropped
      /\ seen.dropped \in 0..MaxDropped
  BY DEF IInv, IsSeen
<1>3. /\ index \in 0..Len(text.units) /\ index \in Nat
      /\ length \in 0..SBInvalidIndex /\ length \in Nat
  BY <1>2, Inputs
<1>4. IsCopied(text, kind, index, index + length, buffer)
  BY <1>1, <1>2, <1>3, CopiedRange DEF Length
<1>5. IsSeq(buffer) /\ Len(buffer) = length
  <2>1. (index + length) - index = length
    BY <1>3
  <2>2. QED
    BY <1>4, <2>1 DEF IsCopied
<1>6. DOMAIN buffer = 1..length
  <2>1. PICK S : buffer \in Seq(S)
    BY <1>5 DEF IsSeq
  <2>2. QED
    BY <1>5, <2>1, LenProperties
<1>7. PICK g : g = [k \in DOMAIN buffer |-> [index |-> index + k - 1, length |-> 1, value |-> buffer[k]]]
  OBVIOUS
<1>8. IsSeq(g) /\ DOMAIN g = 1..length /\ \A k \in 1..length : g[k].index = index + k - 1
  <2>1. PICK S : S = {[index |-> index + k - 1, length |-> 1, value |-> buffer[k]] : k \in DOMAIN buffer}
    OBVIOUS
  <2>2. g \in [1..length -> S]
    BY <1>6, <1>7, <2>1
  <2>3. g \in Seq(S)
    BY <1>3, <2>2
  <2>4. QED
    BY <1>6, <1>7, <2>3 DEF IsSeq
<1>9. \A k \in DOMAIN g : g[k].index \in 0..(Len(text.units) - 1)
  <2>1. PICK n \in Nat : n = Len(text.units)
    BY <1>2 DEF IsCut
  <2>2. index + length <= n
    BY <1>1, <2>1 DEF Length
  <2>3. \A k \in 1..length : index + k - 1 \in 0..(n - 1)
    BY <1>3, <2>2
  <2>4. QED
    BY <1>8, <2>1, <2>3
<1>10. PICK s : s = seen'
  OBVIOUS
<1>11. s = [index |-> index, length |-> length, given |-> g, finished |-> TRUE, dropped |-> seen.dropped]
  BY <1>1, <1>7, <1>10
<1>12. s.index = index /\ s.length = length /\ s.given = g /\ s.finished = TRUE /\ s.dropped = seen.dropped
  BY <1>11
<1>13. s = [index |-> s.index, length |-> s.length, given |-> s.given, finished |-> s.finished,
            dropped |-> s.dropped]
  BY <1>11, <1>12
<1>14. IsSeen(text, s)
  BY <1>2, <1>3, <1>8, <1>9, <1>12, <1>13 DEF IsSeen
<1>15. Held(reader) = 0 /\ Held(reader') = 0
  BY <1>1 DEF Held, NoReader, CopyKinds
<1>16. QED
  BY <1>1, <1>2, <1>10, <1>12, <1>14, <1>15 DEF IInv, IsReader

LEMMA MoveNextHolds ==
  ASSUME IInv, MoveNext
  PROVE  IInv'
<1>1. PICK moved :
        /\ reader.kind \in {"paragraph", "logical", "script"}
        /\ moved = Moved
        /\ reader' = moved.iterator
        /\ seen' = SeenWith(moved.iterator.current, moved.found)
        /\ text' = text /\ lines' = lines
  BY DEF MoveNext
<1>2. /\ IsCut(text) /\ IsSeen(text, seen) /\ lines = Held(reader) + seen.dropped
      /\ IsIterator(text, reader)
  BY <1>1, KindOfReader DEF IInv, IteratorKinds
<1>3. /\ IsIterator(text, moved.iterator) /\ moved.iterator.kind = reader.kind
      /\ moved.found \in BOOLEAN
      /\ moved.found => moved.iterator.current.index \in 0..(Len(text.units) - 1)
  <2>1. CASE reader.kind = "paragraph"
    <3>1. moved = ParagraphMoveNext(text, reader)
      BY <1>1, <2>1 DEF Moved
    <3>2. QED
      BY <1>2, <2>1, <3>1, ParagraphMoveKeeps
  <2>2. CASE reader.kind \in {"logical", "script"}
    <3>1. moved = IF reader.kind = "logical" THEN LogicalMoveNext(text, reader)
                  ELSE ScriptMoveNext(text, reader)
      BY <1>1, <2>2 DEF Moved
    <3>2. QED
      BY <1>2, <2>2, <3>1, RunMoveKeeps
  <2>3. QED
    BY <1>1, <2>1, <2>2
<1>4. IsSeen(text, seen') /\ (seen').dropped = seen.dropped
  BY <1>1, <1>2, <1>3, SeenMore
<1>5. Held(reader) = 0 /\ Held(reader') = 0
  BY <1>1, <1>3 DEF Held
<1>6. QED
  BY <1>1, <1>2, <1>3, <1>4, <1>5 DEF IInv, IsReader

LEMMA MoveNextVisualHolds ==
  ASSUME IInv, MoveNextVisual
  PROVE  IInv'
<1>1. PICK moved :
        /\ reader.kind = "visual"
        /\ moved = VisualMoveNext(text, reader, lines)
        /\ reader' = moved.iterator
        /\ lines' = moved.lines
        /\ seen' = SeenWith(moved.iterator.current, moved.found)
        /\ text' = text
  BY DEF MoveNextVisual
<1>2. /\ IsCut(text) /\ IsSeen(text, seen) /\ lines = Held(reader) + seen.dropped
      /\ IsIterator(text, reader) /\ seen.dropped \in Nat
  BY <1>1, KindOfReader, MaxDroppedAssumption DEF IInv, IteratorKinds, IsSeen
<1>3. lines \in Nat
  BY <1>2 DEF Held
<1>4. /\ IsIterator(text, moved.iterator) /\ moved.iterator.kind = "visual"
      /\ moved.found \in BOOLEAN
      /\ moved.found => moved.iterator.current.index \in 0..(Len(text.units) - 1)
      /\ moved.lines = (lines - (IF reader.line # NoLine THEN 1 ELSE 0))
                         + (IF moved.iterator.line # NoLine THEN 1 ELSE 0)
  BY <1>1, <1>2, <1>3, VisualMoveKeeps
<1>5. IsSeen(text, seen') /\ (seen').dropped = seen.dropped
  BY <1>1, <1>2, <1>4, SeenMore
<1>6. /\ Held(reader) = IF reader.line # NoLine THEN 1 ELSE 0
      /\ Held(reader') = IF moved.iterator.line # NoLine THEN 1 ELSE 0
  BY <1>1, <1>4 DEF Held
<1>7. lines' = Held(reader') + seen.dropped
  <2>1. lines' = (lines - Held(reader)) + Held(reader')
    BY <1>1, <1>4, <1>6
  <2>2. Held(reader) \in Nat /\ Held(reader') \in Nat
    BY <1>6
  <2>3. QED
    BY <1>2, <2>1, <2>2
<1>8. QED
  BY <1>1, <1>2, <1>4, <1>5, <1>7 DEF IInv, IsReader

LEMMA MoveNextMirrorHolds ==
  ASSUME IInv, MoveNextMirror
  PROVE  IInv'
<1>1. PICK moved :
        /\ reader.kind = "mirror"
        /\ moved = SBMirrorLocatorMoveNext(reader, text.units)
        /\ reader' = moved.locator
        /\ seen' = SeenWith(moved.locator.agent, moved.found)
        /\ text' = text /\ lines' = lines
  BY DEF MoveNextMirror
<1>2. /\ IsCut(text) /\ IsSeen(text, seen) /\ lines = Held(reader) + seen.dropped
      /\ IsMirror(text, reader)
  BY <1>1, KindOfReader DEF IInv
<1>3. /\ IsMirror(text, moved.locator) /\ moved.locator.line = reader.line
      /\ moved.found \in BOOLEAN
      /\ moved.found => moved.locator.agent.index \in 0..(Len(text.units) - 1)
  BY <1>1, <1>2, MirrorMoveKeeps
<1>4. IsSeen(text, seen') /\ (seen').dropped = seen.dropped
  BY <1>1, <1>2, <1>3, SeenMore
<1>5. (reader').kind = "mirror"
  BY <1>1, <1>3 DEF IsMirror
<1>6. Held(reader') = Held(reader)
  BY <1>1, <1>3, <1>5 DEF Held
<1>7. QED
  BY <1>1, <1>2, <1>3, <1>4, <1>6 DEF IInv, IsReader

LEMMA ReleaseHolds ==
  ASSUME IInv, Release
  PROVE  IInv'
<1>1. /\ reader' = NoReader /\ lines' = (IF HoldsLine THEN lines - 1 ELSE lines)
      /\ seen' = FreshlySeen(seen.dropped) /\ text' = text
  BY DEF Release
<1>2. /\ IsCut(text) /\ IsSeen(text, seen) /\ lines = Held(reader) + seen.dropped
      /\ seen.dropped \in 0..MaxDropped /\ seen.dropped \in Nat
  BY MaxDroppedAssumption DEF IInv, IsSeen
<1>3. IsSeen(text, seen') /\ (seen').dropped = seen.dropped
  <2>1. seen' = [index |-> 0, length |-> 0, given |-> <<>>, finished |-> FALSE, dropped |-> seen.dropped]
    BY <1>1 DEF FreshlySeen
  <2>2. 0 \in 0..Len(text.units) /\ 0 \in 0..SBInvalidIndex
    BY <1>2, SBInvalidIndexAssumption DEF IsCut
  <2>3. QED
    BY <1>2, <2>1, <2>2, FreshIsSeen
<1>4. Held(reader') = 0
  BY <1>1 DEF Held, NoReader
<1>5. lines' = seen.dropped
  BY <1>1, <1>2, HeldIs
<1>6. QED
  BY <1>1, <1>2, <1>3, <1>4, <1>5 DEF IInv, IsReader

LEMMA NextHolds == IInv /\ [Next]_vars => IInv'
<1> SUFFICES ASSUME IInv, [Next]_vars PROVE IInv'
  OBVIOUS
<1>1. CASE \E kind \in IteratorKinds : CreateIterator(kind)
  BY <1>1, CreateIteratorHolds
<1>2. CASE \E index \in 0..Length, length \in Lengths(Length) : Reset(index, length)
  BY <1>2, ResetHolds
<1>3. CASE \E k \in DOMAIN text.paragraphs, index \in 0..Length, length \in Lengths(Length) :
             LoadLine(text.paragraphs[k], index, length)
  BY <1>3, LoadLineHolds
<1>4. CASE \E kind \in CopyKinds, index \in 0..Length, length \in Lengths(Length) :
             GetRange(kind, index, length)
  BY <1>4, GetRangeHolds
<1>5. CASE ResetMirrors
  BY <1>5, ResetMirrorsHolds
<1>6. CASE MoveNext
  BY <1>6, MoveNextHolds
<1>7. CASE MoveNextVisual
  BY <1>7, MoveNextVisualHolds
<1>8. CASE MoveNextMirror
  BY <1>8, MoveNextMirrorHolds
<1>9. CASE Release
  BY <1>9, ReleaseHolds
<1>10. CASE UNCHANGED vars
  BY <1>10 DEF vars, IInv
<1>11. QED
  BY <1>1, <1>2, <1>3, <1>4, <1>5, <1>6, <1>7, <1>8, <1>9, <1>10 DEF Next

(* The invariant holds whatever a client asks of its readers: the text is cut  *)
(* into paragraphs, the reader is where its kind may be, and the lines alive   *)
(* are the one that it holds and the ones that resets forgot.                  *)
THEOREM SpecIInv == Spec => []IInv
  BY InitHolds, NextHolds, PTL DEF Spec

(* What a reader holds is a line of a paragraph.                           *)
LEMMA HeldLineIs ==
  ASSUME IInv, HoldsLine
  PROVE  /\ \E p, offset, length : IsLineOf(reader.line, p, offset, length)
         /\ reader.kind = "visual" => reader.index + 1 \in 1..Len(reader.line.runs)
         /\ reader.kind = "mirror" => reader.runIndex + 1 \in 1..Len(reader.line.runs)
<1>1. reader.kind \in {"visual", "mirror"} /\ reader.line # NoLine
  BY DEF HoldsLine
<1>2. CASE reader.kind = "visual"
  <2>1. IsIterator(text, reader)
    BY <1>2, KindOfReader DEF IInv, IteratorKinds
  <2>2. AtVisualRun(text, reader)
    BY <1>1, <1>2, <2>1 DEF IsIterator
  <2>3. QED
    BY <1>2, <2>2 DEF AtVisualRun
<1>3. CASE reader.kind = "mirror"
  <2>1. IsMirror(text, reader)
    BY <1>3, KindOfReader DEF IInv
  <2>2. QED
    BY <1>1, <1>3, <2>1 DEF IsMirror
<1>4. QED
  BY <1>1, <1>2, <1>3

LEMMA TypeHolds == IInv => TypeOK
<1> SUFFICES ASSUME IInv PROVE TypeOK
  OBVIOUS
<1>1. lines \in Nat
  BY MaxDroppedAssumption DEF IInv, IsSeen, Held
<1>2. /\ seen.finished \in BOOLEAN /\ seen.dropped \in 0..MaxDropped
      /\ \A k \in DOMAIN seen.given : seen.given[k].index \in 0..(Length - 1)
  BY DEF IInv, IsSeen, Length
<1>3. ASSUME HoldsLine
      PROVE  /\ reader.kind = "visual" => reader.index + 1 \in DOMAIN reader.line.runs
             /\ reader.kind = "mirror" => reader.runIndex + 1 \in DOMAIN reader.line.runs
  <2>1. reader.line.runs \in Seq(Run)
    BY <1>3, HeldLineIs DEF IsLineOf, IsLine
  <2>2. DOMAIN reader.line.runs = 1..Len(reader.line.runs)
    BY <2>1, LenProperties
  <2>3. QED
    BY <1>3, <2>2, HeldLineIs
<1>4. ASSUME reader.kind \in IteratorKinds
      PROVE  /\ reader.parent.startIndex \in 0..Length \cup {SBInvalidIndex}
             /\ reader.parent.endIndex \in 0..Length \cup {SBInvalidIndex}
             /\ reader.parent.startIndex # reader.parent.endIndex =>
                   reader.parent.paragraphIndex + 1 \in DOMAIN text.paragraphs
             /\ HoldsLine => reader.kind = "visual"
  <2>1. InRange(text, reader.parent)
    BY <1>4, KindOfReader DEF IInv, IsIterator
  <2>2. HoldsLine => reader.kind = "visual"
    BY <1>4 DEF HoldsLine, IteratorKinds
  <2>3. QED
    BY <2>1, <2>2 DEF InRange, IsReady, Length
<1>5. QED
  BY <1>1, <1>2, <1>3, <1>4 DEF TypeOK

(* The indices that SBTextIterators.c and SBMirrorLocator.c use are inside the *)
(* arrays of the text and of the line, and the client is given units of it.    *)
THEOREM SpecTypeOK == Spec => []TypeOK
  BY SpecIInv, TypeHolds, PTL

(* No line that is held has more runs than SBLineCreate allocated for it.      *)
THEOREM SpecRunsFit == Spec => []RunsFit
<1>1. IInv => RunsFit
  BY HeldLineIs, LineIsThere DEF RunsFit
<1>2. QED
  BY <1>1, SpecIInv, PTL

(* The lines alive are the one that the reader holds and the ones that         *)
(* SBVisualRunIteratorReset forgot.                                            *)
THEOREM SpecLinesReleased == Spec => []LinesReleased
<1>1. IInv => LinesReleased
  BY HeldIs DEF IInv, LinesReleased
<1>2. QED
  BY <1>1, SpecIInv, PTL

-----------------------------------------------------------------------------
(* The runs that a range has, as RuledRuns says, of a text t from unit a up *)
(* to unit e.                                                               *)

UnitParagraph(t, i) ==
  CHOOSE p \in {t.paragraphs[k] : k \in DOMAIN t.paragraphs} : i \in p.index..(ParagraphLimit(p) - 1)

UnitValue(t, kind, i) ==
  CASE kind = "paragraph" -> UnitParagraph(t, i).baseLevel
    [] kind \in {"logical", "levels"} -> UnitParagraph(t, i).levels[i - UnitParagraph(t, i).index + 1]
    [] kind \in {"script", "scripts"} -> UnitParagraph(t, i).scripts[i - UnitParagraph(t, i).index + 1]

Begins(t, kind, i) ==
  \/ kind \in CopyKinds
  \/ UnitParagraph(t, i) # UnitParagraph(t, i - 1)
  \/ UnitValue(t, kind, i) # UnitValue(t, kind, i - 1)

RunEnd(t, kind, a, e, i) == Min({e} \cup {j \in a..(e - 1) : i < j /\ Begins(t, kind, j)})

RuledRun(t, kind, a, e, i) == <<i, RunEnd(t, kind, a, e, i) - i, UnitValue(t, kind, i)>>

RuledFrom(f, t, kind, a, e, i) ==
  IF i = e THEN <<>> ELSE <<RuledRun(t, kind, a, e, i)>> \o f[RunEnd(t, kind, a, e, i)]

Ruled(t, kind, a, e) == CHOOSE f : f = [i \in a..e |-> RuledFrom(f, t, kind, a, e, i)]

RuledSet(t, kind, a, e) == {RuledRun(t, kind, a, e, i) : i \in a..(e - 1)}

LEMMA RuledRunsIs == RuledRuns(RuledValue) = Ruled(text, reader.kind, seen.index, AskedEnd)[seen.index]
  BY DEF RuledRuns, RuledValue, Ruled, RuledFrom, RuledRun, RunEnd, Begins, UnitValue, UnitParagraph,
         ParagraphOf, OfUnit, Asked

LEMMA RunEndInRange ==
  ASSUME NEW t, NEW kind, NEW a \in Nat, NEW e \in Nat, NEW i \in a..(e - 1)
  PROVE  RunEnd(t, kind, a, e, i) \in (i + 1)..e
<1>1. PICK S : S = {e} \cup {j \in a..(e - 1) : i < j /\ Begins(t, kind, j)}
  OBVIOUS
<1>2. S \subseteq Nat /\ S # {} /\ \A j \in S : j \in (i + 1)..e
  BY <1>1
<1>3. RunEnd(t, kind, a, e, i) = Min(S)
  BY <1>1 DEF RunEnd
<1>4. QED
  BY <1>2, <1>3, MinIs

(* The first unit after i at which a run begins, or the end.                *)
LEMMA RunEndIs ==
  ASSUME NEW t, NEW kind, NEW a \in Nat, NEW e \in Nat, NEW i \in a..(e - 1), NEW j \in (i + 1)..e,
         \A k \in (i + 1)..(j - 1) : ~Begins(t, kind, k),
         j # e => Begins(t, kind, j)
  PROVE  RunEnd(t, kind, a, e, i) = j
<1>1. PICK S : S = {e} \cup {k \in a..(e - 1) : i < k /\ Begins(t, kind, k)}
  OBVIOUS
<1>2. S \subseteq Nat /\ S # {}
  BY <1>1
<1>3. j \in S
  BY <1>1
<1>4. \A k \in S : j <= k
  <2>1. TAKE k \in S
  <2>2. k \in (i + 1)..e
    BY <1>1
  <2>3. k = e \/ Begins(t, kind, k)
    BY <1>1
  <2>4. k \notin (i + 1)..(j - 1)
    BY <2>2, <2>3
  <2>5. QED
    BY <2>2, <2>4
<1>5. PICK m : m = Min(S)
  OBVIOUS
<1>6. m \in S /\ m \in Nat /\ m <= j
  BY <1>2, <1>3, <1>5, MinIs
<1>7. m = j
  BY <1>4, <1>6
<1>8. QED
  BY <1>1, <1>5, <1>7 DEF RunEnd

LEMMA RuledExists ==
  ASSUME NEW t, NEW kind, NEW a \in Nat, NEW e \in Nat, a <= e
  PROVE  Ruled(t, kind, a, e) = [i \in a..e |-> RuledFrom(Ruled(t, kind, a, e), t, kind, a, e, i)]
<1>1. PICK head : head = [i \in a..(e - 1) |-> RuledRun(t, kind, a, e, i)]
  OBVIOUS
<1>2. PICK next : next = [i \in a..(e - 1) |-> RunEnd(t, kind, a, e, i)]
  OBVIOUS
<1>3. \A i \in a..(e - 1) : next[i] \in (i + 1)..e
  BY <1>2, RunEndInRange
<1>4. PICK f : IsChain(f, a, e, head, next)
  BY <1>3, ChainExists
<1>5. \A i \in a..e : LinkOf(f, e, head, next, i) = RuledFrom(f, t, kind, a, e, i)
  <2>1. TAKE i \in a..e
  <2>2. CASE i = e
    BY <2>2 DEF LinkOf, RuledFrom
  <2>3. CASE i # e
    <3>1. i \in a..(e - 1)
      BY <2>3
    <3>2. head[i] = RuledRun(t, kind, a, e, i) /\ next[i] = RunEnd(t, kind, a, e, i)
      BY <1>1, <1>2, <3>1
    <3>3. QED
      BY <2>3, <3>2 DEF LinkOf, RuledFrom
  <2>4. QED
    BY <2>2, <2>3
<1>6. f = [i \in a..e |-> RuledFrom(f, t, kind, a, e, i)]
  BY <1>4, <1>5 DEF IsChain
<1>7. QED
  BY <1>6 DEF Ruled

IsRuled(f, t, kind, a, e) ==
  /\ f[e] = <<>>
  /\ \A i \in a..(e - 1) : f[i] = <<RuledRun(t, kind, a, e, i)>> \o f[RunEnd(t, kind, a, e, i)]
  /\ \A i \in a..e : f[i] \in Seq(RuledSet(t, kind, a, e))

LEMMA RuledFacts ==
  ASSUME NEW t, NEW kind, NEW a \in Nat, NEW e \in Nat, a <= e,
         NEW f, f = Ruled(t, kind, a, e)
  PROVE  IsRuled(f, t, kind, a, e)
<1>1. f = [i \in a..e |-> RuledFrom(f, t, kind, a, e, i)]
  BY RuledExists
<1>2. \A i \in a..e : f[i] = RuledFrom(f, t, kind, a, e, i)
  BY <1>1
<1>3. f[e] = <<>>
  <2>1. e \in a..e
    OBVIOUS
  <2>2. QED
    BY <1>2, <2>1 DEF RuledFrom
<1>4. \A i \in a..(e - 1) : f[i] = <<RuledRun(t, kind, a, e, i)>> \o f[RunEnd(t, kind, a, e, i)]
  <2>1. \A i \in a..(e - 1) : i \in a..e /\ i # e
    OBVIOUS
  <2>2. QED
    BY <1>2, <2>1 DEF RuledFrom
<1>5. PICK S : S = RuledSet(t, kind, a, e)
  OBVIOUS
<1>6. PICK T : T = {i \in a..e : f[i] \in Seq(S)}
  OBVIOUS
<1>7. e \in T
  <2>1. e \in a..e /\ <<>> \in Seq(S)
    OBVIOUS
  <2>2. QED
    BY <1>3, <1>6, <2>1
<1>8. ASSUME NEW i \in a..(e - 1), \A j \in (i + 1)..e : j \in T PROVE i \in T
  <2>1. PICK j : j = RunEnd(t, kind, a, e, i)
    OBVIOUS
  <2>2. j \in (i + 1)..e
    BY <2>1, RunEndInRange
  <2>3. f[j] \in Seq(S)
    BY <1>6, <1>8, <2>2
  <2>4. PICK x : x = RuledRun(t, kind, a, e, i)
    OBVIOUS
  <2>5. x \in S
    BY <1>5, <2>4 DEF RuledSet
  <2>6. f[i] = <<x>> \o f[j]
    BY <1>4, <2>1, <2>4
  <2>7. f[i] \in Seq(S)
    BY <2>3, <2>5, <2>6, PrependIs
  <2>8. QED
    BY <1>6, <2>7
<1>9. \A i \in a..e : i \in T
  BY <1>7, <1>8, Downwards, SMTT(40)
<1>10. QED
  BY <1>3, <1>4, <1>5, <1>6, <1>9 DEF IsRuled

(* The paragraph of a unit is the one that reaches over it.                 *)
LEMMA UnitParagraphIs ==
  ASSUME NEW t, IsCut(t), NEW k \in DOMAIN t.paragraphs,
         NEW i \in Nat, StartOf(t, k) <= i, i < LimitOf(t, k)
  PROVE  UnitParagraph(t, i) = t.paragraphs[k]
<1>1. PICK S : S = {t.paragraphs[j] : j \in DOMAIN t.paragraphs}
  OBVIOUS
<1>2. DOMAIN t.paragraphs = 1..Len(t.paragraphs)
  BY DEF IsCut
<1>3. \A j \in DOMAIN t.paragraphs :
        /\ StartOf(t, j) \in Nat /\ LimitOf(t, j) \in Nat
        /\ i \in t.paragraphs[j].index..(ParagraphLimit(t.paragraphs[j]) - 1) <=>
              StartOf(t, j) <= i /\ i < LimitOf(t, j)
  <2>1. TAKE j \in DOMAIN t.paragraphs
  <2>2. PICK x \in Nat, z \in Nat : x = StartOf(t, j) /\ z = LimitOf(t, j)
    BY <1>2, CutFacts
  <2>3. t.paragraphs[j].index = x /\ ParagraphLimit(t.paragraphs[j]) = z
    BY <2>2 DEF StartOf, LimitOf
  <2>4. QED
    BY <2>2, <2>3
<1>4. PICK p : p = UnitParagraph(t, i)
  OBVIOUS
<1>5. p \in S /\ i \in p.index..(ParagraphLimit(p) - 1)
  <2>1. t.paragraphs[k] \in S /\ i \in t.paragraphs[k].index..(ParagraphLimit(t.paragraphs[k]) - 1)
    BY <1>1, <1>3
  <2>2. \E q \in S : i \in q.index..(ParagraphLimit(q) - 1)
    BY <2>1
  <2>3. QED
    BY <1>1, <1>4, <2>2 DEF UnitParagraph
<1>6. PICK j \in DOMAIN t.paragraphs : p = t.paragraphs[j]
  BY <1>1, <1>5
<1>7. StartOf(t, j) <= i /\ i < LimitOf(t, j)
  BY <1>3, <1>5, <1>6
<1>8. ~(j < k) /\ ~(k < j)
  <2>1. StartOf(t, j) \in Nat /\ LimitOf(t, j) \in Nat /\ StartOf(t, k) \in Nat /\ LimitOf(t, k) \in Nat
    BY <1>3
  <2>2. ASSUME j < k PROVE FALSE
    BY <1>7, <2>1, <2>2, ParagraphsFollow
  <2>3. ASSUME k < j PROVE FALSE
    BY <1>7, <2>1, <2>3, ParagraphsFollow
  <2>4. QED
    BY <2>2, <2>3
<1>9. j = k
  BY <1>2, <1>8 DEF IsCut
<1>10. QED
  BY <1>4, <1>6, <1>9

(* Unit j is the first after i of another value, or the end z.              *)
IsOneRun(t, kind, i, j, z) ==
  /\ \A u \in i..(j - 1) : UnitValue(t, kind, u) = UnitValue(t, kind, i)
  /\ j # z => UnitValue(t, kind, j) # UnitValue(t, kind, i)

(* A run of one value within a part of a paragraph, from unit i up to unit  *)
(* j, where the value changes or the part ends, is one that was promised.   *)
LEMMA PartRun ==
  ASSUME NEW t, IsCut(t), NEW kind, kind \notin CopyKinds,
         NEW a \in Nat, NEW e \in Nat, e <= Len(t.units),
         NEW k \in DOMAIN t.paragraphs,
         NEW i \in a..(e - 1), NEW z \in (i + 1)..e, StartOf(t, k) <= i, z <= LimitOf(t, k),
         z = LimitOf(t, k) \/ z = e,
         NEW j \in (i + 1)..z, IsOneRun(t, kind, i, j, z)
  PROVE  RunEnd(t, kind, a, e, i) = j
<1>1. PICK x \in Nat, l \in Nat : /\ x = StartOf(t, k) /\ l = LimitOf(t, k)
                                 /\ x <= i /\ z <= l /\ l <= Len(t.units)
  BY CutFacts DEF IsCut
<1>2. \A u \in i..(z - 1) : UnitParagraph(t, u) = t.paragraphs[k]
  <2>1. TAKE u \in i..(z - 1)
  <2>2. u \in Nat /\ x <= u /\ u < l
    BY <1>1
  <2>3. QED
    BY <1>1, <2>2, UnitParagraphIs
<1>3. ASSUME NEW u \in (i + 1)..(j - 1) PROVE ~Begins(t, kind, u)
  <2>1. u \in i..(j - 1) /\ u - 1 \in i..(j - 1) /\ u \in i..(z - 1) /\ u - 1 \in i..(z - 1)
    OBVIOUS
  <2>2. UnitParagraph(t, u) = UnitParagraph(t, u - 1)
    BY <1>2, <2>1
  <2>3. UnitValue(t, kind, u) = UnitValue(t, kind, u - 1)
    BY <2>1 DEF IsOneRun
  <2>4. QED
    BY <2>2, <2>3 DEF Begins
<1>4. ASSUME j # e PROVE Begins(t, kind, j)
  <2>1. CASE j # z
    <3>1. j - 1 \in i..(j - 1)
      OBVIOUS
    <3>2. UnitValue(t, kind, j) # UnitValue(t, kind, j - 1)
      BY <2>1, <3>1 DEF IsOneRun
    <3>3. QED
      BY <3>2 DEF Begins
  <2>2. CASE j = z
    <3>1. j = l /\ j < Len(t.units) /\ j \in Nat
      BY <1>1, <1>4, <2>2 DEF IsCut
    <3>2. PICK m \in DOMAIN t.paragraphs : StartOf(t, m) <= j /\ j < LimitOf(t, m)
      BY <3>1, UnitHasParagraph
    <3>3. UnitParagraph(t, j) = t.paragraphs[m]
      BY <3>1, <3>2, UnitParagraphIs
    <3>4. UnitParagraph(t, j - 1) = t.paragraphs[k]
      <4>1. j - 1 \in i..(z - 1)
        BY <2>2
      <4>2. QED
        BY <1>2, <4>1
    <3>5. t.paragraphs[m] # t.paragraphs[k]
      <4>1. LimitOf(t, m) # LimitOf(t, k)
        BY <1>1, <3>1, <3>2
      <4>2. QED
        BY <4>1 DEF LimitOf
    <3>6. QED
      BY <3>3, <3>4, <3>5 DEF Begins
  <2>3. QED
    BY <2>1, <2>2
<1>5. j \in (i + 1)..e
  OBVIOUS
<1>6. QED
  BY <1>3, <1>4, <1>5, RunEndIs

-----------------------------------------------------------------------------
(* Where the iterators of paragraphs, levels and scripts are in the range.  *)

ReadingKinds == {"paragraph", "logical", "script"}

EndAsked(t, s) == Min({Len(t.units), s.index + s.length})

View(kind, g) ==
  [k \in DOMAIN g |-> <<g[k].index, g[k].length, IF kind = "paragraph" THEN g[k].baseLevel ELSE g[k].value>>]

(* The case that RunsAsPromised excepts.                                    *)
SkipsStart(t, kind, s) ==
  kind = "script" /\ s.index < EndAsked(t, s) /\ UnitParagraph(t, s.index).index # s.index

Cursor(it) ==
  IF it.index = SBInvalidIndex THEN it.parent.startIndex ELSE it.parent.paragraphStart + it.index

(* q is the part of the range up to e that lies in a paragraph, and begins   *)
(* with it if it has to.                                                     *)
IsRangePart(t, whole, q, e) ==
  /\ InRange(t, q) /\ InPart(t, q) /\ q.forwardMode
  /\ q.endIndex = e /\ q.startIndex = q.paragraphEnd /\ q.paragraphEnd <= e
  /\ q.paragraphEnd = LimitOf(t, q.paragraph + 1) \/ q.paragraphEnd = e
  /\ whole => /\ q.paragraphStart = StartOf(t, q.paragraph + 1)
              /\ q.startIndex # e => q.startIndex = StartOf(t, q.paragraphIndex + 1)

(* Before the next part.                                                     *)
IsBeforePart(t, whole, q, e) ==
  /\ q.endIndex = e /\ q.forwardMode
  /\ whole /\ q.startIndex # e => q.startIndex = StartOf(t, q.paragraphIndex + 1)

(* What was given and the runs from unit c on are the runs of the range.     *)
ReadSoFar(t, kind, s, c) ==
  /\ View(kind, s.given) \in Seq(RuledSet(t, kind, s.index, EndAsked(t, s)))
  /\ View(kind, s.given) \o Ruled(t, kind, s.index, EndAsked(t, s))[c] =
        Ruled(t, kind, s.index, EndAsked(t, s))[s.index]

IsPlaced(t, it, s, e) ==
  /\ it.kind = "paragraph" => it.index = SBInvalidIndex
  /\ it.index = SBInvalidIndex =>
        IsBeforePart(t, it.kind = "script" /\ ~SkipsStart(t, it.kind, s), it.parent, e)
  /\ it.index # SBInvalidIndex =>
        IsRangePart(t, it.kind = "script" /\ ~SkipsStart(t, it.kind, s), it.parent, e)
  /\ Cursor(it) \in s.index..e
  /\ s.finished => Cursor(it) = e

IsReading(t, it, s) ==
  IF s.index = EndAsked(t, s)
  THEN /\ it.index = SBInvalidIndex /\ it.parent.startIndex = it.parent.endIndex
       /\ ReadSoFar(t, it.kind, s, s.index)
  ELSE /\ IsPlaced(t, it, s, EndAsked(t, s))
       /\ ~SkipsStart(t, it.kind, s) => ReadSoFar(t, it.kind, s, Cursor(it))

LEMMA EndAskedIs ==
  ASSUME NEW t, IsCut(t), NEW s, s.index \in 0..Len(t.units), s.length \in 0..SBInvalidIndex
  PROVE  /\ EndAsked(t, s) = IF s.index + s.length <= Len(t.units) THEN s.index + s.length ELSE Len(t.units)
         /\ EndAsked(t, s) \in Nat /\ EndAsked(t, s) <= Len(t.units) /\ s.index <= EndAsked(t, s)
         /\ s.index \in Nat
<1>1. PICK n \in Nat, a \in Nat, l \in Nat : n = Len(t.units) /\ a = s.index /\ l = s.length /\ a <= n
  BY SBInvalidIndexAssumption DEF IsCut
<1>2. PICK x \in Nat : x = a + l
  OBVIOUS
<1>3. Min({n, x}) = IF x <= n THEN x ELSE n
  BY Lesser
<1>4. QED
  BY <1>1, <1>2, <1>3 DEF EndAsked

(* The part that a call goes on in.                                          *)
LEMMA PartAhead ==
  ASSUME NEW t, IsCut(t), NEW whole \in BOOLEAN, NEW it, NEW e \in Nat,
         InRange(t, it.parent), it.parent.forwardMode,
         it.index = SBInvalidIndex => IsBeforePart(t, whole, it.parent, e),
         it.index # SBInvalidIndex => AtRun(t, it) /\ IsRangePart(t, whole, it.parent, e),
         ~(it.index = SBInvalidIndex /\ it.parent.startIndex = it.parent.endIndex),
         NEW q, q = RunParent(t, it)
  PROVE  /\ IsRangePart(t, whole, q, e)
         /\ Cursor(it) = q.paragraphStart + RunFrom(it)
         /\ RunFrom(it) \in 0..(PartLength(q) - 1)
<1>1. CASE it.index # SBInvalidIndex
  <2>1. q = it.parent /\ RunFrom(it) = it.index /\ Cursor(it) = q.paragraphStart + it.index
    BY <1>1 DEF RunParent, RunFrom, Cursor
  <2>2. it.index \in Nat /\ it.index < PartLength(q)
    BY <1>1, <2>1 DEF AtRun
  <2>3. PartLength(q) \in Nat
    BY <1>1, <2>1, PartFacts DEF IsRangePart
  <2>4. QED
    BY <1>1, <2>1, <2>2, <2>3
<1>2. CASE it.index = SBInvalidIndex
  <2>1. PICK p : p = it.parent
    OBVIOUS
  <2>2. /\ q = AdvanceTextIterator(t, p).parent /\ RunFrom(it) = 0 /\ Cursor(it) = p.startIndex
        /\ p.startIndex # p.endIndex /\ InRange(t, p) /\ p.forwardMode
        /\ p.endIndex = e /\ (whole /\ p.startIndex # e => p.startIndex = StartOf(t, p.paragraphIndex + 1))
    BY <1>2, <2>1 DEF RunParent, RunFrom, Cursor, IsBeforePart
  <2>3. PICK k : k = p.paragraphIndex + 1
    OBVIOUS
  <2>4. /\ InRange(t, q) /\ q.forwardMode
        /\ q.paragraph = p.paragraphIndex /\ k \in DOMAIN t.paragraphs
        /\ StartOf(t, k) <= q.paragraphStart /\ q.paragraphStart < q.paragraphEnd
        /\ q.paragraphEnd <= LimitOf(t, k)
        /\ q.paragraphEnd = IF LimitOf(t, k) <= p.endIndex THEN LimitOf(t, k) ELSE p.endIndex
        /\ q.paragraphStart = p.startIndex /\ q.startIndex = q.paragraphEnd /\ q.endIndex = p.endIndex
    BY <2>2, <2>3, AdvanceInRange
  <2>5. q.paragraph + 1 = k
    BY <2>3, <2>4
  <2>6. InPart(t, q)
    BY <2>4, <2>5 DEF InPart
  <2>7. /\ PartLength(q) \in Nat \ {0} /\ q.paragraphEnd \in Nat /\ q.paragraphStart \in Nat
    BY <2>4, <2>6, PartFacts
  <2>8. PICK l \in Nat : l = LimitOf(t, k)
    BY <2>4, CutFacts DEF IsCut
  <2>9. q.paragraphEnd <= e /\ (q.paragraphEnd = l \/ q.paragraphEnd = e)
    BY <2>2, <2>4, <2>8
  <2>10. ASSUME q.startIndex # e PROVE q.startIndex = StartOf(t, q.paragraphIndex + 1)
    <3>1. PICK m : m = q.paragraphIndex + 1
      OBVIOUS
    <3>2. q.startIndex = l
      BY <2>4, <2>9, <2>10
    <3>3. m \in DOMAIN t.paragraphs /\ StartOf(t, m) <= l /\ l < LimitOf(t, m)
      BY <2>2, <2>4, <2>10, <3>1, <3>2 DEF InRange, IsReady
    <3>4. DOMAIN t.paragraphs \subseteq Nat /\ StartOf(t, m) \in Nat /\ LimitOf(t, m) \in Nat
          /\ StartOf(t, k) \in Nat /\ StartOf(t, k) < l
      <4>1. DOMAIN t.paragraphs = 1..Len(t.paragraphs) /\ Len(t.paragraphs) \in Nat
        BY DEF IsCut
      <4>2. StartOf(t, m) \in Nat /\ LimitOf(t, m) \in Nat
        BY <3>3, <4>1, CutFacts
      <4>3. StartOf(t, k) \in Nat /\ StartOf(t, k) < LimitOf(t, k)
        BY <2>4, <4>1, CutFacts
      <4>4. QED
        BY <2>8, <4>1, <4>2, <4>3
    <3>5. m # k
      BY <2>8, <3>3, <3>4
    <3>6. ~(m < k)
      <4>1. SUFFICES ASSUME m < k PROVE FALSE
        OBVIOUS
      <4>2. LimitOf(t, m) <= StartOf(t, k)
        BY <2>4, <3>3, <4>1, ParagraphsFollow
      <4>3. QED
        BY <3>3, <3>4, <4>2
    <3>7. k < m
      BY <2>4, <3>3, <3>4, <3>5, <3>6
    <3>8. l <= StartOf(t, m)
      BY <2>4, <2>8, <3>3, <3>7, ParagraphsFollow
    <3>9. QED
      BY <3>1, <3>2, <3>3, <3>4, <3>8
  <2>11. whole => q.paragraphStart = StartOf(t, k)
    BY <2>2, <2>3, <2>4
  <2>12. IsRangePart(t, whole, q, e)
    BY <2>2, <2>4, <2>5, <2>6, <2>8, <2>9, <2>10, <2>11 DEF IsRangePart
  <2>13. 0 \in 0..(PartLength(q) - 1) /\ q.paragraphStart + 0 = q.paragraphStart
    BY <2>7
  <2>14. QED
    BY <2>2, <2>4, <2>12, <2>13
<1>3. QED
  BY <1>1, <1>2

LEMMA AppendedBefore ==
  ASSUME NEW S, NEW v \in Seq(S), NEW x \in S, NEW z \in Seq(S)
  PROVE  Append(v, x) \in Seq(S) /\ Append(v, x) \o z = v \o (<<x>> \o z)
<1>1. Append(v, x) = v \o <<x>> /\ Append(v, x) \in Seq(S)
  BY AppendIsConcat, AppendProperties
<1>2. <<x>> \in Seq(S)
  OBVIOUS
<1>3. (v \o <<x>>) \o z = v \o (<<x>> \o z)
  BY <1>2, ConcatAssociative
<1>4. QED
  BY <1>1, <1>3

(* What is seen with one more run.                                          *)
LEMMA ReadOneMore ==
  ASSUME NEW t, NEW kind, NEW s, IsSeq(s.given), NEW a \in Nat, NEW e \in Nat,
         a = s.index, e = EndAsked(t, s),
         NEW i \in a..(e - 1), ReadSoFar(t, kind, s, i),
         NEW j, j = RunEnd(t, kind, a, e, i),
         NEW run, run.index = i, run.length = j - i,
         (IF kind = "paragraph" THEN run.baseLevel ELSE run.value) = UnitValue(t, kind, i),
         NEW r, r.index = a, EndAsked(t, r) = e, r.given = Append(s.given, run)
  PROVE  ReadSoFar(t, kind, r, j)
<1>1. PICK f, S : f = Ruled(t, kind, a, e) /\ S = RuledSet(t, kind, a, e)
  OBVIOUS
<1>2. PICK g : g = s.given
  OBVIOUS
<1>3. PICK v : v = View(kind, g)
  OBVIOUS
<1>4. v \in Seq(S) /\ v \o f[i] = f[a]
  BY <1>1, <1>2, <1>3 DEF ReadSoFar
<1>5. PICK x : x = RuledRun(t, kind, a, e, i)
  OBVIOUS
<1>6. x \in S
  BY <1>1, <1>5 DEF RuledSet
<1>7. f[i] = <<x>> \o f[j] /\ f[j] \in Seq(S)
  <2>1. a <= e /\ j \in a..e
    BY RunEndInRange
  <2>2. /\ \A k \in a..(e - 1) : f[k] = <<RuledRun(t, kind, a, e, k)>> \o f[RunEnd(t, kind, a, e, k)]
        /\ \A k \in a..e : f[k] \in Seq(RuledSet(t, kind, a, e))
    <3>1. f = Ruled(t, kind, a, e) /\ a <= e
      BY <1>1, <2>1
    <3>2. IsRuled(f, t, kind, a, e)
      BY <3>1, RuledFacts
    <3>3. QED
      BY <3>2 DEF IsRuled
  <2>3. QED
    BY <1>1, <1>5, <2>1, <2>2
<1>8. View(kind, Append(g, run)) = Append(v, x)
  <2>1. PICK h, n : h = Append(g, run) /\ n = Len(g)
    OBVIOUS
  <2>2. /\ n \in Nat /\ DOMAIN g = 1..n /\ DOMAIN h = 1..(n + 1)
        /\ \A k \in 1..n : h[k] = g[k]
        /\ h[n + 1] = run
    BY <1>2, <2>1, AppendSeq
  <2>3. PICK w : w = View(kind, h)
    OBVIOUS
  <2>4. /\ DOMAIN v = 1..n /\ DOMAIN w = 1..(n + 1)
        /\ \A k \in 1..n : w[k] = v[k]
    BY <1>3, <2>2, <2>3, SMTT(40) DEF View
  <2>5. w[n + 1] = x
    <3>1. w[n + 1] = <<h[n + 1].index, h[n + 1].length,
                       IF kind = "paragraph" THEN h[n + 1].baseLevel ELSE h[n + 1].value>>
      BY <2>2, <2>3 DEF View
    <3>2. w[n + 1] = <<i, j - i, UnitValue(t, kind, i)>>
      BY <2>2, <3>1
    <3>3. QED
      BY <1>5, <3>2 DEF RuledRun
  <2>6. Len(v) = n
    BY <1>4, <2>2, <2>4, LenProperties
  <2>7. PICK y : y = Append(v, x)
    OBVIOUS
  <2>8. /\ y \in Seq(S) /\ Len(y) = n + 1
        /\ \A k \in 1..n : y[k] = v[k]
        /\ y[n + 1] = x
    BY <1>4, <1>6, <2>6, <2>7, AppendProperties
  <2>9. DOMAIN y = 1..(n + 1)
    BY <2>8, LenProperties
  <2>10. w = [k \in 1..(n + 1) |-> w[k]]
    BY <2>3, <2>4 DEF View
  <2>11. y = [k \in 1..(n + 1) |-> y[k]]
    BY <2>8
  <2>12. \A k \in 1..(n + 1) : w[k] = y[k]
    <3>1. TAKE k \in 1..(n + 1)
    <3>2. k \in 1..n \/ k = n + 1
      BY <2>2
    <3>3. QED
      BY <2>4, <2>5, <2>8, <3>2
  <2>13. w = y
    BY <2>10, <2>11, <2>12
  <2>14. QED
    BY <2>1, <2>3, <2>7, <2>13
<1>9. Append(v, x) \in Seq(S) /\ Append(v, x) \o f[j] = f[a]
  <2>1. PICK z : z = f[j]
    OBVIOUS
  <2>2. z \in Seq(S)
    BY <1>7, <2>1
  <2>3. Append(v, x) \in Seq(S) /\ Append(v, x) \o z = v \o (<<x>> \o z)
    BY <1>4, <1>6, <2>2, AppendedBefore, SMTT(40)
  <2>4. QED
    BY <1>4, <1>7, <2>1, <2>3
<1>10. View(kind, r.given) = Append(v, x)
  BY <1>2, <1>8
<1>11. QED
  BY <1>1, <1>9, <1>10 DEF ReadSoFar
-----------------------------------------------------------------------------
(* A reset begins at the start of the range.                                 *)

LEMMA EmptyView == \A kind : View(kind, <<>>) = <<>>
<1>1. TAKE kind
<1>2. DOMAIN <<>> = {}
  BY EmptyIsSeq
<1>3. QED
  BY <1>2 DEF View

LEMMA NothingRead ==
  ASSUME NEW t, NEW kind, NEW s, s.given = <<>>, NEW a \in Nat, NEW e \in Nat, a <= e,
         a = s.index, e = EndAsked(t, s)
  PROVE  ReadSoFar(t, kind, s, a)
<1>1. PICK f, S : f = Ruled(t, kind, a, e) /\ S = RuledSet(t, kind, a, e)
  OBVIOUS
<1>2. f[a] \in Seq(S)
  <2>1. IsRuled(f, t, kind, a, e)
    BY <1>1, RuledFacts
  <2>2. a \in a..e
    OBVIOUS
  <2>3. QED
    BY <1>1, <2>1, <2>2 DEF IsRuled
<1>3. <<>> \in Seq(S)
  OBVIOUS
<1>4. PICK z : z = f[a]
  OBVIOUS
<1>5. <<>> \o z = z
  BY <1>2, <1>4, ConcatEmptySeq
<1>6. View(kind, s.given) = <<>>
  BY EmptyView
<1>7. QED
  BY <1>1, <1>3, <1>4, <1>5, <1>6 DEF ReadSoFar

LEMMA ResetReads ==
  ASSUME NEW t, IsCut(t), NEW kind \in ReadingKinds,
         NEW index \in 0..Len(t.units), NEW length \in 0..SBInvalidIndex,
         NEW it, it = ResetIterator(t, kind, index, length),
         NEW s, s.index = index, s.length = length, s.given = <<>>, s.finished = FALSE
  PROVE  IsReading(t, it, s)
<1>1. PICK q : q = ResetTextIterator(t, FALSE, index, length)
  OBVIOUS
<1>2. kind # "visual"
  BY DEF ReadingKinds
<1>3. it.kind = kind /\ it.index = SBInvalidIndex /\ it.parent = q
  BY <1>1, <1>2 DEF ResetIterator
<1>4. PICK e \in Nat : e = EndAsked(t, s)
  BY EndAskedIs
<1>5. PICK n \in Nat : n = Len(t.units)
  BY SBInvalidIndexAssumption DEF IsCut
<1>6. index \in Nat /\ length \in Nat /\ index <= n /\ index <= e
      /\ e = IF index + length <= n THEN index + length ELSE n
  BY <1>4, <1>5, EndAskedIs, SBInvalidIndexAssumption
<1>7. /\ InRange(t, q) /\ q.forwardMode
      /\ IF index = n \/ length = 0 THEN q.startIndex = q.endIndex
         ELSE q.startIndex = index /\ q.endIndex = IF index + length <= n THEN index + length ELSE n
  <2>1. PICK mode \in BOOLEAN : mode = FALSE
    OBVIOUS
  <2>2. q = ResetTextIterator(t, mode, index, length)
    BY <1>1, <2>1
  <2>3. /\ InRange(t, q)
        /\ ~mode => q.forwardMode
        /\ IF index = Len(t.units) \/ length = 0 THEN q.startIndex = q.endIndex
           ELSE /\ q.startIndex = index
                /\ q.endIndex = IF index + length <= Len(t.units) THEN index + length ELSE Len(t.units)
    BY <2>2, ResetInRange
  <2>4. QED
    BY <1>5, <2>1, <2>3
<1>8. ReadSoFar(t, kind, s, index)
  BY <1>4, <1>6, NothingRead
<1>9. CASE index = e
  <2>1. index = n \/ length = 0
    BY <1>6, <1>9
  <2>2. q.startIndex = q.endIndex
    BY <1>7, <2>1
  <2>3. QED
    BY <1>3, <1>4, <1>8, <1>9, <2>2 DEF IsReading
<1>10. CASE index # e
  <2>1. ~(index = n \/ length = 0)
    BY <1>6, <1>10
  <2>2. q.startIndex = index /\ q.endIndex = e
    BY <1>6, <1>7, <2>1
  <2>3. Cursor(it) = index
    BY <1>3, <2>2 DEF Cursor
  <2>4. ASSUME ~SkipsStart(t, kind, s), kind = "script" PROVE index = StartOf(t, q.paragraphIndex + 1)
    <3>1. PICK k : k = q.paragraphIndex + 1
      OBVIOUS
    <3>2. k \in DOMAIN t.paragraphs /\ StartOf(t, k) <= index /\ index < LimitOf(t, k)
      BY <1>7, <1>10, <2>2, <3>1 DEF InRange, IsReady
    <3>3. UnitParagraph(t, index) = t.paragraphs[k]
      BY <1>6, <3>2, UnitParagraphIs
    <3>4. index < e
      BY <1>6, <1>10
    <3>5. t.paragraphs[k].index = index
      BY <1>4, <2>4, <3>3, <3>4 DEF SkipsStart
    <3>6. QED
      BY <3>1, <3>5 DEF StartOf
  <2>5. IsBeforePart(t, kind = "script" /\ ~SkipsStart(t, kind, s), q, e)
    BY <1>7, <2>2, <2>4 DEF IsBeforePart
  <2>6. index \in index..e
    BY <1>6
  <2>7. IsPlaced(t, it, s, e)
    BY <1>3, <2>3, <2>5, <2>6 DEF IsPlaced
  <2>8. QED
    BY <1>3, <1>4, <1>8, <1>10, <2>3, <2>7 DEF IsReading
<1>11. QED
  BY <1>9, <1>10
-----------------------------------------------------------------------------
(* A move goes on by one run.                                                *)

LEMMA PartValue ==
  ASSUME NEW t, IsCut(t), NEW kind \in {"logical", "script"}, NEW q, InRange(t, q), InPart(t, q),
         kind = "script" => q.paragraphStart = StartOf(t, q.paragraph + 1),
         NEW k \in 0..(PartLength(q) - 1)
  PROVE  Values(t, kind, q)[k] = UnitValue(t, kind, q.paragraphStart + k)
<1>1. PICK x, c, l : x = q.paragraphStart /\ c = q.paragraph + 1 /\ l = PartLength(q)
  OBVIOUS
<1>2. PICK p : p = t.paragraphs[c]
  OBVIOUS
<1>3. /\ c \in DOMAIN t.paragraphs /\ StartOf(t, c) <= x /\ x < q.paragraphEnd /\ q.paragraphEnd <= LimitOf(t, c)
  BY <1>1 DEF InPart
<1>4. x \in Nat /\ l \in Nat /\ x + l = q.paragraphEnd /\ q.paragraphEnd \in Nat
  BY <1>1, PartFacts
<1>5. PICK b \in Nat, z \in Nat : b = StartOf(t, c) /\ z = LimitOf(t, c)
  BY <1>3, CutFacts DEF IsCut
<1>6. x + k \in Nat /\ b <= x + k /\ x + k < z
  BY <1>1, <1>3, <1>4, <1>5
<1>7. UnitParagraph(t, x + k) = p
  BY <1>2, <1>3, <1>5, <1>6, UnitParagraphIs
<1>8. p.index = b
  BY <1>2, <1>5 DEF StartOf
<1>9. CASE kind = "logical"
  <2>1. Values(t, kind, q)[k] = LevelAt(t, q, k)
    BY <1>9 DEF Values
  <2>2. LevelAt(t, q, k) = p.levels[x - b + k + 1]
    BY <1>1, <1>2, <1>8 DEF LevelAt, CurrentParagraph
  <2>3. x - b + k + 1 = (x + k) - b + 1
    BY <1>4, <1>5
  <2>4. UnitValue(t, kind, x + k) = p.levels[(x + k) - b + 1]
    BY <1>7, <1>8, <1>9 DEF UnitValue
  <2>5. QED
    BY <1>1, <2>1, <2>2, <2>3, <2>4
<1>10. CASE kind = "script"
  <2>1. Values(t, kind, q)[k] = ScriptAt(t, q, k)
    BY <1>10 DEF Values
  <2>2. ScriptAt(t, q, k) = p.scripts[k + 1]
    BY <1>1, <1>2 DEF ScriptAt, CurrentParagraph
  <2>3. k + 1 = (x + k) - b + 1
    BY <1>1, <1>4, <1>5, <1>10
  <2>4. UnitValue(t, kind, x + k) = p.scripts[(x + k) - b + 1]
    BY <1>7, <1>8, <1>10 DEF UnitValue
  <2>5. QED
    BY <1>1, <2>1, <2>2, <2>3, <2>4
<1>11. QED
  BY <1>9, <1>10

(* r is what is seen after a move that the reader s was seen before.        *)
IsSeenWith(r, s, run, found) ==
  /\ r.index = s.index /\ r.length = s.length /\ r.finished = ~found
  /\ ~found => r.given = s.given
  /\ found => r.given = Append(IF s.finished THEN <<>> ELSE s.given, run)

(* The end is reported at the end of the range.                             *)
LEMMA EndReads ==
  ASSUME NEW t, NEW it, NEW s, IsReading(t, it, s),
         it.index = SBInvalidIndex, it.parent.startIndex = it.parent.endIndex,
         NEW e, e = EndAsked(t, s),
         NEW next, next.kind = it.kind, next.parent = it.parent, next.index = it.index,
         NEW r, r.index = s.index, r.length = s.length, r.given = s.given
  PROVE  IsReading(t, next, r)
<1>1. EndAsked(t, r) = e
  BY DEF EndAsked
<1>2. \A c : ReadSoFar(t, it.kind, r, c) <=> ReadSoFar(t, it.kind, s, c)
  BY <1>1 DEF ReadSoFar
<1>3. SkipsStart(t, it.kind, r) <=> SkipsStart(t, it.kind, s)
  BY <1>1 DEF SkipsStart
<1>4. Cursor(next) = Cursor(it)
  BY DEF Cursor
<1>5. CASE s.index = e
  BY <1>1, <1>2, <1>5 DEF IsReading
<1>6. CASE s.index # e
  <2>1. IsPlaced(t, it, s, e) /\ (~SkipsStart(t, it.kind, s) => ReadSoFar(t, it.kind, s, Cursor(it)))
    BY <1>6 DEF IsReading
  <2>2. Cursor(it) = e
    BY <2>1 DEF Cursor, IsPlaced, IsBeforePart
  <2>3. IsPlaced(t, next, r, e)
    BY <1>3, <1>4, <2>1, <2>2 DEF IsPlaced
  <2>4. QED
    BY <1>1, <1>2, <1>3, <1>4, <1>6, <2>1, <2>3 DEF IsReading
<1>7. QED
  BY <1>5, <1>6
(* A run is found, from unit i up to unit j.                                *)
LEMMA RunReads ==
  ASSUME NEW t, IsCut(t), NEW it, NEW s, IsReading(t, it, s), IsSeq(s.given),
         it.kind \in ReadingKinds,
         NEW a \in Nat, a = s.index, NEW e \in Nat, e = EndAsked(t, s), a # e, e <= Len(t.units),
         NEW whole \in BOOLEAN, whole = (it.kind = "script" /\ ~SkipsStart(t, it.kind, s)),
         NEW q, IsRangePart(t, whole, q, e),
         NEW i \in Nat, i = Cursor(it), q.paragraphStart <= i, i < q.paragraphEnd,
         NEW j \in Nat, i < j, j <= q.paragraphEnd,
         ~SkipsStart(t, it.kind, s) => IsOneRun(t, it.kind, i, j, q.paragraphEnd),
         NEW next, next.kind = it.kind, next.parent = q, Cursor(next) = j,
         j = q.paragraphEnd => next.index = SBInvalidIndex,
         it.kind = "paragraph" => next.index = SBInvalidIndex,
         NEW run, run.index = i, run.length = j - i,
         ~SkipsStart(t, it.kind, s) =>
           (IF it.kind = "paragraph" THEN run.baseLevel ELSE run.value) = UnitValue(t, it.kind, i),
         NEW r, IsSeenWith(r, s, run, TRUE)
  PROVE  IsReading(t, next, r)
<1>1. /\ r.index = a /\ r.finished = FALSE /\ EndAsked(t, r) = e
      /\ r.given = Append(IF s.finished THEN <<>> ELSE s.given, run)
  BY DEF IsSeenWith, EndAsked
<1>2. IsPlaced(t, it, s, e) /\ (~SkipsStart(t, it.kind, s) => ReadSoFar(t, it.kind, s, i))
  BY DEF IsReading
<1>3. SkipsStart(t, it.kind, r) <=> SkipsStart(t, it.kind, s)
  BY <1>1 DEF SkipsStart
<1>4. /\ InRange(t, q) /\ InPart(t, q) /\ q.forwardMode
      /\ q.endIndex = e /\ q.startIndex = q.paragraphEnd /\ q.paragraphEnd <= e
      /\ q.paragraphEnd = LimitOf(t, q.paragraph + 1) \/ q.paragraphEnd = e
  BY DEF IsRangePart
<1>5. PICK x \in Nat, z \in Nat : x = q.paragraphStart /\ z = q.paragraphEnd /\ z <= e
  BY <1>4, PartFacts
<1>6. i \in a..e
  BY <1>2 DEF IsPlaced
<1>7. i \in a..(e - 1) /\ j \in a..e /\ i # e
  BY <1>5, <1>6
<1>8. s.finished => Cursor(it) = e
  BY <1>2 DEF IsPlaced
<1>9. r.given = Append(s.given, run)
  BY <1>1, <1>7, <1>8
<1>10. IsPlaced(t, next, r, e)
  <2>1. IsBeforePart(t, whole, q, e)
    BY <1>4 DEF IsBeforePart, IsRangePart
  <2>2. Cursor(next) \in r.index..e
    BY <1>1, <1>7
  <2>3. whole = (next.kind = "script" /\ ~SkipsStart(t, next.kind, r))
    BY <1>3
  <2>4. QED
    BY <1>1, <2>1, <2>2, <2>3 DEF IsPlaced
<1>11. ASSUME ~SkipsStart(t, it.kind, s) PROVE ReadSoFar(t, it.kind, r, j)
  <2>1. PICK k : k = q.paragraph + 1
    OBVIOUS
  <2>2. k \in DOMAIN t.paragraphs /\ StartOf(t, k) <= x /\ x < z /\ z <= LimitOf(t, k)
    BY <1>4, <1>5, <2>1 DEF InPart
  <2>3. z = LimitOf(t, k) \/ z = e
    BY <1>4, <1>5, <2>1
  <2>4. StartOf(t, k) \in Nat
    BY <2>2, CutFacts DEF IsCut
  <2>5. StartOf(t, k) <= i /\ z \in (i + 1)..e /\ j \in (i + 1)..z
    BY <1>5, <2>2, <2>4, SMTT(40)
  <2>6. it.kind \notin CopyKinds
    BY DEF ReadingKinds, CopyKinds
  <2>7. PICK kind : kind = it.kind
    OBVIOUS
  <2>8. IsOneRun(t, kind, i, j, z)
    BY <1>5, <1>11, <2>7
  <2>9. RunEnd(t, kind, a, e, i) = j
    <3>1. kind \notin CopyKinds
      BY <2>6, <2>7
    <3>2. i \in a..(e - 1)
      BY <1>7
    <3>3. k \in DOMAIN t.paragraphs /\ z <= LimitOf(t, k) /\ (z = LimitOf(t, k) \/ z = e)
      BY <2>2, <2>3
    <3>4. StartOf(t, k) <= i /\ z \in (i + 1)..e /\ j \in (i + 1)..z
      BY <2>5
    <3>5. QED
      BY <2>8, <3>1, <3>2, <3>3, <3>4, PartRun
  <2>10. ReadSoFar(t, kind, s, i)
    BY <1>2, <1>11, <2>7
  <2>11. (IF kind = "paragraph" THEN run.baseLevel ELSE run.value) = UnitValue(t, kind, i)
    BY <1>11, <2>7
  <2>12. QED
    BY <1>1, <1>7, <1>9, <2>7, <2>9, <2>10, <2>11, ReadOneMore, SMTT(40)
<1>12. QED
  BY <1>1, <1>3, <1>10, <1>11 DEF IsReading
LEMMA RunMoveReads ==
  ASSUME NEW t, IsCut(t), NEW it, IsIterator(t, it), it.kind \in {"logical", "script"},
         NEW s, IsSeen(t, s), IsReading(t, it, s),
         NEW moved, moved = IF it.kind = "logical" THEN LogicalMoveNext(t, it) ELSE ScriptMoveNext(t, it),
         NEW r, IsSeenWith(r, s, moved.iterator.current, moved.found)
  PROVE  IsReading(t, moved.iterator, r)
<1>1. IsRunMove(t, it, moved)
  BY RunMoves
<1>2. InRange(t, it.parent) /\ it.parent.forwardMode /\ (it.index = SBInvalidIndex \/ AtRun(t, it))
  BY DEF IsIterator
<1>3. PICK a \in Nat, e \in Nat : a = s.index /\ e = EndAsked(t, s) /\ a <= e /\ e <= Len(t.units)
  BY EndAskedIs DEF IsSeen
<1>4. CASE it.index = SBInvalidIndex /\ it.parent.startIndex = it.parent.endIndex
  <2>1. moved = [iterator |-> [kind |-> it.kind, parent |-> it.parent, index |-> it.index,
                               current |-> NoRun, line |-> it.line],
                 found |-> FALSE]
    BY <1>1, <1>4 DEF IsRunMove
  <2>2. /\ moved.iterator.kind = it.kind /\ moved.iterator.parent = it.parent
        /\ moved.iterator.index = it.index /\ moved.found = FALSE
    BY <2>1
  <2>3. r.index = s.index /\ r.length = s.length /\ r.given = s.given
    BY <2>2 DEF IsSeenWith
  <2>4. QED
    BY <1>3, <1>4, <2>2, <2>3, EndReads
<1>5. CASE ~(it.index = SBInvalidIndex /\ it.parent.startIndex = it.parent.endIndex)
  <2>1. PICK q, from, end, vals :
          /\ q = RunParent(t, it) /\ from = RunFrom(it) /\ vals = Values(t, it.kind, q)
          /\ InRange(t, q) /\ InPart(t, q) /\ q.forwardMode
          /\ from \in 0..(PartLength(q) - 1) /\ end \in (from + 1)..PartLength(q)
          /\ RunStart(it) = q.paragraphStart + from
          /\ \A k \in from..(end - 1) : vals[k] = vals[from]
          /\ end # PartLength(q) => vals[end] # vals[from]
          /\ moved = [iterator |-> NextRun(it, q, from, end, vals), found |-> TRUE]
    BY <1>1, <1>5 DEF IsRunMove
  <2>2. a # e
    BY <1>3, <1>5 DEF IsReading
  <2>3. IsPlaced(t, it, s, e)
    BY <1>3, <2>2 DEF IsReading
  <2>4. PICK whole \in BOOLEAN : whole = (it.kind = "script" /\ ~SkipsStart(t, it.kind, s))
    OBVIOUS
  <2>5. /\ IsRangePart(t, whole, q, e)
        /\ Cursor(it) = q.paragraphStart + RunFrom(it)
    <3>1. it.index = SBInvalidIndex => IsBeforePart(t, whole, it.parent, e)
      BY <2>3, <2>4 DEF IsPlaced
    <3>2. it.index # SBInvalidIndex => AtRun(t, it) /\ IsRangePart(t, whole, it.parent, e)
      BY <1>2, <2>3, <2>4 DEF IsPlaced
    <3>3. q = RunParent(t, it)
      BY <2>1
    <3>4. InRange(t, it.parent) /\ it.parent.forwardMode
      BY <1>2
    <3>5. QED
      BY <1>5, <3>1, <3>2, <3>3, <3>4, PartAhead
  <2>6. PICK x \in Nat, l \in Nat : /\ x = q.paragraphStart /\ l = PartLength(q) /\ x + l = q.paragraphEnd
                                   /\ l <= SBInvalidIndex
    <3>1. PartLength(q) \in Nat /\ q.paragraphStart \in Nat /\ q.paragraphStart + PartLength(q) = q.paragraphEnd
          /\ q.paragraphEnd <= Len(t.units) /\ Len(t.units) \in 0..SBInvalidIndex
      BY <2>1, PartFacts
    <3>2. PartLength(q) <= SBInvalidIndex
      BY <3>1, SBInvalidIndexAssumption
    <3>3. QED
      BY <3>1, <3>2
  <2>7. from \in Nat /\ end \in Nat /\ from < end /\ end <= l
    BY <2>1, <2>6
  <2>8. PICK i \in Nat, j \in Nat : i = x + from /\ j = x + end
    BY <2>6, <2>7
  <2>9. i = Cursor(it) /\ x <= i /\ i < x + l /\ i < j /\ j <= x + l /\ (j = x + l <=> end = l)
    BY <2>1, <2>5, <2>6, <2>7, <2>8
  <2>10. PICK next, run : next = moved.iterator /\ run = next.current
    OBVIOUS
  <2>11. /\ next.kind = it.kind /\ next.parent = q
         /\ next.index = IF end = l THEN SBInvalidIndex ELSE end
         /\ run.index = x + from /\ run.length = end - from /\ run.value = vals[from]
         /\ moved.found = TRUE
    BY <2>1, <2>6, <2>10 DEF NextRun
  <2>12. Cursor(next) = j
    <3>1. CASE end = l
      <4>1. q.startIndex = x + l
        BY <2>5, <2>6 DEF IsRangePart
      <4>2. QED
        BY <2>8, <2>11, <3>1, <4>1 DEF Cursor
    <3>2. CASE end # l
      <4>1. end # SBInvalidIndex
        BY <2>6, <2>7, <3>2, SBInvalidIndexAssumption
      <4>2. QED
        BY <2>6, <2>8, <2>11, <3>2, <4>1 DEF Cursor
    <3>3. QED
      BY <3>1, <3>2
  <2>13. run.length = j - i /\ run.index = i
    BY <2>6, <2>7, <2>8, <2>11
  <2>14. ASSUME ~SkipsStart(t, it.kind, s)
         PROVE  IsOneRun(t, it.kind, i, j, x + l) /\ run.value = UnitValue(t, it.kind, i)
    <3>1. it.kind = "script" => q.paragraphStart = StartOf(t, q.paragraph + 1)
      BY <2>4, <2>5, <2>14 DEF IsRangePart
    <3>2. \A k \in 0..(l - 1) : vals[k] = UnitValue(t, it.kind, x + k)
      BY <2>1, <2>6, <3>1, PartValue
    <3>3. vals[from] = UnitValue(t, it.kind, i)
      BY <2>7, <2>8, <3>2
    <3>4. ASSUME NEW u \in i..(j - 1) PROVE UnitValue(t, it.kind, u) = UnitValue(t, it.kind, i)
      <4>1. PICK k \in Nat : u = x + k /\ k \in from..(end - 1) /\ k \in 0..(l - 1)
        <5>1. u - x \in Nat /\ u = x + (u - x) /\ u - x \in from..(end - 1) /\ u - x \in 0..(l - 1)
          BY <2>6, <2>7, <2>8, <3>4
        <5>2. QED
          BY <5>1
      <4>2. vals[k] = vals[from]
        BY <2>1, <4>1
      <4>3. QED
        BY <3>2, <3>3, <4>1, <4>2
    <3>5. ASSUME j # x + l PROVE UnitValue(t, it.kind, j) # UnitValue(t, it.kind, i)
      <4>1. end \in 0..(l - 1) /\ end # l
        BY <2>7, <2>9, <3>5
      <4>2. vals[end] # vals[from]
        BY <2>1, <2>6, <4>1
      <4>3. QED
        BY <2>8, <3>2, <3>3, <4>1, <4>2
    <3>6. QED
      BY <2>11, <3>3, <3>4, <3>5 DEF IsOneRun
  <2>15. IsSeenWith(r, s, run, TRUE)
    BY <2>10, <2>11
  <2>16. it.kind \in ReadingKinds /\ it.kind # "paragraph" /\ IsSeq(s.given)
    BY DEF ReadingKinds, IsSeen
  <2>17. IsReading(t, next, r)
    <3>1. q.paragraphStart <= i /\ i < q.paragraphEnd /\ j <= q.paragraphEnd
      BY <2>6, <2>9
    <3>2. ~SkipsStart(t, it.kind, s) => IsOneRun(t, it.kind, i, j, q.paragraphEnd)
      BY <2>6, <2>14
    <3>3. j = q.paragraphEnd => next.index = SBInvalidIndex
      BY <2>6, <2>9, <2>11
    <3>4. ~SkipsStart(t, it.kind, s) =>
            (IF it.kind = "paragraph" THEN run.baseLevel ELSE run.value) = UnitValue(t, it.kind, i)
      BY <2>14, <2>16
    <3>5. a = s.index /\ e = EndAsked(t, s) /\ a # e /\ e <= Len(t.units) /\ IsSeq(s.given)
          /\ it.kind \in ReadingKinds /\ i = Cursor(it) /\ i < j
      BY <1>3, <2>2, <2>9, <2>16
    <3>6. next.kind = it.kind /\ next.parent = q /\ Cursor(next) = j
          /\ (it.kind = "paragraph" => next.index = SBInvalidIndex)
          /\ run.index = i /\ run.length = j - i
      BY <2>11, <2>12, <2>13, <2>16
    <3>7. IsRangePart(t, whole, q, e)
      BY <2>5
    <3>8. QED
      BY <2>4, <2>15, <3>1, <3>2, <3>3, <3>4, <3>5, <3>6, <3>7, RunReads, ZenonT(60)
  <2>18. QED
    BY <2>10, <2>17
<1>6. QED
  BY <1>4, <1>5
LEMMA ParagraphMoveReads ==
  ASSUME NEW t, IsCut(t), NEW it, IsIterator(t, it), it.kind = "paragraph",
         NEW s, IsSeen(t, s), IsReading(t, it, s),
         NEW moved, moved = ParagraphMoveNext(t, it),
         NEW r, IsSeenWith(r, s, moved.iterator.current, moved.found)
  PROVE  IsReading(t, moved.iterator, r)
<1>1. IsParagraphMove(t, it, moved)
  BY ParagraphMoves
<1>2. InRange(t, it.parent) /\ it.parent.forwardMode
  BY DEF IsIterator
<1>3. PICK a \in Nat, e \in Nat : a = s.index /\ e = EndAsked(t, s) /\ a <= e /\ e <= Len(t.units)
  BY EndAskedIs, SMTT(40) DEF IsSeen
<1>4. it.index = SBInvalidIndex
  BY <1>3 DEF IsReading, IsPlaced
<1>5. CASE it.parent.startIndex = it.parent.endIndex
  <2>1. moved = [iterator |-> it, found |-> FALSE]
    BY <1>1, <1>5 DEF IsParagraphMove
  <2>2. moved.iterator = it /\ moved.found = FALSE
    BY <2>1
  <2>3. r.index = s.index /\ r.length = s.length /\ r.given = s.given
    BY <2>2 DEF IsSeenWith
  <2>4. QED
    BY <1>3, <1>4, <1>5, <2>2, <2>3, EndReads
<1>6. CASE it.parent.startIndex # it.parent.endIndex
  <2>1. PICK q : /\ q = AdvanceTextIterator(t, it.parent).parent
                 /\ InRange(t, q) /\ InPart(t, q) /\ q.forwardMode
                 /\ q.paragraphStart = it.parent.startIndex
                 /\ moved = [iterator |-> [kind |-> it.kind, parent |-> q, index |-> it.index,
                               current |-> [index |-> q.paragraphStart, length |-> PartLength(q),
                                            baseLevel |-> t.paragraphs[q.paragraph + 1].baseLevel],
                               line |-> it.line],
                             found |-> TRUE]
    BY <1>1, <1>6 DEF IsParagraphMove
  <2>2. a # e
    BY <1>3, <1>6 DEF IsReading
  <2>3. IsPlaced(t, it, s, e)
    BY <1>3, <2>2 DEF IsReading
  <2>4. PICK whole \in BOOLEAN : whole = (it.kind = "script" /\ ~SkipsStart(t, it.kind, s))
    OBVIOUS
  <2>5. /\ IsRangePart(t, whole, q, e)
        /\ Cursor(it) = q.paragraphStart + RunFrom(it)
    <3>1. it.index = SBInvalidIndex => IsBeforePart(t, whole, it.parent, e)
      BY <2>3, <2>4 DEF IsPlaced
    <3>2. it.index # SBInvalidIndex => AtRun(t, it) /\ IsRangePart(t, whole, it.parent, e)
      BY <1>4
    <3>3. q = RunParent(t, it)
      BY <1>4, <2>1 DEF RunParent
    <3>4. QED
      BY <1>2, <1>6, <3>1, <3>2, <3>3, PartAhead, ZenonT(60)
  <2>6. PICK i \in Nat, j \in Nat, l \in Nat : /\ i = q.paragraphStart /\ j = q.paragraphEnd /\ l = PartLength(q)
                                               /\ l # 0 /\ i + l = j
    BY <2>1, PartFacts
  <2>7. i = Cursor(it) /\ i < j /\ l = j - i
    BY <1>4, <2>5, <2>6 DEF RunFrom
  <2>8. PICK next, run : next = moved.iterator /\ run = next.current
    OBVIOUS
  <2>9. /\ next.kind = it.kind /\ next.parent = q /\ next.index = SBInvalidIndex
        /\ run.index = i /\ run.length = j - i /\ run.baseLevel = t.paragraphs[q.paragraph + 1].baseLevel
        /\ moved.found = TRUE
    <3>1. next = [kind |-> it.kind, parent |-> q, index |-> it.index,
                  current |-> [index |-> q.paragraphStart, length |-> PartLength(q),
                               baseLevel |-> t.paragraphs[q.paragraph + 1].baseLevel],
                  line |-> it.line]
          /\ moved.found = TRUE
      BY <2>1, <2>8
    <3>2. run = [index |-> q.paragraphStart, length |-> PartLength(q),
                 baseLevel |-> t.paragraphs[q.paragraph + 1].baseLevel]
      BY <2>8, <3>1
    <3>3. next.kind = it.kind /\ next.parent = q /\ next.index = it.index
      BY <3>1
    <3>4. run.index = i /\ run.length = l /\ run.baseLevel = t.paragraphs[q.paragraph + 1].baseLevel
      BY <2>6, <3>2
    <3>5. QED
      BY <1>4, <2>7, <3>1, <3>3, <3>4
  <2>10. Cursor(next) = j
    BY <2>5, <2>6, <2>9 DEF Cursor, IsRangePart
  <2>11. \A u \in i..(j - 1) : UnitValue(t, it.kind, u) = run.baseLevel
    <3>1. TAKE u \in i..(j - 1)
    <3>2. PICK k : k = q.paragraph + 1
      BY SMTT(40)
    <3>3. k \in DOMAIN t.paragraphs /\ StartOf(t, k) <= i /\ j <= LimitOf(t, k)
      BY <2>1, <2>6, <3>2 DEF InPart
    <3>4. PICK b \in Nat, z \in Nat : b = StartOf(t, k) /\ z = LimitOf(t, k)
      BY <3>3, CutFacts DEF IsCut
    <3>5. u \in Nat /\ b <= u /\ u < z
      BY <2>6, <3>3, <3>4
    <3>6. UnitParagraph(t, u) = t.paragraphs[k]
      BY <3>3, <3>4, <3>5, UnitParagraphIs
    <3>7. QED
      BY <2>9, <3>2, <3>6 DEF UnitValue
  <2>12. UnitValue(t, it.kind, i) = run.baseLevel
    <3>1. i \in i..(j - 1)
      BY <2>7
    <3>2. QED
      BY <2>11, <3>1
  <2>13. IsOneRun(t, it.kind, i, j, q.paragraphEnd)
    BY <2>6, <2>11, <2>12 DEF IsOneRun
  <2>14. IsSeenWith(r, s, run, TRUE)
    BY <2>8, <2>9
  <2>15. it.kind \in ReadingKinds /\ IsSeq(s.given)
    BY DEF ReadingKinds, IsSeen
  <2>16. IsReading(t, next, r)
    <3>1. q.paragraphStart <= i /\ i < q.paragraphEnd /\ j <= q.paragraphEnd
      BY <2>6, <2>7
    <3>2. (IF it.kind = "paragraph" THEN run.baseLevel ELSE run.value) = UnitValue(t, it.kind, i)
      BY <2>12
    <3>3. a = s.index /\ e = EndAsked(t, s) /\ a # e /\ e <= Len(t.units) /\ IsSeq(s.given)
          /\ it.kind \in ReadingKinds /\ i = Cursor(it) /\ i < j
      BY <1>3, <2>2, <2>7, <2>15
    <3>4. next.kind = it.kind /\ next.parent = q /\ Cursor(next) = j /\ next.index = SBInvalidIndex
          /\ run.index = i /\ run.length = j - i
      BY <2>9, <2>10
    <3>5. IsRangePart(t, whole, q, e)
      BY <2>5
    <3>6. QED
      BY <2>4, <2>13, <2>14, <3>1, <3>2, <3>3, <3>4, <3>5, RunReads
  <2>17. QED
    BY <2>8, <2>16
<1>7. QED
  BY <1>5, <1>6

-----------------------------------------------------------------------------
(* What is copied out are the runs of single units.                          *)

AreSingle(r, t, kind, a, e) ==
  /\ Len(r) = e - a /\ r \in Seq(RuledSet(t, kind, a, e))
  /\ \A m \in 1..(e - a) : r[m] = <<a + m - 1, 1, UnitValue(t, kind, a + m - 1)>>

LEMMA SingleRuns ==
  ASSUME NEW t, NEW kind \in CopyKinds, NEW a \in Nat, NEW e \in Nat, a <= e,
         NEW f, f = Ruled(t, kind, a, e)
  PROVE  AreSingle(f[a], t, kind, a, e)
<1>1. PICK S : S = RuledSet(t, kind, a, e)
  OBVIOUS
<1>2. /\ f[e] = <<>>
      /\ \A i \in a..(e - 1) : f[i] = <<RuledRun(t, kind, a, e, i)>> \o f[RunEnd(t, kind, a, e, i)]
      /\ \A i \in a..e : f[i] \in Seq(S)
  <2>1. IsRuled(f, t, kind, a, e)
    BY RuledFacts
  <2>2. QED
    BY <1>1, <2>1 DEF IsRuled
<1>3. PICK T : T = {i \in a..e : /\ Len(f[i]) = e - i
                                /\ \A m \in 1..(e - i) :
                                     f[i][m] = <<i + m - 1, 1, UnitValue(t, kind, i + m - 1)>>}
  OBVIOUS
<1>4. e \in T
  <2>1. Len(f[e]) = 0 /\ e - e = 0 /\ e \in a..e
    BY <1>2, EmptyIsSeq
  <2>2. QED
    BY <1>3, <2>1
<1>5. ASSUME NEW i \in a..(e - 1), \A j \in (i + 1)..e : j \in T PROVE i \in T
  <2>1. i \in Nat /\ i + 1 \in Nat /\ i + 1 \in (i + 1)..e /\ i + 1 \in a..e /\ i \in a..e
    OBVIOUS
  <2>2. RunEnd(t, kind, a, e, i) = i + 1
    <3>1. \A k \in (i + 1)..((i + 1) - 1) : ~Begins(t, kind, k)
      OBVIOUS
    <3>2. Begins(t, kind, i + 1)
      BY DEF Begins
    <3>3. QED
      BY <2>1, <3>1, <3>2, RunEndIs
  <2>3. PICK x : x = <<i, 1, UnitValue(t, kind, i)>>
    OBVIOUS
  <2>4. RuledRun(t, kind, a, e, i) = x
    <3>1. (i + 1) - i = 1
      BY <2>1
    <3>2. QED
      BY <2>2, <2>3, <3>1 DEF RuledRun
  <2>5. PICK s, r : s = f[i + 1] /\ r = f[i]
    OBVIOUS
  <2>6. x \in S /\ s \in Seq(S) /\ r = <<x>> \o s
    <3>1. x \in S
      BY <1>1, <2>4 DEF RuledSet
    <3>2. QED
      BY <1>2, <2>1, <2>2, <2>4, <2>5, <3>1
  <2>7. /\ Len(r) = Len(s) + 1 /\ Len(s) \in Nat
        /\ r[1] = x
        /\ \A k \in 2..Len(r) : r[k] = s[k - 1] /\ k - 1 \in 1..Len(s)
    BY <2>6, PrependIs
  <2>8. /\ Len(s) = e - (i + 1)
        /\ \A m \in 1..(e - (i + 1)) : s[m] = <<(i + 1) + m - 1, 1, UnitValue(t, kind, (i + 1) + m - 1)>>
    <3>1. i + 1 \in T
      BY <1>5, <2>1
    <3>2. QED
      BY <1>3, <2>5, <3>1
  <2>9. Len(r) = e - i
    BY <2>1, <2>7, <2>8
  <2>10. ASSUME NEW m \in 1..(e - i) PROVE r[m] = <<i + m - 1, 1, UnitValue(t, kind, i + m - 1)>>
    <3>1. CASE m = 1
      <4>1. i + 1 - 1 = i
        BY <2>1
      <4>2. QED
        BY <2>3, <2>7, <3>1, <4>1
    <3>2. CASE m # 1
      <4>1. m \in 2..Len(r) /\ m - 1 \in 1..(e - (i + 1)) /\ (i + 1) + (m - 1) - 1 = i + m - 1
        BY <2>1, <2>9, <3>2
      <4>2. r[m] = s[m - 1]
        BY <2>7, <4>1
      <4>3. s[m - 1] = <<(i + 1) + (m - 1) - 1, 1, UnitValue(t, kind, (i + 1) + (m - 1) - 1)>>
        BY <2>8, <4>1
      <4>4. QED
        BY <4>1, <4>2, <4>3
    <3>3. QED
      BY <3>1, <3>2
  <2>11. QED
    BY <1>3, <2>1, <2>5, <2>9, <2>10
<1>6. a \in T
  <2>1. \A i \in a..e : i \in T
    BY <1>4, <1>5, Downwards
  <2>2. a \in a..e
    OBVIOUS
  <2>3. QED
    BY <2>1, <2>2
<1>7. a \in a..e
  OBVIOUS
<1>8. QED
  BY <1>1, <1>2, <1>3, <1>6, <1>7 DEF AreSingle

LEMMA CopyReads ==
  ASSUME NEW t, IsCut(t), NEW kind \in CopyKinds, NEW a \in Nat, NEW e \in Nat, a <= e,
         e <= Len(t.units), NEW buffer, IsCopied(t, kind, a, e, buffer),
         NEW g, g = [k \in DOMAIN buffer |-> [index |-> a + k - 1, length |-> 1, value |-> buffer[k]]]
  PROVE  View(kind, g) = Ruled(t, kind, a, e)[a]
<1>1. PICK n \in Nat : n = e - a
  OBVIOUS
<1>2. DOMAIN buffer = 1..n
  <2>1. IsSeq(buffer) /\ Len(buffer) = n
    BY <1>1 DEF IsCopied
  <2>2. PICK S : buffer \in Seq(S)
    BY <2>1 DEF IsSeq
  <2>3. QED
    BY <2>1, <2>2, LenProperties
<1>3. \A m \in 1..n : buffer[m] = UnitValue(t, kind, a + m - 1)
  <2>1. TAKE m \in 1..n
  <2>2. PICK u \in Nat : u = a + m - 1 /\ u \in a..(e - 1) /\ u - a + 1 = m
    <3>1. a + m - 1 \in Nat /\ a + m - 1 \in a..(e - 1) /\ (a + m - 1) - a + 1 = m
      BY <1>1
    <3>2. QED
      BY <3>1
  <2>3. PICK q \in DOMAIN t.paragraphs :
          /\ StartOf(t, q) <= u /\ u < LimitOf(t, q)
          /\ buffer[u - a + 1] = ArrayFor(kind, t.paragraphs[q])[u - StartOf(t, q) + 1]
    BY <2>2 DEF IsCopied
  <2>4. UnitParagraph(t, u) = t.paragraphs[q]
    BY <2>2, <2>3, UnitParagraphIs
  <2>5. UnitParagraph(t, u).index = StartOf(t, q)
    BY <2>4 DEF StartOf
  <2>6. UnitValue(t, kind, u) = ArrayFor(kind, t.paragraphs[q])[u - StartOf(t, q) + 1]
    <3>1. CASE kind = "levels"
      BY <2>4, <2>5, <3>1 DEF UnitValue, ArrayFor
    <3>2. CASE kind = "scripts"
      BY <2>4, <2>5, <3>2 DEF UnitValue, ArrayFor
    <3>3. QED
      BY <3>1, <3>2 DEF CopyKinds
  <2>7. QED
    BY <2>2, <2>3, <2>6
<1>4. PICK S, r : S = RuledSet(t, kind, a, e) /\ r = Ruled(t, kind, a, e)[a]
  OBVIOUS
<1>5. /\ Len(r) = n /\ r \in Seq(S)
      /\ \A m \in 1..n : r[m] = <<a + m - 1, 1, UnitValue(t, kind, a + m - 1)>>
  <2>1. PICK f : f = Ruled(t, kind, a, e)
    OBVIOUS
  <2>2. AreSingle(f[a], t, kind, a, e)
    BY <2>1, SingleRuns
  <2>3. AreSingle(r, t, kind, a, e)
    BY <1>4, <2>1, <2>2
  <2>4. QED
    BY <1>1, <1>4, <2>3 DEF AreSingle
<1>6. r = [m \in 1..n |-> r[m]]
  BY <1>1, <1>5
<1>7. PICK v : v = View(kind, g)
  OBVIOUS
<1>8. v = [m \in 1..n |-> v[m]] /\ \A m \in 1..n : v[m] = <<a + m - 1, 1, buffer[m]>>
  <2>1. DOMAIN g = 1..n
    BY <1>2
  <2>2. kind # "paragraph"
    BY DEF CopyKinds
  <2>3. v = [k \in 1..n |-> <<g[k].index, g[k].length, g[k].value>>]
    BY <1>7, <2>1, <2>2 DEF View
  <2>4. ASSUME NEW m \in 1..n PROVE g[m].index = a + m - 1 /\ g[m].length = 1 /\ g[m].value = buffer[m]
    <3>1. PICK x, y : x = a + m - 1 /\ y = buffer[m]
      OBVIOUS
    <3>2. g[m] = [index |-> x, length |-> 1, value |-> y]
      BY <1>2, <3>1
    <3>3. g[m].index = x /\ g[m].length = 1 /\ g[m].value = y
      BY <3>2
    <3>4. QED
      BY <3>1, <3>3
  <2>5. \A m \in 1..n : g[m].index = a + m - 1 /\ g[m].length = 1 /\ g[m].value = buffer[m]
    BY <2>4
  <2>6. \A m \in 1..n : v[m] = <<a + m - 1, 1, buffer[m]>>
    BY <2>3, <2>5
  <2>7. QED
    BY <2>3, <2>6
<1>9. \A m \in 1..n : v[m] = r[m]
  BY <1>3, <1>5, <1>8
<1>10. v = r
  BY <1>6, <1>8, <1>9
<1>11. QED
  BY <1>4, <1>7, <1>10

-----------------------------------------------------------------------------
(* The readers give the runs that were promised.                             *)

IsPromised(t, r, s) ==
  /\ r.kind \in ReadingKinds => IsReading(t, r, s)
  /\ r.kind \in CopyKinds =>
       View(r.kind, s.given) = Ruled(t, r.kind, s.index, EndAsked(t, s))[s.index]

PromisesInv == IInv /\ IsPromised(text, reader, seen)

LEMMA OtherReader ==
  ASSUME NEW t, NEW r, NEW s, r.kind \in {"none", "visual", "mirror"}
  PROVE  IsPromised(t, r, s)
  BY DEF IsPromised, ReadingKinds, CopyKinds

LEMMA ResetPromises ==
  ASSUME IsCut(text), NEW kind \in IteratorKinds,
         NEW index \in 0..Len(text.units), NEW length \in 0..SBInvalidIndex,
         NEW it, it = ResetIterator(text, kind, index, length), it.kind = kind,
         NEW s, NEW dropped,
         s = [index |-> index, length |-> length, given |-> <<>>, finished |-> FALSE, dropped |-> dropped]
  PROVE  IsPromised(text, it, s)
<1>1. s.index = index /\ s.length = length /\ s.given = <<>> /\ s.finished = FALSE
  OBVIOUS
<1>2. CASE kind = "visual"
  BY <1>2, OtherReader
<1>3. CASE kind \in ReadingKinds
  <2>1. IsReading(text, it, s)
    BY <1>1, <1>3, ResetReads
  <2>2. kind \notin CopyKinds
    BY DEF IteratorKinds, CopyKinds
  <2>3. QED
    BY <2>1, <2>2 DEF IsPromised
<1>4. QED
  BY <1>2, <1>3 DEF IteratorKinds, ReadingKinds

LEMMA GetRangePromises ==
  ASSUME IInv, NEW kind \in CopyKinds, NEW index \in 0..Length, NEW length \in Lengths(Length),
         GetRange(kind, index, length)
  PROVE  IsPromised(text, reader', seen')
<1>1. PICK buffer :
        /\ buffer = IF kind = "levels" THEN SBTextGetResolvedLevels(text, index, length)
                    ELSE SBTextGetScripts(text, index, length)
        /\ index < Length /\ index + length <= Length
        /\ reader' = [kind |-> kind]
        /\ seen' = [index |-> index, length |-> length, finished |-> TRUE, dropped |-> seen.dropped,
                    given |-> [k \in DOMAIN buffer |->
                                 [index |-> index + k - 1, length |-> 1, value |-> buffer[k]]]]
  BY DEF GetRange
<1>2. IsCut(text)
  BY DEF IInv
<1>3. /\ index \in 0..Len(text.units) /\ index \in Nat
      /\ length \in 0..SBInvalidIndex /\ length \in Nat
  BY <1>2, Inputs
<1>4. IsCopied(text, kind, index, index + length, buffer)
  BY <1>1, <1>2, <1>3, CopiedRange DEF Length
<1>5. PICK g : g = [k \in DOMAIN buffer |-> [index |-> index + k - 1, length |-> 1, value |-> buffer[k]]]
  OBVIOUS
<1>6. PICK s : s = seen'
  OBVIOUS
<1>7. s.index = index /\ s.length = length /\ s.given = g
  BY <1>1, <1>5, <1>6
<1>8. EndAsked(text, s) = index + length
  <2>1. index + length <= Len(text.units)
    BY <1>1 DEF Length
  <2>2. s.index \in 0..Len(text.units) /\ s.length \in 0..SBInvalidIndex /\ s.index + s.length = index + length
    BY <1>3, <1>7
  <2>3. QED
    BY <1>2, <2>1, <2>2, EndAskedIs
<1>9. View(kind, g) = Ruled(text, kind, index, index + length)[index]
  <2>1. PICK e \in Nat : e = index + length /\ index <= e /\ e <= Len(text.units)
    BY <1>1, <1>3 DEF Length
  <2>2. IsCopied(text, kind, index, e, buffer)
    BY <1>4, <2>1
  <2>3. View(kind, g) = Ruled(text, kind, index, e)[index]
    BY <1>2, <1>3, <1>5, <2>1, <2>2, CopyReads
  <2>4. QED
    BY <2>1, <2>3
<1>10. PICK r : r = reader'
  OBVIOUS
<1>11. r.kind = kind /\ kind \notin ReadingKinds
  BY <1>1, <1>10 DEF ReadingKinds, CopyKinds
<1>12. IsPromised(text, r, s)
  BY <1>7, <1>8, <1>9, <1>11 DEF IsPromised
<1>13. QED
  BY <1>6, <1>10, <1>12

LEMMA MoveNextPromises ==
  ASSUME PromisesInv, MoveNext
  PROVE  IsPromised(text, reader', seen')
<1>1. PICK moved :
        /\ reader.kind \in {"paragraph", "logical", "script"}
        /\ moved = Moved
        /\ reader' = moved.iterator
        /\ seen' = SeenWith(moved.iterator.current, moved.found)
  BY DEF MoveNext
<1>2. IsCut(text) /\ IsSeen(text, seen) /\ IsIterator(text, reader) /\ IsReading(text, reader, seen)
  BY <1>1, KindOfReader DEF PromisesInv, IsPromised, IInv, IteratorKinds, ReadingKinds
<1>3. PICK s : s = seen'
  OBVIOUS
<1>4. CASE reader.kind = "paragraph"
  <2>1. moved = ParagraphMoveNext(text, reader)
    BY <1>1, <1>4 DEF Moved
  <2>2. /\ moved.iterator.kind = reader.kind /\ moved.found \in BOOLEAN
        /\ moved.found => moved.iterator.current.index \in 0..(Len(text.units) - 1)
    BY <1>2, <1>4, <2>1, ParagraphMoveKeeps
  <2>3. IsSeenWith(s, seen, moved.iterator.current, moved.found)
    BY <1>1, <1>2, <1>3, <2>2, SeenMore DEF IsSeenWith
  <2>4. IsReading(text, moved.iterator, s)
    BY <1>2, <1>4, <2>1, <2>3, ParagraphMoveReads
  <2>5. reader.kind \notin CopyKinds
    BY <1>4 DEF CopyKinds
  <2>6. QED
    BY <1>1, <1>3, <2>2, <2>4, <2>5 DEF IsPromised
<1>5. CASE reader.kind \in {"logical", "script"}
  <2>1. moved = IF reader.kind = "logical" THEN LogicalMoveNext(text, reader)
                ELSE ScriptMoveNext(text, reader)
    BY <1>1, <1>5 DEF Moved
  <2>2. /\ moved.iterator.kind = reader.kind /\ moved.found \in BOOLEAN
        /\ moved.found => moved.iterator.current.index \in 0..(Len(text.units) - 1)
    BY <1>2, <1>5, <2>1, RunMoveKeeps
  <2>3. IsSeenWith(s, seen, moved.iterator.current, moved.found)
    BY <1>1, <1>2, <1>3, <2>2, SeenMore DEF IsSeenWith
  <2>4. IsReading(text, moved.iterator, s)
    BY <1>2, <1>5, <2>1, <2>3, RunMoveReads
  <2>5. reader.kind \notin CopyKinds
    BY <1>5 DEF CopyKinds
  <2>6. QED
    BY <1>1, <1>3, <2>2, <2>4, <2>5 DEF IsPromised
<1>6. QED
  BY <1>1, <1>4, <1>5

LEMMA InitPromises == Init => PromisesInv
<1> SUFFICES ASSUME Init PROVE PromisesInv
  OBVIOUS
<1>1. reader.kind = "none"
  BY DEF Init, NoReader
<1>2. IsPromised(text, reader, seen)
  BY <1>1, OtherReader
<1>3. QED
  BY <1>2, InitHolds DEF PromisesInv

LEMMA NextPromises == PromisesInv /\ [Next]_vars => PromisesInv'
<1> SUFFICES ASSUME PromisesInv, [Next]_vars PROVE PromisesInv'
  OBVIOUS
<1>1. IInv /\ IInv' /\ IsCut(text) /\ IsSeen(text, seen)
  BY NextHolds DEF PromisesInv, IInv
<1>2. PICK r, s : r = reader' /\ s = seen'
  OBVIOUS
<1>3. Len(text.units) \in 0..SBInvalidIndex /\ Length = Len(text.units) /\ 0 \in 0..Len(text.units)
  BY <1>1, SMTT(40) DEF IsCut, Length
<1>4. text' = text
  BY DEF Next, CreateIterator, Reset, LoadLine, GetRange, ResetMirrors, MoveNext, MoveNextVisual,
         MoveNextMirror, Release, vars
<1>5. SUFFICES IsPromised(text, r, s)
  BY <1>1, <1>2, <1>4 DEF PromisesInv
<1>6. CASE \E kind \in IteratorKinds : CreateIterator(kind)
  <2>1. PICK kind \in IteratorKinds : CreateIterator(kind)
    BY <1>6
  <2>2. /\ r = ResetIterator(text, kind, 0, Length)
        /\ s = [index |-> 0, length |-> Length, given |-> <<>>, finished |-> FALSE, dropped |-> seen.dropped]
    BY <1>2, <2>1 DEF CreateIterator, FreshlySeen
  <2>3. r.kind = kind
    BY <2>2 DEF ResetIterator
  <2>4. QED
    BY <1>1, <1>3, <2>2, <2>3, ResetPromises
<1>7. CASE \E index \in 0..Length, length \in Lengths(Length) : Reset(index, length)
  <2>1. PICK index, length : index \in 0..Length /\ length \in Lengths(Length) /\ Reset(index, length)
    BY <1>7
  <2>2. PICK dropped : /\ reader.kind \in IteratorKinds
                       /\ r = ResetIterator(text, reader.kind, index, length)
                       /\ s = [FreshlySeen(dropped) EXCEPT !.index = index, !.length = length]
    BY <1>2, <2>1 DEF Reset
  <2>3. s = [index |-> index, length |-> length, given |-> <<>>, finished |-> FALSE, dropped |-> dropped]
    BY <2>2 DEF FreshlySeen
  <2>4. index \in 0..Len(text.units) /\ length \in 0..SBInvalidIndex
    BY <1>1, <2>1, Inputs
  <2>5. r.kind = reader.kind
    BY <2>2 DEF ResetIterator
  <2>6. QED
    BY <1>1, <2>2, <2>3, <2>4, <2>5, ResetPromises, ZenonT(60)
<1>8. CASE \E k \in DOMAIN text.paragraphs, index \in 0..Length, length \in Lengths(Length) :
             LoadLine(text.paragraphs[k], index, length)
  <2>1. PICK line : r = SBMirrorLocatorLoadLine(line)
    BY <1>2, <1>8 DEF LoadLine
  <2>2. r.kind = "mirror"
    BY <2>1 DEF SBMirrorLocatorLoadLine
  <2>3. QED
    BY <2>2, OtherReader
<1>9. CASE \E kind \in CopyKinds, index \in 0..Length, length \in Lengths(Length) :
             GetRange(kind, index, length)
  <2>1. IsPromised(text, reader', seen')
    BY <1>1, <1>9, GetRangePromises
  <2>2. QED
    BY <1>2, <2>1
<1>10. CASE ResetMirrors
  <2>1. r.kind = "mirror"
    <3>1. reader.kind = "mirror" /\ r = SBMirrorLocatorReset(reader)
      BY <1>2, <1>10 DEF ResetMirrors
    <3>2. QED
      BY <3>1 DEF SBMirrorLocatorReset
  <2>2. QED
    BY <2>1, OtherReader
<1>11. CASE MoveNext
  <2>1. IsPromised(text, reader', seen')
    BY <1>11, MoveNextPromises
  <2>2. QED
    BY <1>2, <2>1
<1>12. CASE MoveNextVisual
  <2>1. reader.kind = "visual" /\ r = VisualMoveNext(text, reader, lines).iterator
    BY <1>2, <1>12 DEF MoveNextVisual
  <2>2. IsIterator(text, reader) /\ lines \in Nat
    BY <1>1, <2>1, KindOfReader, MaxDroppedAssumption DEF IInv, IteratorKinds, IsSeen, Held
  <2>3. r.kind = "visual"
    BY <1>1, <2>1, <2>2, VisualMoveKeeps
  <2>4. QED
    BY <2>3, OtherReader
<1>13. CASE MoveNextMirror
  <2>1. reader.kind = "mirror" /\ r = SBMirrorLocatorMoveNext(reader, text.units).locator
    BY <1>2, <1>13 DEF MoveNextMirror
  <2>2. IsMirror(text, reader)
    BY <1>1, <2>1, KindOfReader DEF IInv
  <2>3. IsMirror(text, r)
    BY <1>1, <2>1, <2>2, MirrorMoveKeeps
  <2>4. r.kind = "mirror"
    BY <2>3 DEF IsMirror
  <2>5. QED
    BY <2>4, OtherReader
<1>14. CASE Release
  <2>1. r.kind = "none"
    BY <1>2, <1>14 DEF Release, NoReader
  <2>2. QED
    BY <2>1, OtherReader
<1>15. CASE UNCHANGED vars
  <2>1. r = reader /\ s = seen
    BY <1>2, <1>15 DEF vars
  <2>2. QED
    BY <2>1 DEF PromisesInv
<1>16. QED
  BY <1>6, <1>7, <1>8, <1>9, <1>10, <1>11, <1>12, <1>13, <1>14, <1>15 DEF Next

(* A prefix of the runs that were promised, and all of them at the end.      *)
LEMMA PrefixIs ==
  ASSUME NEW S, NEW v \in Seq(S), NEW z \in Seq(S), NEW w, w = v \o z
  PROVE  IsPrefix(v, w)
<1>1. PICK m \in Nat, n \in Nat : m = Len(v) /\ n = Len(z)
  OBVIOUS
<1>2. /\ w \in Seq(S) /\ Len(w) = m + n
      /\ \A k \in 1..m : w[k] = v[k]
  BY <1>1, ConcatProperties
<1>3. DOMAIN v = 1..m /\ DOMAIN w = 1..(m + n)
  BY <1>1, <1>2, LenProperties
<1>4. SubSeq(v, 1, m) = [k \in 1..m |-> v[k]]
  BY <1>1, <1>3
<1>5. SubSeq(w, 1, m) = [k \in 1..m |-> w[k]]
  BY <1>1, <1>2
<1>6. SubSeq(v, 1, m) = SubSeq(w, 1, m)
  BY <1>2, <1>4, <1>5
<1>7. Len(v) <= Len(w)
  BY <1>1, <1>2
<1>8. QED
  BY <1>1, <1>6, <1>7 DEF IsPrefix
LEMMA ReadPrefix ==
  ASSUME NEW t, IsCut(t), NEW s, s.index \in 0..Len(t.units), s.length \in 0..SBInvalidIndex,
         NEW kind, NEW c \in s.index..EndAsked(t, s), ReadSoFar(t, kind, s, c),
         NEW v, v = View(kind, s.given),
         NEW w, w = Ruled(t, kind, s.index, EndAsked(t, s))[s.index]
  PROVE  IsPrefix(v, w) /\ (c = EndAsked(t, s) => v = w)
<1>1. PICK a \in Nat, e \in Nat : a = s.index /\ e = EndAsked(t, s) /\ a <= e
  BY EndAskedIs
<1>2. PICK f, S : f = Ruled(t, kind, a, e) /\ S = RuledSet(t, kind, a, e)
  OBVIOUS
<1>3. PICK z : z = f[c]
  OBVIOUS
<1>4. v \in Seq(S) /\ w = v \o z
  BY <1>1, <1>2, <1>3 DEF ReadSoFar
<1>5. z \in Seq(S) /\ f[e] = <<>>
  <2>1. IsRuled(f, t, kind, a, e)
    BY <1>1, <1>2, RuledFacts
  <2>2. QED
    BY <1>1, <1>2, <1>3, <2>1 DEF IsRuled
<1>6. IsPrefix(v, w)
  BY <1>4, <1>5, PrefixIs
<1>7. ASSUME c = e PROVE v = w
  <2>1. w = v \o <<>>
    BY <1>3, <1>4, <1>5, <1>7
  <2>2. QED
    BY <1>4, <2>1, ConcatEmptySeq
<1>8. QED
  BY <1>1, <1>6, <1>7

LEMMA SelfPrefix == \A v : IsSeq(v) => IsPrefix(v, v)
  BY DEF IsSeq, IsPrefix

LEMMA PromisesKept == PromisesInv => RunsAsPromised
<1> SUFFICES ASSUME PromisesInv,
                    reader.kind \in {"paragraph", "logical", "script"} \cup CopyKinds, ~StartsInside
             PROVE  LET given == [k \in DOMAIN seen.given |->
                          <<seen.given[k].index, seen.given[k].length,
                            IF reader.kind = "paragraph" THEN seen.given[k].baseLevel
                            ELSE seen.given[k].value>>]
                        ruled == RuledRuns(RuledValue)
                    IN  /\ IsPrefix(given, ruled)
                        /\ seen.finished => given = ruled
  BY DEF RunsAsPromised
<1>1. PICK v, w : v = View(reader.kind, seen.given) /\ w = RuledRuns(RuledValue)
  OBVIOUS
<1>2. SUFFICES IsPrefix(v, w) /\ (seen.finished => v = w)
  BY <1>1 DEF View
<1>3. AskedEnd = EndAsked(text, seen)
  BY DEF AskedEnd, EndAsked, Length
<1>4. w = Ruled(text, reader.kind, seen.index, EndAsked(text, seen))[seen.index]
  BY <1>1, <1>3, RuledRunsIs
<1>5. IsCut(text) /\ seen.index \in 0..Len(text.units) /\ seen.length \in 0..SBInvalidIndex
  BY DEF PromisesInv, IInv, IsSeen
<1>6. PICK a \in Nat, e \in Nat : a = seen.index /\ e = EndAsked(text, seen) /\ a <= e /\ e <= Len(text.units)
  BY <1>5, EndAskedIs
<1>7. CASE reader.kind \in ReadingKinds
  <2>1. IsReading(text, reader, seen)
    BY <1>7 DEF PromisesInv, IsPromised
  <2>2. ~SkipsStart(text, reader.kind, seen)
    <3>1. SUFFICES ASSUME SkipsStart(text, reader.kind, seen) PROVE FALSE
      OBVIOUS
    <3>2. reader.kind = "script" /\ a < e /\ UnitParagraph(text, a).index # a
      BY <1>6, <3>1 DEF SkipsStart
    <3>3. a \in Asked
      BY <1>3, <1>6, <3>2 DEF Asked
    <3>4. ParagraphOf(seen.index).index # seen.index
      BY <1>6, <3>2 DEF UnitParagraph, ParagraphOf
    <3>5. QED
      BY <3>2, <3>3, <3>4 DEF StartsInside
  <2>3. PICK c \in a..e : ReadSoFar(text, reader.kind, seen, c) /\ (seen.finished => c = e)
    <3>1. CASE a = e
      <4>1. ReadSoFar(text, reader.kind, seen, e) /\ e \in a..e
        BY <1>6, <2>1, <3>1 DEF IsReading
      <4>2. QED
        BY <4>1
    <3>2. CASE a # e
      <4>1. IsPlaced(text, reader, seen, e) /\ ReadSoFar(text, reader.kind, seen, Cursor(reader))
        BY <1>6, <2>1, <2>2, <3>2 DEF IsReading
      <4>2. Cursor(reader) \in a..e /\ (seen.finished => Cursor(reader) = e)
        BY <1>6, <4>1 DEF IsPlaced
      <4>3. QED
        BY <4>1, <4>2
    <3>3. QED
      BY <3>1, <3>2
  <2>4. IsPrefix(v, w) /\ (c = e => v = w)
    BY <1>1, <1>4, <1>5, <1>6, <2>3, ReadPrefix
  <2>5. QED
    BY <2>3, <2>4
<1>8. CASE reader.kind \in CopyKinds
  <2>1. v = w
    BY <1>1, <1>4, <1>8 DEF PromisesInv, IsPromised
  <2>2. IsSeq(w)
    <3>1. PICK f : f = Ruled(text, reader.kind, a, e)
      OBVIOUS
    <3>2. IsRuled(f, text, reader.kind, a, e)
      BY <1>6, <3>1, RuledFacts
    <3>3. a \in a..e /\ w = f[a]
      BY <1>4, <1>6, <3>1
    <3>4. QED
      BY <3>2, <3>3 DEF IsRuled, IsSeq
  <2>3. QED
    BY <2>1, <2>2, SelfPrefix
<1>9. QED
  BY <1>7, <1>8 DEF ReadingKinds

(* The runs that paragraph, logical run and script run iterators give, and   *)
(* what is copied out of a text, are the maximal runs and the units of the   *)
(* range that was asked for: a part of them while the reader goes on, all of  *)
(* them when it reports the end, of any text and any range that a client may *)
(* ask for.                                                                   *)
THEOREM SpecRunsAsPromised == Spec => []RunsAsPromised
<1>1. Spec => []PromisesInv
  BY InitPromises, NextPromises, PTL DEF Spec
<1>2. QED
  BY <1>1, PromisesKept, PTL

-----------------------------------------------------------------------------
(* Rule L1 in a part of a sequence.                                        *)

(* part has the n elements of types from a on.                             *)
IsPart(types, part, a, n) == \A i \in 1..n : part[i] = types[a + i - 1]

LEMMA AtEndInPart ==
  ASSUME NEW types, NEW part, NEW a \in Nat \ {0}, NEW n \in Nat, IsPart(types, part, a, n),
         NEW x \in 1..(n + 1)
  PROVE  AtEnd(part, n + 1, x) <=> AtEnd(types, a + n, a + x - 1)
<1>1. ASSUME AtEnd(part, n + 1, x) PROVE AtEnd(types, a + n, a + x - 1)
  <2>1. PICK j \in x..(n + 1) : /\ \A m \in x..(j - 1) : part[m] \in Spaces \cup Ignored
                                /\ j = n + 1 \/ part[j] \in Separators
    BY <1>1 DEF AtEnd
  <2>2. PICK e \in Int : e = a + j - 1
    BY <2>1
  <2>3. e \in (a + x - 1)..(a + n)
    BY <2>1, <2>2
  <2>4. ASSUME NEW m \in (a + x - 1)..(e - 1) PROVE types[m] \in Spaces \cup Ignored
    <3>1. PICK k \in Int : k = m - a + 1
      BY <2>4
    <3>2. k \in x..(j - 1) /\ k \in 1..n /\ a + k - 1 = m
      BY <2>1, <2>2, <2>4, <3>1
    <3>3. part[k] = types[a + k - 1]
      BY <3>2 DEF IsPart
    <3>4. QED
      BY <2>1, <3>2, <3>3
  <2>5. e = a + n \/ types[e] \in Separators
    <3>1. CASE j = n + 1
      BY <2>2, <3>1
    <3>2. CASE j # n + 1
      <4>1. j \in 1..n
        BY <2>1, <3>2
      <4>2. part[j] = types[a + j - 1]
        BY <4>1 DEF IsPart
      <4>3. QED
        BY <2>1, <2>2, <3>2, <4>2
    <3>3. QED
      BY <3>1, <3>2
  <2>6. QED
    BY <2>3, <2>4, <2>5 DEF AtEnd
<1>2. ASSUME AtEnd(types, a + n, a + x - 1) PROVE AtEnd(part, n + 1, x)
  <2>1. PICK e \in (a + x - 1)..(a + n) :
            /\ \A m \in (a + x - 1)..(e - 1) : types[m] \in Spaces \cup Ignored
            /\ e = a + n \/ types[e] \in Separators
    BY <1>2 DEF AtEnd
  <2>2. PICK j \in Int : j = e - a + 1
    BY <2>1
  <2>3. j \in x..(n + 1) /\ a + j - 1 = e
    BY <2>1, <2>2
  <2>4. ASSUME NEW k \in x..(j - 1) PROVE part[k] \in Spaces \cup Ignored
    <3>1. k \in 1..n
      BY <2>3, <2>4
    <3>2. PICK m \in Int : m = a + k - 1
      BY <3>1
    <3>3. m \in (a + x - 1)..(e - 1)
      BY <2>3, <2>4, <3>2
    <3>4. part[k] = types[a + k - 1]
      BY <3>1 DEF IsPart
    <3>5. QED
      BY <2>1, <3>2, <3>3, <3>4
  <2>5. j = n + 1 \/ part[j] \in Separators
    <3>1. CASE e = a + n
      BY <2>2, <3>1
    <3>2. CASE e # a + n
      <4>1. j \in 1..n
        BY <2>1, <2>2, <3>2
      <4>2. part[j] = types[a + j - 1]
        BY <4>1 DEF IsPart
      <4>3. QED
        BY <2>1, <2>3, <3>2, <4>2
    <3>3. QED
      BY <3>1, <3>2
  <2>6. QED
    BY <2>3, <2>4, <2>5 DEF AtEnd
<1>3. QED
  BY <1>1, <1>2

LEMMA ResetsAtInPart ==
  ASSUME NEW types, NEW part, NEW a \in Nat \ {0}, NEW n \in Nat, IsPart(types, part, a, n),
         NEW x \in 1..n
  PROVE  ResetsAt(part, n + 1, x) <=> ResetsAt(types, a + n, a + x - 1)
<1>1. x + 1 \in 1..(n + 1) /\ a + (x + 1) - 1 = (a + x - 1) + 1
  OBVIOUS
<1>2. AtEnd(part, n + 1, x + 1) <=> AtEnd(types, a + n, a + (x + 1) - 1)
  BY <1>1, AtEndInPart
<1>3. part[x] = types[a + x - 1]
  BY DEF IsPart
<1>4. QED
  BY <1>1, <1>2, <1>3 DEF ResetsAt

LEMMA IsResetInPart ==
  ASSUME NEW types, NEW part, NEW a \in Nat \ {0}, NEW n \in Nat, IsPart(types, part, a, n),
         NEW u \in 1..n
  PROVE  IsReset(part, 1, n + 1, u) <=> IsReset(types, a, a + n, a + u - 1)
<1>1. PICK v \in Nat : v = a + u - 1
  OBVIOUS
<1>2. part[u] = types[v]
  BY <1>1 DEF IsPart
<1>3. PICK B, C : B = Befores(part, 1, u) /\ C = Befores(types, a, v)
  OBVIOUS
<1>4. \A k \in B : k \in 1..(u - 1) /\ a + k - 1 \in C
  <2>1. TAKE k \in B
  <2>2. k \in 1..(u - 1) /\ part[k] \notin Ignored
    BY <1>3 DEF Befores
  <2>3. k \in 1..n /\ a + k - 1 \in a..(v - 1)
    BY <1>1, <2>2
  <2>4. part[k] = types[a + k - 1]
    BY <2>3 DEF IsPart
  <2>5. QED
    BY <1>3, <2>2, <2>3, <2>4 DEF Befores
<1>5. \A m \in C : m \in a..(v - 1) /\ m - a + 1 \in B
  <2>1. TAKE m \in C
  <2>2. m \in a..(v - 1) /\ types[m] \notin Ignored
    BY <1>3 DEF Befores
  <2>3. PICK k \in Int : k = m - a + 1
    BY <2>2
  <2>4. k \in 1..n /\ k \in 1..(u - 1) /\ a + k - 1 = m
    BY <1>1, <2>2, <2>3
  <2>5. part[k] = types[a + k - 1]
    BY <2>4 DEF IsPart
  <2>6. QED
    BY <1>3, <2>2, <2>3, <2>4, <2>5 DEF Befores
<1>6. B # {} <=> C # {}
  BY <1>4, <1>5
<1>7. B # {} => Max(B) \in 1..n /\ Max(C) = a + Max(B) - 1
  <2>1. SUFFICES ASSUME B # {} PROVE Max(B) \in 1..n /\ Max(C) = a + Max(B) - 1
    OBVIOUS
  <2>2. B \subseteq 0..n /\ C \subseteq 0..v /\ C # {}
    BY <1>1, <1>4, <1>5, <1>6, <2>1
  <2>3. PICK b \in 0..n : b = Max(B) /\ b \in B /\ \A y \in B : y <= b
    BY <2>1, <2>2, MaxIs
  <2>4. PICK c \in 0..v : c = Max(C) /\ c \in C /\ \A y \in C : y <= c
    BY <1>1, <2>2, MaxIs
  <2>5. a + b - 1 <= c /\ c - a + 1 <= b /\ b \in 1..(u - 1)
    BY <1>4, <1>5, <2>3, <2>4
  <2>6. c = a + b - 1 /\ b \in 1..n
    BY <2>5
  <2>7. QED
    BY <2>3, <2>4, <2>6
<1>8. IsReset(part, 1, n + 1, u) <=>
        IF part[u] \in Ignored THEN B # {} /\ ResetsAt(part, n + 1, Max(B)) ELSE ResetsAt(part, n + 1, u)
  BY <1>3, IsResetIs
<1>9. IsReset(types, a, a + n, v) <=>
        IF types[v] \in Ignored THEN C # {} /\ ResetsAt(types, a + n, Max(C)) ELSE ResetsAt(types, a + n, v)
  BY <1>3, IsResetIs
<1>10. ResetsAt(part, n + 1, u) <=> ResetsAt(types, a + n, v)
  BY <1>1, ResetsAtInPart
<1>11. B # {} => (ResetsAt(part, n + 1, Max(B)) <=> ResetsAt(types, a + n, Max(C)))
  <2>1. SUFFICES ASSUME B # {} PROVE ResetsAt(part, n + 1, Max(B)) <=> ResetsAt(types, a + n, Max(C))
    OBVIOUS
  <2>2. PICK b \in 1..n : b = Max(B) /\ Max(C) = a + b - 1
    BY <1>7, <2>1
  <2>3. ResetsAt(part, n + 1, b) <=> ResetsAt(types, a + n, a + b - 1)
    BY ResetsAtInPart
  <2>4. QED
    BY <2>2, <2>3
<1>12. CASE part[u] \in Ignored
  BY <1>1, <1>2, <1>6, <1>8, <1>9, <1>11, <1>12
<1>13. CASE part[u] \notin Ignored
  BY <1>1, <1>2, <1>8, <1>9, <1>10, <1>13
<1>14. QED
  BY <1>12, <1>13

LEMMA ResetsTooMuchInPart ==
  ASSUME NEW types, NEW part, NEW a \in Nat \ {0}, NEW n \in Nat, IsPart(types, part, a, n),
         ResetsTooMuch(part, 1, n + 1)
  PROVE  ResetsTooMuch(types, a, a + n)
<1>1. PICK i \in 1..n, j \in 1..n, k \in 1..n :
        /\ i < j /\ j < k
        /\ part[i] \in Separators /\ part[j] \in Spaces /\ part[k] \in Ignored
        /\ \A m \in (i + 1)..k : part[m] \in Spaces \cup Ignored
        /\ ~IsReset(part, 1, n + 1, j)
  <2>1. n + 1 - 1 = n
    OBVIOUS
  <2>2. QED
    BY <2>1 DEF ResetsTooMuch
<1>2. PICK x \in Int, y \in Int, z \in Int : x = a + i - 1 /\ y = a + j - 1 /\ z = a + k - 1
  OBVIOUS
<1>3. x \in a..(a + n - 1) /\ y \in a..(a + n - 1) /\ z \in a..(a + n - 1) /\ x < y /\ y < z
  BY <1>1, <1>2
<1>4. types[x] \in Separators /\ types[y] \in Spaces /\ types[z] \in Ignored
  <2>1. part[i] = types[a + i - 1] /\ part[j] = types[a + j - 1] /\ part[k] = types[a + k - 1]
    BY DEF IsPart
  <2>2. QED
    BY <1>1, <1>2, <2>1
<1>5. ASSUME NEW m \in (x + 1)..z PROVE types[m] \in Spaces \cup Ignored
  <2>1. PICK o \in Int : o = m - a + 1
    BY <1>5
  <2>2. o \in (i + 1)..k /\ o \in 1..n /\ a + o - 1 = m
    BY <1>1, <1>2, <1>5, <2>1
  <2>3. part[o] = types[a + o - 1]
    BY <2>2 DEF IsPart
  <2>4. QED
    BY <1>1, <2>2, <2>3
<1>6. ~IsReset(types, a, a + n, y)
  BY <1>1, <1>2, IsResetInPart
<1>7. QED
  BY <1>3, <1>4, <1>5, <1>6 DEF ResetsTooMuch

-----------------------------------------------------------------------------
(* The units of a line and its runs.                                       *)

InRun(run, i) == run.offset <= i /\ i < run.offset + run.length

(* The bounds of run k, as numbers, and what it has of the n levels.       *)
IsRunAt(rs, levels, off, n, k) ==
  /\ rs[k].offset \in Nat /\ rs[k].length \in Nat \ {0} /\ rs[k].level \in SBLevels
  /\ rs[k].level \in Nat
  /\ off <= rs[k].offset /\ rs[k].offset + rs[k].length <= off + n
  /\ k # 1 => rs[k].offset = rs[k - 1].offset + rs[k - 1].length /\ rs[k].level # rs[k - 1].level
  /\ k = Len(rs) => rs[k].offset + rs[k].length = off + n
  /\ \A i \in Nat : InRun(rs[k], i) => levels[i - off + 1] = rs[k].level

LEMMA RunBounds ==
  ASSUME NEW rs, NEW levels, Len(levels) \in Nat, NEW off \in Nat, IsRunsFrom(rs, levels, off, 1)
  PROVE  /\ Len(rs) \in Nat
         /\ Len(levels) >= 1 => Len(rs) >= 1 /\ rs[1].offset = off
         /\ \A k \in 1..Len(rs) : IsRunAt(rs, levels, off, Len(levels), k)
<1>1. rs \in Seq(Run)
  BY DEF IsRunsFrom
<1>2. Len(rs) \in Nat /\ \A k \in 1..Len(rs) : rs[k] \in Run
  BY <1>1, RunFacts
<1>3. Len(levels) >= 1 => Len(rs) >= 1 /\ rs[1].offset = off
  <2>1. off + 1 - 1 = off
    OBVIOUS
  <2>2. 1 <= Len(levels) => Len(rs) >= 1 /\ rs[1].offset = off + 1 - 1
    BY DEF IsRunsFrom
  <2>3. QED
    BY <2>1, <2>2
<1>4. ASSUME NEW k \in 1..Len(rs) PROVE IsRunAt(rs, levels, off, Len(levels), k)
  <2>1. rs[k].offset \in Nat /\ rs[k].length \in Nat \ {0} /\ rs[k].level \in SBLevels
    BY <1>2 DEF Run
  <2>2. rs[k].level \in Nat
    BY <2>1 DEF SBLevels
  <2>3. PICK o \in Nat, l \in Nat, n \in Nat : o = rs[k].offset /\ l = rs[k].length /\ n = Len(levels)
    BY <2>1
  <2>4. /\ off + 1 - 1 <= o /\ o + l <= off + n
        /\ \A u \in o..(o + l - 1) : levels[u - off + 1] = rs[k].level
    BY <2>3 DEF IsRunsFrom
  <2>5. k # 1 => rs[k].offset = rs[k - 1].offset + rs[k - 1].length
                 /\ rs[k].level # rs[k - 1].level
    <3>1. k # 1 => k \in 2..Len(rs)
      BY <1>2
    <3>2. QED
      BY <3>1 DEF IsRunsFrom
  <2>6. k = Len(rs) => rs[k].offset + rs[k].length = off + Len(levels)
    <3>1. Len(rs) >= 1
      BY <1>2
    <3>2. QED
      BY <3>1 DEF IsRunsFrom
  <2>7. \A i \in Nat : InRun(rs[k], i) => i \in o..(o + l - 1)
    BY <2>3, SMTT(40) DEF InRun
  <2>8. off <= o
    BY <2>4
  <2>9. off <= rs[k].offset /\ rs[k].offset + rs[k].length <= off + Len(levels)
    BY <2>3, <2>4, <2>8
  <2>10. \A i \in Nat : InRun(rs[k], i) => levels[i - off + 1] = rs[k].level
    BY <2>4, <2>7
  <2>11. QED
    BY <2>1, <2>2, <2>5, <2>6, <2>9, <2>10 DEF IsRunAt
<1>5. QED
  BY <1>2, <1>3, <1>4

(* Runs are one after the other, each with a unit.                         *)
LEMMA RunsFollow ==
  ASSUME NEW rs, NEW levels, Len(levels) \in Nat, NEW off \in Nat, IsRunsFrom(rs, levels, off, 1),
         NEW j \in 1..Len(rs), NEW k \in 1..Len(rs), j < k
  PROVE  rs[j].offset + rs[j].length <= rs[k].offset
<1> DEFINE n == Len(rs)
           T == {m \in Nat : j + 1 + m <= n => rs[j].offset + rs[j].length <= rs[j + 1 + m].offset}
<1>0. n \in Nat /\ j \in Nat /\ j >= 1 /\ k \in Nat /\ k <= n
  BY RunBounds
<1> HIDE DEF n
<1>b. \A m \in 1..n : IsRunAt(rs, levels, off, Len(levels), m)
  BY RunBounds DEF n
<1>a. \A m \in 1..n : /\ rs[m].offset \in Nat /\ rs[m].length \in Nat \ {0}
                      /\ m # 1 => rs[m].offset = rs[m - 1].offset + rs[m - 1].length
  BY <1>b DEF IsRunAt
<1>1. 0 \in T
  <2>1. j + 1 <= n => j + 1 \in 1..n /\ j + 1 # 1 /\ j + 1 - 1 = j
    BY <1>0
  <2>2. j + 1 <= n => rs[j + 1].offset = rs[j].offset + rs[j].length /\ rs[j + 1].offset \in Nat
    BY <1>a, <2>1
  <2>3. j + 1 + 0 = j + 1
    BY <1>0
  <2>4. QED
    BY <2>2, <2>3
<1>2. ASSUME NEW m \in 0..(k - j - 1 - 1), m \in T PROVE m + 1 \in T
  <2>1. SUFFICES ASSUME j + 1 + (m + 1) <= n
                 PROVE rs[j].offset + rs[j].length <= rs[j + 1 + (m + 1)].offset
    BY <1>0
  <2>2. PICK y \in 1..n : y = j + 1 + m
    BY <1>0, <2>1
  <2>3. y + 1 \in 1..n /\ y + 1 # 1 /\ y + 1 - 1 = y /\ j + 1 + (m + 1) = y + 1 /\ j \in 1..n
    BY <1>0, <2>1, <2>2 DEF n
  <2>4. rs[j].offset + rs[j].length <= rs[y].offset
    BY <1>2, <2>2
  <2>5. rs[y + 1].offset = rs[y].offset + rs[y].length
    <3>1. \A x \in 1..n : x # 1 => rs[x].offset = rs[x - 1].offset + rs[x - 1].length
      BY <1>a
    <3>2. PICK z \in 1..n : z = y + 1 /\ z # 1 /\ z - 1 = y
      BY <2>3
    <3>3. rs[z].offset = rs[z - 1].offset + rs[z - 1].length
      BY <3>1, <3>2
    <3>4. QED
      BY <3>2, <3>3
  <2>6. PICK p \in Nat, q \in Nat, e \in Nat, f \in Nat :
          p = rs[j].offset /\ q = rs[j].length /\ e = rs[y].offset /\ f = rs[y].length
    BY <1>a, <2>3
  <2>7. p + q <= e
    BY <2>4, <2>6
  <2>8. p + q <= e + f
    BY <2>7
  <2>9. rs[y + 1].offset = e + f
    BY <2>5, <2>6
  <2>10. rs[j].offset + rs[j].length <= rs[y + 1].offset
    BY <2>6, <2>8, <2>9
  <2>11. QED
    BY <2>3, <2>10
<1>3. k - j - 1 \in Nat
  BY <1>0
<1>4. k - j - 1 \in T
  <2> HIDE DEF T
  <2>1. \A m \in 0..(k - j - 1) : m \in T
    BY <1>1, <1>2, <1>3, Numbers!UpToInduction
  <2>2. QED
    BY <1>3, <2>1
<1>5. j + 1 + (k - j - 1) = k
  BY <1>0
<1>6. QED
  BY <1>0, <1>4, <1>5

LEMMA UnitHasRun ==
  ASSUME NEW rs, NEW levels, NEW n \in Nat, Len(levels) = n, NEW off \in Nat,
         IsRunsFrom(rs, levels, off, 1), NEW i \in off..(off + n - 1)
  PROVE  \E k \in 1..Len(rs) : InRun(rs[k], i)
<1>0. Len(levels) \in Nat /\ n >= 1
  OBVIOUS
<1>1. PICK m \in Nat : m = Len(rs) /\ m >= 1
  BY <1>0, RunBounds
<1> DEFINE T == {k \in 1..m : i < rs[k].offset + rs[k].length}
<1>a. \A k \in 1..m : /\ rs[k].offset \in Nat /\ rs[k].length \in Nat \ {0}
                      /\ k # 1 => rs[k].offset = rs[k - 1].offset + rs[k - 1].length
                      /\ k = m => rs[k].offset + rs[k].length = off + n
  <2>1. \A k \in 1..m : IsRunAt(rs, levels, off, n, k)
    BY <1>0, <1>1, RunBounds
  <2>2. QED
    BY <1>1, <2>1 DEF IsRunAt
<1>2. m \in T
  BY <1>1, <1>a
<1>3. PICK k \in T : \A j \in T : k <= j
  <2>1. T \in SUBSET Nat /\ T # {}
    BY <1>2
  <2> HIDE DEF T
  <2>2. QED
    BY <2>1, Numbers!LeastNatural
<1>4. rs[1].offset = off
  BY <1>1, RunBounds
<1>5. k # 1 => rs[k - 1].offset + rs[k - 1].length <= i
  <2>1. SUFFICES ASSUME k # 1 PROVE rs[k - 1].offset + rs[k - 1].length <= i
    OBVIOUS
  <2>2. k - 1 \in 1..m /\ k - 1 \notin T
    BY <1>3, <2>1
  <2>3. rs[k - 1].offset \in Nat /\ rs[k - 1].length \in Nat
    BY <1>a, <2>2
  <2>4. QED
    BY <2>2, <2>3
<1>6. rs[k].offset <= i
  <2>1. CASE k = 1
    BY <1>4, <2>1
  <2>2. CASE k # 1
    BY <1>a, <1>5, <2>2
  <2>3. QED
    BY <2>1, <2>2
<1>7. QED
  BY <1>1, <1>6 DEF InRun

(* Runs of later units come later.                                         *)
LEMMA RunsOfUnits ==
  ASSUME NEW rs, NEW levels, Len(levels) \in Nat, NEW off \in Nat, IsRunsFrom(rs, levels, off, 1),
         NEW a \in 1..Len(rs), NEW b \in 1..Len(rs),
         NEW i \in Nat, NEW j \in Nat, InRun(rs[a], i), InRun(rs[b], j), i <= j
  PROVE  a <= b
<1>1. SUFFICES ASSUME b < a PROVE FALSE
  BY RunBounds
<1>2. rs[b].offset + rs[b].length <= rs[a].offset
  BY <1>1, RunsFollow
<1>3. PICK e \in Nat, f \in Nat, g \in Nat : e = rs[b].offset /\ f = rs[b].length /\ g = rs[a].offset
  BY RunBounds DEF IsRunAt
<1>4. j < e + f /\ g <= i
  BY <1>3 DEF InRun
<1>5. e + f <= g
  BY <1>2, <1>3
<1>6. QED
  BY <1>4, <1>5

(* m is the lowest level of the units from i to j.                         *)
IsLowestLevel(levels, off, i, j, m) ==
  /\ \E k \in i..j : levels[k - off + 1] = m
  /\ \A k \in i..j : m <= levels[k - off + 1]

LEMMA LowestOfUnits ==
  ASSUME NEW rs, NEW levels, NEW n \in Nat, Len(levels) = n, NEW off \in Nat,
         IsRunsFrom(rs, levels, off, 1),
         NEW a \in 1..Len(rs), NEW b \in 1..Len(rs),
         NEW i \in Nat, NEW j \in Nat, InRun(rs[a], i), InRun(rs[b], j), i <= j,
         NEW m \in Nat, IsLowest(rs, a, b, m)
  PROVE  IsLowestLevel(levels, off, i, j, m)
<1>1. PICK c \in a..b : rs[c].level = m
  BY DEF IsLowest
<1>2. a <= b /\ a \in Nat /\ b \in Nat /\ b <= Len(rs) /\ Len(rs) \in Nat
  BY RunBounds, RunsOfUnits
<1>3. \A k \in 1..Len(rs) :
        /\ rs[k].offset \in Nat /\ rs[k].length \in Nat \ {0}
        /\ off <= rs[k].offset /\ rs[k].offset + rs[k].length <= off + n
        /\ \A u \in Nat : InRun(rs[k], u) => levels[u - off + 1] = rs[k].level
  <2>1. Len(levels) \in Nat
    OBVIOUS
  <2>2. \A k \in 1..Len(rs) : IsRunAt(rs, levels, off, n, k)
    BY <2>1, RunBounds
  <2>3. QED
    BY <2>2 DEF IsRunAt
<1>a. PICK p \in Nat, q \in Nat, y \in Nat, z \in Nat :
        p = rs[a].offset /\ q = rs[a].length /\ y = rs[b].offset /\ z = rs[b].length
  BY <1>3
<1>b. off <= p /\ y + z <= off + n
  <2>1. off <= rs[a].offset /\ rs[b].offset + rs[b].length <= off + n
    BY <1>3
  <2>2. QED
    BY <1>a, <2>1
<1>c. p <= i /\ i < p + q /\ y <= j /\ j < y + z
  BY <1>a DEF InRun
<1>4. rs[a].offset <= i /\ i < rs[a].offset + rs[a].length /\ rs[b].offset <= j /\ j < rs[b].offset + rs[b].length
  BY DEF InRun
<1>5. \E k \in i..j : levels[k - off + 1] = m
  <2>1. c \in 1..Len(rs)
    BY <1>2
  <2>2. CASE c = a
    <3>1. i \in i..j /\ levels[i - off + 1] = rs[a].level
      BY <1>3
    <3>2. QED
      BY <1>1, <2>2, <3>1
  <2>3. CASE c # a
    <3>1. PICK x \in Nat, l \in Nat : x = rs[c].offset /\ l = rs[c].length /\ l >= 1
      BY <1>3, <2>1, SMTT(40)
    <3>2. rs[a].offset + rs[a].length <= x
      BY <1>2, <2>1, <2>3, <3>1, RunsFollow, SMTT(40)
    <3>3. i <= x
      <4>1. p + q <= x
        BY <1>a, <3>2
      <4>2. QED
        BY <1>c, <4>1
    <3>4. x <= j
      <4>1. CASE c = b
        BY <1>a, <1>c, <3>1, <4>1
      <4>2. CASE c # b
        <5>1. rs[c].offset + rs[c].length <= rs[b].offset
          BY <1>2, <2>1, <4>2, RunsFollow
        <5>2. x + l <= y
          BY <1>a, <3>1, <5>1
        <5>3. QED
          BY <1>c, <5>2
      <4>3. QED
        BY <4>1, <4>2
    <3>5. InRun(rs[c], x)
      BY <3>1, SMTT(40) DEF InRun
    <3>6. levels[x - off + 1] = rs[c].level
      BY <1>3, <2>1, <3>1, <3>5
    <3>7. x \in i..j
      BY <3>1, <3>3, <3>4
    <3>8. QED
      BY <1>1, <3>6, <3>7
  <2>4. QED
    BY <2>2, <2>3
<1>6. ASSUME NEW k \in i..j PROVE m <= levels[k - off + 1]
  <2>1. k \in off..(off + n - 1) /\ k \in Nat
    BY <1>b, <1>c
  <2>2. PICK d \in 1..Len(rs) : InRun(rs[d], k)
    BY <2>1, UnitHasRun
  <2>3. a <= d /\ d <= b
    BY <2>1, <2>2, RunsOfUnits, SMTT(40)
  <2>4. d \in a..b
    BY <1>2, <2>3
  <2>5. m <= rs[d].level
    BY <2>4 DEF IsLowest
  <2>6. levels[k - off + 1] = rs[d].level
    BY <1>3, <2>1, <2>2
  <2>7. QED
    BY <2>5, <2>6
<1>7. QED
  BY <1>5, <1>6 DEF IsLowestLevel

(* Between units of different runs the level changes.                      *)
ChangesLevel(levels, off, i, j) == \E k \in i..j : levels[k - off + 1] # levels[i - off + 1]

LEMMA LevelChanges ==
  ASSUME NEW rs, NEW levels, NEW n \in Nat, Len(levels) = n, NEW off \in Nat,
         IsRunsFrom(rs, levels, off, 1),
         NEW a \in 1..Len(rs), NEW b \in 1..Len(rs), a < b,
         NEW i \in Nat, NEW j \in Nat, InRun(rs[a], i), InRun(rs[b], j)
  PROVE  ChangesLevel(levels, off, i, j)
<1>1. PICK c \in 1..Len(rs) : c = a + 1 /\ c # 1 /\ c - 1 = a /\ c <= b
  BY RunBounds
<1>2. \A k \in 1..Len(rs) :
        /\ rs[k].offset \in Nat /\ rs[k].length \in Nat \ {0}
        /\ \A u \in Nat : InRun(rs[k], u) => levels[u - off + 1] = rs[k].level
        /\ k # 1 => rs[k].offset = rs[k - 1].offset + rs[k - 1].length /\ rs[k].level # rs[k - 1].level
  <2>1. Len(levels) \in Nat
    OBVIOUS
  <2>2. \A k \in 1..Len(rs) : IsRunAt(rs, levels, off, n, k)
    BY <2>1, RunBounds
  <2>3. QED
    BY <2>2 DEF IsRunAt
<1>3. PICK x \in Nat : x = rs[c].offset
  BY <1>1, <1>2
<1>4. rs[c].level # rs[a].level /\ x = rs[a].offset + rs[a].length
  BY <1>1, <1>2, <1>3
<1>5. levels[i - off + 1] = rs[a].level
  BY <1>2
<1>6. InRun(rs[c], x)
  <2>1. PICK l \in Nat \ {0} : l = rs[c].length
    BY <1>2
  <2>2. x <= x /\ x < x + l
    BY <2>1, SMTT(40)
  <2>3. QED
    BY <1>3, <2>1, <2>2 DEF InRun
<1>7. levels[x - off + 1] = rs[c].level
  BY <1>2, <1>6
<1>8. i < x
  BY <1>4 DEF InRun
<1>9. x <= j
  <2>1. CASE c = b
    BY <1>3, <2>1 DEF InRun
  <2>2. CASE c # b
    <3>1. rs[c].offset + rs[c].length <= rs[b].offset
      BY <1>1, <2>2, RunsFollow
    <3>2. PICK y \in Nat, l \in Nat : y = rs[b].offset /\ l = rs[c].length
      BY <1>2
    <3>3. y <= j
      BY <3>2 DEF InRun
    <3>4. x + l <= y
      BY <1>3, <3>1, <3>2
    <3>5. QED
      BY <3>2, <3>3, <3>4, SMTT(40)
  <2>3. QED
    BY <2>1, <2>2
<1>10. x \in i..j
  BY <1>3, <1>8, <1>9, SMTT(40)
<1>11. QED
  BY <1>4, <1>5, <1>7, <1>10 DEF ChangesLevel

-----------------------------------------------------------------------------
(* The units of a line in the order of display.                            *)

(* Run q has units of the line, of its level.                              *)
HoldsUnits(line, lv, off, n, q) ==
  \A i \in Nat : InRun(line.runs[q], i) => i \in off..(off + n - 1) /\ lv[i - off + 1] = line.runs[q].level

LEMMA LineUnits ==
  ASSUME NEW line, NEW types, NEW levels, NEW off \in Nat, NEW base, NEW n \in Nat, NEW lv, NEW rs,
         NEW pos, IsLine(line, types, levels, off, base, n, lv, rs, pos)
  PROVE  /\ Len(line.runs) \in Nat
         /\ \A i \in off..(off + n - 1) : \E q \in 1..Len(line.runs) : InRun(line.runs[q], i)
         /\ \A q \in 1..Len(line.runs) : HoldsUnits(line, lv, off, n, q)
<1>1. /\ Len(lv) = n /\ IsRunsFrom(rs, lv, off, 1) /\ Len(line.runs) = Len(rs)
      /\ IsDisplayed(pos, rs, line.runs)
  BY DEF IsLine
<1>0. Len(lv) \in Nat
  BY <1>1
<1>2. PICK m \in Nat : m = Len(rs)
  BY <1>0, <1>1, RunBounds
<1>a. \A k \in 1..m : IsRunAt(rs, lv, off, n, k)
  BY <1>0, <1>1, <1>2, RunBounds
<1>3. /\ \A i \in 1..m : pos[i] \in 1..m /\ line.runs[pos[i]] = rs[i]
      /\ \A q \in 1..m : \E i \in 1..m : pos[i] = q
  BY <1>1, <1>2 DEF IsDisplayed
<1>4. ASSUME NEW i \in off..(off + n - 1) PROVE \E q \in 1..m : InRun(line.runs[q], i)
  <2>1. PICK k \in 1..m : InRun(rs[k], i)
    BY <1>1, <1>2, UnitHasRun
  <2>2. QED
    BY <1>3, <2>1
<1>5. ASSUME NEW q \in 1..m, NEW i \in Nat, InRun(line.runs[q], i)
      PROVE  i \in off..(off + n - 1) /\ lv[i - off + 1] = line.runs[q].level
  <2>1. PICK k \in 1..m : line.runs[q] = rs[k]
    BY <1>3
  <2>2. PICK o \in Nat, l \in Nat : o = rs[k].offset /\ l = rs[k].length /\ off <= o /\ o + l <= off + n
    BY <1>a DEF IsRunAt
  <2>3. o <= i /\ i < o + l
    BY <1>5, <2>1, <2>2 DEF InRun
  <2>4. i \in off..(off + n - 1)
    BY <2>2, <2>3
  <2>5. lv[i - off + 1] = rs[k].level
    BY <1>a, <1>5, <2>1 DEF IsRunAt
  <2>6. QED
    BY <2>1, <2>4, <2>5
<1>6. \A q \in 1..m : HoldsUnits(line, lv, off, n, q)
  BY <1>5 DEF HoldsUnits
<1>7. QED
  BY <1>1, <1>2, <1>4, <1>6

LEMMA LowestIsOne ==
  ASSUME NEW levels, NEW off, NEW i, NEW j, NEW m \in Nat, NEW k \in Nat,
         IsLowestLevel(levels, off, i, j, m), IsLowestLevel(levels, off, i, j, k)
  PROVE  m = k
<1>1. m <= k /\ k <= m
  BY DEF IsLowestLevel
<1>2. QED
  BY <1>1

(* q is before s as the lowest level of the units from i to j says.        *)
LowestSays(levels, off, i, j, q, s) ==
  \E m \in Nat : IsLowestLevel(levels, off, i, j, m) /\ (q < s <=> ~IsOdd(m))

(* Of units of different runs the one comes first that the lowest level    *)
(* between them says, and the level changes between them.                  *)
LEMMA RunsShown ==
  ASSUME NEW line, NEW types, NEW levels, NEW off \in Nat, NEW base, NEW n \in Nat, NEW lv, NEW rs,
         NEW pos, IsLine(line, types, levels, off, base, n, lv, rs, pos),
         NEW q \in 1..Len(line.runs), NEW s \in 1..Len(line.runs), q # s,
         NEW i \in Nat, NEW j \in Nat, i <= j, InRun(line.runs[q], i), InRun(line.runs[s], j)
  PROVE  i < j /\ LowestSays(lv, off, i, j, q, s) /\ ChangesLevel(lv, off, i, j)
<1>1. /\ Len(lv) = n /\ IsRunsFrom(rs, lv, off, 1) /\ Len(line.runs) = Len(rs)
      /\ IsDisplayed(pos, rs, line.runs) /\ rs \in Seq(Run)
  BY DEF IsLine, IsRunsFrom
<1>2. PICK e \in Nat : e = Len(rs)
  BY <1>1, RunBounds
<1>3. PICK a \in 1..e, b \in 1..e : pos[a] = q /\ pos[b] = s /\ line.runs[q] = rs[a] /\ line.runs[s] = rs[b]
  <2>1. \A x \in 1..e : line.runs[pos[x]] = rs[x]
    BY <1>1, <1>2 DEF IsDisplayed
  <2>2. \A x \in 1..e : \E y \in 1..e : pos[y] = x
    BY <1>1, <1>2 DEF IsDisplayed
  <2>3. q \in 1..e /\ s \in 1..e
    BY <1>1, <1>2
  <2>4. PICK a \in 1..e : pos[a] = q
    BY <2>2, <2>3
  <2>5. PICK b \in 1..e : pos[b] = s
    BY <2>2, <2>3
  <2>6. line.runs[q] = rs[a] /\ line.runs[s] = rs[b]
    BY <2>1, <2>4, <2>5
  <2>7. QED
    BY <2>4, <2>5, <2>6
<1>4. InRun(rs[a], i) /\ InRun(rs[b], j)
  BY <1>3
<1>5. a <= b
  BY <1>1, <1>2, <1>4, RunsOfUnits
<1>6. a < b
  BY <1>3, <1>5
<1>7. PICK m \in Nat : IsLowest(rs, a, b, m)
  <2>1. b \in a..Len(rs)
    BY <1>2, <1>5
  <2>2. QED
    BY <1>1, <1>2, <2>1, HasLowest
<1>8. IsLowestLevel(lv, off, i, j, m)
  BY <1>1, <1>2, <1>4, <1>7, LowestOfUnits
<1>9. pos[a] < pos[b] <=> ~IsOdd(m)
  <2>1. a \in 1..Len(rs) /\ b \in 1..Len(rs)
    BY <1>2
  <2>2. QED
    BY <1>1, <1>6, <1>7, <2>1 DEF IsDisplayed
<1>10. ChangesLevel(lv, off, i, j)
  <2>1. a \in 1..Len(rs) /\ b \in 1..Len(rs) /\ Len(lv) = n
    BY <1>1, <1>2
  <2>2. QED
    BY <1>1, <1>4, <1>6, <2>1, LevelChanges
<1>11. i < j
  <2>1. PICK k \in i..j : lv[k - off + 1] # lv[i - off + 1]
    BY <1>10 DEF ChangesLevel
  <2>2. QED
    BY <2>1
<1>12. q < s <=> ~IsOdd(m)
  BY <1>3, <1>9
<1>13. QED
  BY <1>8, <1>10, <1>11, <1>12 DEF LowestSays

LEMMA UnitInOneRun ==
  ASSUME NEW line, NEW types, NEW levels, NEW off \in Nat, NEW base, NEW n \in Nat, NEW lv, NEW rs,
         NEW pos, IsLine(line, types, levels, off, base, n, lv, rs, pos),
         NEW q \in 1..Len(line.runs), NEW s \in 1..Len(line.runs), NEW i \in Nat,
         InRun(line.runs[q], i), InRun(line.runs[s], i)
  PROVE  q = s
<1>1. SUFFICES ASSUME q # s PROVE FALSE
  OBVIOUS
<1>2. i <= i
  OBVIOUS
<1>3. i < i
  BY <1>1, <1>2, RunsShown
<1>4. QED
  BY <1>3

(* Unit i is in run q and has its level.                                   *)
IsOfRun(line, lv, off, q, i) == InRun(line.runs[q], i) /\ lv[i - off + 1] = line.runs[q].level

LEMMA SameRun ==
  ASSUME NEW line, NEW types, NEW levels, NEW off \in Nat, NEW base, NEW n \in Nat, NEW lv, NEW rs,
         NEW pos, IsLine(line, types, levels, off, base, n, lv, rs, pos),
         NEW q \in 1..Len(line.runs), NEW i \in Nat, NEW j \in Nat,
         InRun(line.runs[q], i), InRun(line.runs[q], j)
  PROVE  \A k \in i..j : IsOfRun(line, lv, off, q, k)
<1>1. PICK o \in Nat, l \in Nat : o = line.runs[q].offset /\ l = line.runs[q].length
  BY LineInside
<1>2. ASSUME NEW k \in i..j PROVE k \in Nat /\ InRun(line.runs[q], k)
  <2>1. o <= i /\ j < o + l
    BY <1>1 DEF InRun
  <2>2. k \in Nat /\ o <= k /\ k < o + l
    BY <1>1, <1>2, <2>1, SMTT(40)
  <2>3. QED
    BY <1>1, <2>2 DEF InRun
<1>a. HoldsUnits(line, lv, off, n, q)
  BY LineUnits
<1>3. ASSUME NEW k \in Nat, InRun(line.runs[q], k) PROVE lv[k - off + 1] = line.runs[q].level
  BY <1>a, <1>3 DEF HoldsUnits
<1>4. QED
  BY <1>2, <1>3 DEF IsOfRun

-----------------------------------------------------------------------------
(* What a mirror locator has reported.                                     *)

(* Unit i starts a mirrored code point of run q, displayed from right to   *)
(* left.                                                                   *)
MirrorIn(t, line, q, i) ==
  /\ InRun(line.runs[q], i) /\ IsOdd(line.runs[q].level)
  /\ LookupMirror(t.units[i + 1]) # NoMirror

(* The locator is past unit i of run q.                                    *)
IsPast(r, q, i) ==
  \/ q <= r.runIndex
  \/ q = r.runIndex + 1 /\ r.stringIndex # SBInvalidIndex /\ i < r.stringIndex

(* Reported are those that the locator is past, or, at the end, all.       *)
IsReported(t, r, all, q, i) == MirrorIn(t, r.line, q, i) /\ (all \/ IsPast(r, q, i))

EarlierIn(line, i, j) ==
  \E q \in 1..Len(line.runs), s \in 1..Len(line.runs) :
     /\ InRun(line.runs[q], i) /\ InRun(line.runs[s], j)
     /\ q < s \/ (q = s /\ i < j)

AreReported(t, r, g, all) ==
  /\ \A q \in 1..Len(r.line.runs), i \in Nat :
        IsReported(t, r, all, q, i) => \E k \in DOMAIN g : g[k].index = i
  /\ \A k \in DOMAIN g :
        /\ g[k].index \in Nat /\ g[k].mirror = LookupMirror(t.units[g[k].index + 1])
        /\ \E q \in 1..Len(r.line.runs) : IsReported(t, r, all, q, g[k].index)
  /\ \A k, l \in DOMAIN g : k < l => EarlierIn(r.line, g[k].index, g[l].index)

(* Of a text of as many units as the largest integer, the locator takes    *)
(* the end for "not begun" and reports its last mirrored code point again. *)
RepeatsLast(t, r) ==
  \E k \in r.runIndex..(Len(r.line.runs) - 1) :
     \E i \in MirroredIn(r, t.units, k) : NextIndex(t.units, i) = SBInvalidIndex

IsInItsRun(r) ==
  r.stringIndex # SBInvalidIndex => r.line.runs[r.runIndex + 1].offset <= r.stringIndex

UnitsAreCodepoints(t) == t.units \in Seq(DOMAIN Codepoints)

(* A code point ends after it starts, and none that is mirrored starts     *)
(* inside.                                                                 *)
LEMMA NextIs ==
  ASSUME NEW t, UnitsAreCodepoints(t), NEW i \in Nat, i < Len(t.units)
  PROVE  /\ NextIndex(t.units, i) \in Nat /\ i < NextIndex(t.units, i)
         /\ \A j \in Nat : i < j /\ j < NextIndex(t.units, i) => LookupMirror(t.units[j + 1]) = NoMirror
<1>1. PICK n \in Nat : n = Len(t.units) /\ \A k \in 1..n : t.units[k] \in DOMAIN Codepoints
  BY DEF UnitsAreCodepoints
<1>2. CASE i + 2 <= n /\ t.units[i + 1] # Trailing /\ t.units[i + 2] = Trailing
  <2>1. NextIndex(t.units, i) = i + 2
    BY <1>1, <1>2 DEF NextIndex
  <2>2. i + 2 \in 1..n
    BY <1>2
  <2>3. LookupMirror(t.units[i + 2]) = NoMirror
    BY <1>1, <1>2, <2>2, TrailingAssumption
  <2>4. \A j \in Nat : i < j /\ j < i + 2 => j + 1 = i + 2
    OBVIOUS
  <2>5. QED
    BY <2>1, <2>3, <2>4
<1>3. CASE ~(i + 2 <= n /\ t.units[i + 1] # Trailing /\ t.units[i + 2] = Trailing)
  <2>1. NextIndex(t.units, i) = i + 1
    BY <1>1, <1>3 DEF NextIndex
  <2>2. \A j \in Nat : ~(i < j /\ j < i + 1)
    OBVIOUS
  <2>3. QED
    BY <2>1, <2>2
<1>4. QED
  BY <1>2, <1>3

(* A mirrored code point of a run that is still to come is one that the    *)
(* search finds, or the locator is past it.                                *)
LEMMA SearchOrPast ==
  ASSUME NEW t, IsCut(t), NEW r, IsMirror(t, r), r.line # NoLine,
         NEW k \in Nat, k + 1 \in 1..Len(r.line.runs), NEW i \in Nat, MirrorIn(t, r.line, k + 1, i)
  PROVE  i \in MirroredIn(r, t.units, k) \/ (k = r.runIndex /\ IsPast(r, k + 1, i))
<1>1. PICK o \in Nat, l \in Nat : o = r.line.runs[k + 1].offset /\ l = r.line.runs[k + 1].length
  BY MirrorLineInside
<1>2. o <= i /\ i < o + l /\ IsOdd(r.line.runs[k + 1].level) /\ LookupMirror(t.units[i + 1]) # NoMirror
  BY <1>1 DEF MirrorIn, InRun
<1>3. r.runIndex \in Nat /\ r.stringIndex \in Nat
  BY DEF IsMirror
<1>4. CASE k = r.runIndex /\ r.stringIndex # SBInvalidIndex /\ i < r.stringIndex
  BY <1>3, <1>4 DEF IsPast
<1>5. CASE ~(k = r.runIndex /\ r.stringIndex # SBInvalidIndex /\ i < r.stringIndex)
  <2>1. PICK f \in Nat : f = SearchFrom(r, k)
    BY <1>1, <1>3 DEF SearchFrom
  <2>2. f <= i
    BY <1>1, <1>2, <1>3, <1>5, <2>1 DEF SearchFrom
  <2>3. i \in f..(o + l - 1)
    BY <1>2, <2>2
  <2>4. QED
    BY <1>1, <1>2, <2>1, <2>3 DEF MirroredIn
<1>6. QED
  BY <1>4, <1>5

(* What the search finds is mirrored, and the locator is not past it.      *)
LEMMA SearchFinds ==
  ASSUME NEW t, IsCut(t), NEW r, IsMirror(t, r), r.line # NoLine, IsInItsRun(r),
         NEW k \in Nat, k + 1 \in 1..Len(r.line.runs), NEW i \in MirroredIn(r, t.units, k)
  PROVE  /\ i \in Nat /\ MirrorIn(t, r.line, k + 1, i)
         /\ k = r.runIndex /\ r.stringIndex # SBInvalidIndex => r.stringIndex <= i
<1>1. PICK o \in Nat, l \in Nat : o = r.line.runs[k + 1].offset /\ l = r.line.runs[k + 1].length
  BY MirrorLineInside
<1>2. r.runIndex \in Nat /\ r.stringIndex \in Nat
  BY DEF IsMirror
<1>3. PICK f \in Nat : /\ f = SearchFrom(r, k) /\ o <= f
                       /\ k = r.runIndex /\ r.stringIndex # SBInvalidIndex => f = r.stringIndex
  <2>1. CASE k = r.runIndex /\ r.stringIndex # SBInvalidIndex
    <3>1. o <= r.stringIndex
      BY <1>1, <2>1 DEF IsInItsRun
    <3>2. SearchFrom(r, k) = r.stringIndex
      BY <2>1 DEF SearchFrom
    <3>3. QED
      BY <1>2, <2>1, <3>1, <3>2
  <2>2. CASE ~(k = r.runIndex /\ r.stringIndex # SBInvalidIndex)
    <3>1. SearchFrom(r, k) = o
      BY <1>1, <2>2 DEF SearchFrom
    <3>2. QED
      BY <2>2, <3>1
  <2>3. QED
    BY <2>1, <2>2
<1>4. /\ i \in f..(o + l - 1) /\ IsOdd(r.line.runs[k + 1].level)
      /\ LookupMirror(t.units[i + 1]) # NoMirror
  BY <1>1, <1>3 DEF MirroredIn
<1>5. i \in Nat /\ o <= i /\ i < o + l
  BY <1>3, <1>4, SMTT(40)
<1>6. QED
  BY <1>1, <1>3, <1>4, <1>5 DEF MirrorIn, InRun

(* At the end all are reported.                                            *)
LEMMA AllReported ==
  ASSUME NEW t, IsCut(t), NEW r, IsMirror(t, r), r.line # NoLine, NEW g, AreReported(t, r, g, FALSE),
         \A k \in r.runIndex..(Len(r.line.runs) - 1) : MirroredIn(r, t.units, k) = {},
         NEW r2, r2.line = r.line
  PROVE  AreReported(t, r2, g, TRUE)
<1>1. PICK m \in Nat : m = Len(r.line.runs)
  BY LineIsThere DEF IsMirror
<1>2. r.runIndex \in Nat /\ r.stringIndex \in Nat
  BY DEF IsMirror
<1>3. ASSUME NEW q \in 1..m, NEW i \in Nat, IsReported(t, r2, TRUE, q, i)
      PROVE  IsReported(t, r, FALSE, q, i)
  <2>1. MirrorIn(t, r.line, q, i)
    BY <1>3 DEF IsReported
  <2>2. PICK k \in Nat : k + 1 = q
    BY <1>1
  <2>3. i \in MirroredIn(r, t.units, k) \/ (k = r.runIndex /\ IsPast(r, k + 1, i))
    BY <1>1, <2>1, <2>2, SearchOrPast
  <2>4. CASE k < r.runIndex
    <3>1. IsPast(r, q, i)
      BY <1>2, <2>2, <2>4 DEF IsPast
    <3>2. QED
      BY <2>1, <3>1 DEF IsReported
  <2>5. CASE r.runIndex <= k
    <3>1. k \in r.runIndex..(m - 1)
      BY <1>1, <1>2, <2>2, <2>5
    <3>2. i \notin MirroredIn(r, t.units, k)
      BY <1>1, <3>1
    <3>3. QED
      BY <2>1, <2>2, <2>3, <3>2 DEF IsReported
  <2>6. k < r.runIndex \/ r.runIndex <= k
    BY <1>2
  <2>7. QED
    BY <2>4, <2>5, <2>6, Zenon
<1>4. ASSUME NEW q \in 1..m, NEW i, IsReported(t, r, FALSE, q, i)
      PROVE  IsReported(t, r2, TRUE, q, i)
  BY <1>4 DEF IsReported
<1>5. \A q \in 1..m, i \in Nat : IsReported(t, r2, TRUE, q, i) => \E k \in DOMAIN g : g[k].index = i
  BY <1>1, <1>3 DEF AreReported
<1>6. ASSUME NEW k \in DOMAIN g
      PROVE  /\ g[k].index \in Nat /\ g[k].mirror = LookupMirror(t.units[g[k].index + 1])
             /\ \E q \in 1..m : IsReported(t, r2, TRUE, q, g[k].index)
  <2>1. /\ g[k].index \in Nat /\ g[k].mirror = LookupMirror(t.units[g[k].index + 1])
        /\ \E q \in 1..m : IsReported(t, r, FALSE, q, g[k].index)
    BY <1>1 DEF AreReported
  <2>2. QED
    BY <1>4, <2>1
<1>7. \A k, l \in DOMAIN g : k < l => EarlierIn(r2.line, g[k].index, g[l].index)
  BY DEF AreReported
<1>8. QED
  BY <1>1, <1>5, <1>6, <1>7 DEF AreReported

-----------------------------------------------------------------------------
(* A move found the code point at `index` in a run.                        *)
IsFound(t, r, run, index) ==
  /\ run \in Nat /\ r.runIndex <= run /\ run + 1 \in 1..Len(r.line.runs)
  /\ \A k \in r.runIndex..(run - 1) : MirroredIn(r, t.units, k) = {}
  /\ index \in MirroredIn(r, t.units, run)
  /\ \A i \in MirroredIn(r, t.units, run) : index <= i
  /\ index \in Nat /\ index < Len(t.units)

(* The locator is past the one that it found, and past no other one more.  *)
LEMMA PastOneMore ==
  ASSUME NEW t, IsCut(t), UnitsAreCodepoints(t), NEW r, IsMirror(t, r), r.line # NoLine, IsInItsRun(r),
         NEW run, NEW index, IsFound(t, r, run, index),
         NEW r2, r2.line = r.line, r2.runIndex = run, r2.stringIndex = NextIndex(t.units, index),
         NextIndex(t.units, index) # SBInvalidIndex,
         NEW q \in 1..Len(r.line.runs), NEW i \in Nat, MirrorIn(t, r.line, q, i)
  PROVE  IsPast(r2, q, i) <=> IsPast(r, q, i) \/ (q = run + 1 /\ i = index)
<1>1. /\ run \in Nat /\ r.runIndex <= run /\ run + 1 \in 1..Len(r.line.runs)
      /\ \A k \in r.runIndex..(run - 1) : MirroredIn(r, t.units, k) = {}
      /\ index \in MirroredIn(r, t.units, run)
      /\ \A j \in MirroredIn(r, t.units, run) : index <= j
      /\ index \in Nat /\ index < Len(t.units)
  BY DEF IsFound
<1>2. r.runIndex \in Nat /\ r.stringIndex \in Nat
  BY DEF IsMirror
<1>3. PICK next \in Nat : /\ next = NextIndex(t.units, index) /\ index < next
                          /\ \A j \in Nat : index < j /\ j < next => LookupMirror(t.units[j + 1]) = NoMirror
  BY <1>1, NextIs
<1>a. PICK m \in Nat : m = Len(r.line.runs)
  BY LineIsThere DEF IsMirror
<1>4. PICK k \in Nat : q = k + 1
  BY <1>a
<1>5. k + 1 \in 1..Len(r.line.runs) /\ MirrorIn(t, r.line, k + 1, i)
  BY <1>4
<1>6. i \in MirroredIn(r, t.units, k) \/ (k = r.runIndex /\ IsPast(r, q, i))
  BY <1>4, <1>5, SearchOrPast
<1>7. IsPast(r2, q, i) <=> k < run \/ (k = run /\ i < next)
  BY <1>1, <1>3, <1>4 DEF IsPast
<1>8. IsPast(r, q, i) <=> k < r.runIndex \/ (k = r.runIndex /\ r.stringIndex # SBInvalidIndex /\ i < r.stringIndex)
  BY <1>2, <1>4 DEF IsPast
<1>9. run = r.runIndex /\ r.stringIndex # SBInvalidIndex => r.stringIndex <= index
  BY <1>1, SearchFinds
<1>10. CASE k < r.runIndex
  <2>1. IsPast(r, q, i) /\ IsPast(r2, q, i)
    BY <1>1, <1>2, <1>7, <1>8, <1>10
  <2>2. QED
    BY <2>1
<1>11. CASE r.runIndex <= k /\ k < run
  <2>1. k \in r.runIndex..(run - 1)
    BY <1>1, <1>2, <1>11
  <2>2. IsPast(r, q, i)
    BY <1>1, <1>6, <2>1
  <2>3. IsPast(r2, q, i)
    BY <1>7, <1>11
  <2>4. QED
    BY <2>2, <2>3
<1>12. CASE k = run
  <2>1. LookupMirror(t.units[i + 1]) # NoMirror
    BY DEF MirrorIn
  <2>2. ~(index < i /\ i < next)
    BY <1>3, <2>1
  <2>3. IsPast(r2, q, i) <=> i < next
    BY <1>7, <1>12
  <2>4. CASE i < index
    <3>1. i \notin MirroredIn(r, t.units, k)
      BY <1>1, <1>12, <2>4
    <3>2. IsPast(r, q, i)
      BY <1>6, <3>1
    <3>3. i < next
      BY <1>1, <1>3, <2>4
    <3>4. QED
      BY <2>3, <3>2, <3>3
  <2>5. CASE i = index
    <3>1. i < next /\ q = run + 1
      BY <1>3, <1>4, <1>12, <2>5
    <3>2. QED
      BY <2>3, <2>5, <3>1
  <2>6. CASE index < i
    <3>1. ~(i < next)
      BY <2>2, <2>6
    <3>2. ~IsPast(r, q, i)
      BY <1>1, <1>2, <1>8, <1>9, <1>12, <2>6
    <3>3. i # index
      BY <1>1, <2>6
    <3>4. QED
      BY <2>3, <3>1, <3>2, <3>3
  <2>7. QED
    BY <1>1, <2>4, <2>5, <2>6
<1>13. CASE run < k
  <2>1. ~IsPast(r2, q, i)
    BY <1>1, <1>7, <1>13
  <2>2. ~IsPast(r, q, i)
    BY <1>1, <1>2, <1>8, <1>13
  <2>3. q # run + 1
    BY <1>1, <1>4, <1>13
  <2>4. QED
    BY <2>1, <2>2, <2>3
<1>14. QED
  BY <1>1, <1>2, <1>10, <1>11, <1>12, <1>13

LEMMA OneMoreReported ==
  ASSUME NEW t, IsCut(t), UnitsAreCodepoints(t), NEW r, IsMirror(t, r), r.line # NoLine, IsInItsRun(r),
         NEW run, NEW index, IsFound(t, r, run, index),
         NEW r2, r2.line = r.line, r2.runIndex = run, r2.stringIndex = NextIndex(t.units, index),
         NextIndex(t.units, index) # SBInvalidIndex,
         NEW g, IsSeq(g), AreReported(t, r, g, FALSE),
         NEW agent, agent.index = index, agent.mirror = LookupMirror(t.units[index + 1])
  PROVE  AreReported(t, r2, Append(g, agent), FALSE)
<1>1. PICK m \in Nat : m = Len(r.line.runs)
  BY LineIsThere DEF IsMirror
<1>2. PICK a : a = Append(g, agent)
  OBVIOUS
<1>3. PICK n \in Nat : /\ n = Len(g) /\ DOMAIN g = 1..n /\ DOMAIN a = 1..(n + 1)
                       /\ \A k \in 1..n : a[k] = g[k]
                       /\ a[n + 1] = agent
  BY <1>2, AppendSeq
<1>4. run \in Nat /\ run + 1 \in 1..m /\ index \in Nat /\ MirrorIn(t, r.line, run + 1, index)
  <2>1. run \in Nat /\ run + 1 \in 1..Len(r.line.runs) /\ index \in MirroredIn(r, t.units, run)
    BY DEF IsFound
  <2>2. QED
    BY <1>1, <2>1, SearchFinds
<1>5. \A q \in 1..m, i \in Nat : MirrorIn(t, r.line, q, i) =>
        (IsPast(r2, q, i) <=> IsPast(r, q, i) \/ (q = run + 1 /\ i = index))
  BY <1>1, PastOneMore
<1>6. ASSUME NEW q \in 1..m, NEW i \in Nat
      PROVE  IsReported(t, r2, FALSE, q, i) <=>
               IsReported(t, r, FALSE, q, i) \/ (q = run + 1 /\ i = index)
  <2>1. CASE MirrorIn(t, r.line, q, i)
    BY <1>5, <2>1 DEF IsReported
  <2>2. CASE ~MirrorIn(t, r.line, q, i)
    BY <1>4, <2>2 DEF IsReported
  <2>3. QED
    BY <2>1, <2>2
<1>7. ASSUME NEW q \in 1..m, NEW i \in Nat, IsReported(t, r2, FALSE, q, i)
      PROVE  \E k \in DOMAIN a : a[k].index = i
  <2>1. CASE IsReported(t, r, FALSE, q, i)
    <3>1. PICK k \in DOMAIN g : g[k].index = i
      BY <1>1, <2>1 DEF AreReported
    <3>2. k \in DOMAIN a /\ a[k] = g[k]
      BY <1>3
    <3>3. QED
      BY <3>1, <3>2
  <2>2. CASE q = run + 1 /\ i = index
    BY <1>3, <2>2
  <2>3. QED
    BY <1>6, <1>7, <2>1, <2>2
<1>8. ASSUME NEW k \in 1..n
      PROVE  /\ g[k].index \in Nat /\ g[k].mirror = LookupMirror(t.units[g[k].index + 1])
             /\ \E q \in 1..m : IsReported(t, r, FALSE, q, g[k].index)
  BY <1>1, <1>3 DEF AreReported
<1>9. ASSUME NEW k \in DOMAIN a
      PROVE  /\ a[k].index \in Nat /\ a[k].mirror = LookupMirror(t.units[a[k].index + 1])
             /\ \E q \in 1..m : IsReported(t, r2, FALSE, q, a[k].index)
  <2>1. CASE k \in 1..n
    <3>1. PICK q \in 1..m : IsReported(t, r, FALSE, q, g[k].index)
      BY <1>8, <2>1
    <3>2. g[k].index \in Nat /\ a[k] = g[k]
      BY <1>3, <1>8, <2>1
    <3>3. IsReported(t, r2, FALSE, q, g[k].index)
      BY <1>6, <3>1, <3>2
    <3>4. QED
      BY <1>8, <2>1, <3>2, <3>3
  <2>2. CASE k = n + 1
    <3>1. a[k] = agent
      BY <1>3, <2>2
    <3>2. IsReported(t, r2, FALSE, run + 1, index)
      BY <1>4, <1>6
    <3>3. QED
      BY <1>4, <3>1, <3>2
  <2>3. k \in 1..n \/ k = n + 1
    BY <1>3
  <2>4. QED
    BY <2>1, <2>2, <2>3, Zenon
<1>10. ASSUME NEW k \in DOMAIN a, NEW l \in DOMAIN a, k < l
       PROVE  EarlierIn(r2.line, a[k].index, a[l].index)
  <2>1. k \in 1..n /\ a[k] = g[k]
    BY <1>3, <1>10
  <2>2. CASE l \in 1..n
    <3>1. a[l] = g[l]
      BY <1>3, <2>2
    <3>2. EarlierIn(r.line, g[k].index, g[l].index)
      BY <1>3, <1>10, <2>1, <2>2 DEF AreReported
    <3>3. QED
      BY <2>1, <3>1, <3>2
  <2>3. CASE l = n + 1
    <3>1. PICK q \in 1..m : IsReported(t, r, FALSE, q, g[k].index)
      BY <1>8, <2>1
    <3>2. PICK i \in Nat : i = g[k].index
      BY <1>8, <2>1
    <3>3. InRun(r.line.runs[q], i) /\ InRun(r.line.runs[run + 1], index) /\ IsPast(r, q, i)
      BY <1>4, <3>1, <3>2 DEF IsReported, MirrorIn
    <3>4. r.runIndex \in Nat /\ r.stringIndex \in Nat /\ r.runIndex <= run
      BY DEF IsMirror, IsFound
    <3>5. run = r.runIndex /\ r.stringIndex # SBInvalidIndex => r.stringIndex <= index
      <4>1. run + 1 \in 1..Len(r.line.runs) /\ index \in MirroredIn(r, t.units, run)
        BY DEF IsFound
      <4>2. QED
        BY <1>4, <4>1, SearchFinds
    <3>6. q < run + 1 \/ (q = run + 1 /\ i < index)
      BY <1>4, <3>3, <3>4, <3>5 DEF IsPast
    <3>7. EarlierIn(r.line, i, index)
      BY <1>1, <1>4, <3>3, <3>6 DEF EarlierIn
    <3>8. a[l] = agent
      BY <1>3, <2>3
    <3>9. QED
      BY <2>1, <3>2, <3>7, <3>8
  <2>4. QED
    BY <1>3, <2>2, <2>3
<1>11. AreReported(t, r2, a, FALSE)
  BY <1>1, <1>7, <1>9, <1>10 DEF AreReported
<1>12. QED
  BY <1>2, <1>11

(* One move of the locator.                                                *)
LEMMA MirrorMoveReads ==
  ASSUME NEW t, IsCut(t), UnitsAreCodepoints(t), NEW r, IsMirror(t, r), r.line # NoLine, IsInItsRun(r),
         NEW g, IsSeq(g), AreReported(t, r, g, FALSE) \/ RepeatsLast(t, r),
         NEW moved, IsMirrorMove(t, r, moved)
  PROVE  /\ moved.locator.line = r.line /\ moved.found \in BOOLEAN
         /\ IsInItsRun(moved.locator)
         /\ moved.found =>
              \/ AreReported(t, moved.locator, Append(g, moved.locator.agent), FALSE)
              \/ RepeatsLast(t, moved.locator)
         /\ ~moved.found =>
              /\ moved.locator.runIndex = 0 /\ moved.locator.stringIndex = SBInvalidIndex
              /\ AreReported(t, moved.locator, g, TRUE)
<1>1. PICK r2 : r2 = moved.locator
  OBVIOUS
<1>2. CASE \A k \in r.runIndex..(Len(r.line.runs) - 1) : MirroredIn(r, t.units, k) = {}
  <2>1. moved = [locator |-> [kind |-> "mirror", line |-> r.line, runIndex |-> 0,
                              stringIndex |-> SBInvalidIndex, agent |-> NoMirrorAgent],
                 found |-> FALSE]
    BY <1>2 DEF IsMirrorMove
  <2>2. /\ r2.line = r.line /\ r2.runIndex = 0 /\ r2.stringIndex = SBInvalidIndex
        /\ moved.found = FALSE
    BY <1>1, <2>1
  <2>3. ~RepeatsLast(t, r)
    BY <1>2 DEF RepeatsLast
  <2>4. AreReported(t, r, g, FALSE)
    BY <2>3
  <2>5. AreReported(t, r2, g, TRUE)
    BY <1>2, <2>2, <2>4, AllReported
  <2>6. IsInItsRun(r2)
    BY <2>2 DEF IsInItsRun
  <2>7. QED
    BY <1>1, <2>2, <2>5, <2>6
<1>3. CASE ~\A k \in r.runIndex..(Len(r.line.runs) - 1) : MirroredIn(r, t.units, k) = {}
  <2>1. PICK run, index :
         /\ run \in r.runIndex..(Len(r.line.runs) - 1) /\ run \in Nat
         /\ \A k \in r.runIndex..(run - 1) : MirroredIn(r, t.units, k) = {}
         /\ index \in MirroredIn(r, t.units, run)
         /\ \A i \in MirroredIn(r, t.units, run) : index <= i
         /\ index \in 0..(Len(t.units) - 1)
         /\ NextIndex(t.units, index) \in Nat
         /\ moved = [locator |-> [kind |-> "mirror", line |-> r.line, runIndex |-> run,
                                  stringIndex |-> NextIndex(t.units, index),
                                  agent |-> [index |-> index, codepoint |-> t.units[index + 1],
                                             mirror |-> LookupMirror(t.units[index + 1])]],
                     found |-> TRUE]
    BY <1>3 DEF IsMirrorMove
  <2>2. PICK agent : agent = [index |-> index, codepoint |-> t.units[index + 1],
                              mirror |-> LookupMirror(t.units[index + 1])]
    OBVIOUS
  <2>3. agent.index = index /\ agent.mirror = LookupMirror(t.units[index + 1])
    BY <2>2
  <2>4. /\ r2.line = r.line /\ r2.runIndex = run /\ r2.stringIndex = NextIndex(t.units, index)
        /\ r2.agent = agent /\ moved.found = TRUE
    BY <1>1, <2>1, <2>2
  <2>a. PICK m \in Nat : m = Len(r.line.runs)
    BY LineIsThere DEF IsMirror
  <2>b. PICK n \in Nat : n = Len(t.units)
    BY DEF UnitsAreCodepoints
  <2>5. m = Len(r.line.runs) /\ n = Len(t.units)
    BY <2>a, <2>b
  <2>6. r.runIndex \in Nat
    BY DEF IsMirror
  <2>7. r.runIndex <= run /\ run + 1 \in 1..m /\ index \in Nat /\ index < n
    BY <2>1, <2>5, <2>6, SMTT(40)
  <2>8. IsFound(t, r, run, index)
    BY <2>1, <2>5, <2>7 DEF IsFound
  <2>9. index < NextIndex(t.units, index) /\ NextIndex(t.units, index) \in Nat
    BY <2>5, <2>7, NextIs
  <2>10. MirrorIn(t, r.line, run + 1, index)
    BY <2>1, <2>5, <2>7, SearchFinds
  <2>11. PICK o \in Nat, l \in Nat : /\ o = r.line.runs[run + 1].offset /\ l = r.line.runs[run + 1].length
                                     /\ o <= index /\ index < o + l
    <3>1. r.line.runs[run + 1].offset \in Nat /\ r.line.runs[run + 1].length \in Nat
      BY <2>5, <2>7, MirrorLineInside
    <3>2. QED
      BY <2>10, <3>1 DEF MirrorIn, InRun
  <2>12. IsInItsRun(r2)
    <3>1. o <= NextIndex(t.units, index)
      BY <2>7, <2>9, <2>11
    <3>2. QED
      BY <2>4, <2>11, <3>1 DEF IsInItsRun
  <2>13. CASE NextIndex(t.units, index) = SBInvalidIndex
    <3>1. SearchFrom(r2, run) = o
      BY <2>4, <2>11, <2>13 DEF SearchFrom
    <3>2. index \in o..(o + l - 1)
      BY <2>7, <2>11
    <3>3. index \in MirroredIn(r2, t.units, run)
      BY <2>4, <2>10, <2>11, <3>1, <3>2 DEF MirroredIn, MirrorIn
    <3>4. run \in r2.runIndex..(Len(r2.line.runs) - 1)
      BY <2>1, <2>4, <2>5, <2>7
    <3>5. RepeatsLast(t, r2)
      BY <2>13, <3>3, <3>4 DEF RepeatsLast
    <3>6. QED
      BY <1>1, <2>4, <2>12, <3>5
  <2>14. CASE NextIndex(t.units, index) # SBInvalidIndex /\ AreReported(t, r, g, FALSE)
    <3>1. AreReported(t, r2, Append(g, agent), FALSE)
      BY <2>3, <2>4, <2>8, <2>14, OneMoreReported
    <3>2. QED
      BY <1>1, <2>4, <2>12, <3>1
  <2>15. CASE NextIndex(t.units, index) # SBInvalidIndex /\ RepeatsLast(t, r)
    <3>1. PICK k \in r.runIndex..(m - 1) :
            \E i \in MirroredIn(r, t.units, k) : NextIndex(t.units, i) = SBInvalidIndex
      BY <2>5, <2>15 DEF RepeatsLast
    <3>2. PICK i \in MirroredIn(r, t.units, k) : NextIndex(t.units, i) = SBInvalidIndex
      BY <3>1
    <3>3. k \in Nat /\ k + 1 \in 1..Len(r.line.runs)
      BY <2>5, <2>6, <3>1
    <3>4. i \in Nat /\ MirrorIn(t, r.line, k + 1, i)
      BY <3>2, <3>3, SearchFinds
    <3>5. ~(k < run)
      <4>1. k < run => k \in r.runIndex..(run - 1)
        BY <2>1, <2>6, <3>1
      <4>2. QED
        BY <2>1, <3>2, <4>1
    <3>6. PICK x \in Nat, y \in Nat : x = r.line.runs[k + 1].offset /\ y = r.line.runs[k + 1].length
      BY <3>3, MirrorLineInside
    <3>7. x <= i /\ i < x + y /\ IsOdd(r.line.runs[k + 1].level) /\ LookupMirror(t.units[i + 1]) # NoMirror
      BY <3>4, <3>6 DEF MirrorIn, InRun
    <3>8. i \in MirroredIn(r2, t.units, k)
      <4>1. SearchFrom(r2, k) \in Nat /\ SearchFrom(r2, k) <= i
        <5>1. CASE k = run
          <6>1. index <= i
            BY <2>1, <3>2, <5>1
          <6>2. index # i
            BY <2>15, <3>2
          <6>3. ~(index < i /\ i < NextIndex(t.units, index))
            BY <2>5, <2>7, <3>4, <3>7, NextIs
          <6>4. NextIndex(t.units, index) <= i
            BY <2>7, <2>9, <3>4, <6>1, <6>2, <6>3
          <6>5. SearchFrom(r2, k) = NextIndex(t.units, index)
            BY <2>4, <2>15, <5>1 DEF SearchFrom
          <6>6. QED
            BY <2>9, <6>4, <6>5
        <5>2. CASE k # run
          <6>1. SearchFrom(r2, k) = x
            BY <2>4, <3>6, <5>2 DEF SearchFrom
          <6>2. QED
            BY <3>7, <6>1
        <5>3. QED
          BY <5>1, <5>2
      <4>2. i \in SearchFrom(r2, k)..(x + y - 1)
        BY <3>4, <3>7, <4>1
      <4>3. QED
        BY <2>4, <3>6, <3>7, <4>2 DEF MirroredIn
    <3>9. k \in r2.runIndex..(Len(r2.line.runs) - 1)
      BY <2>1, <2>4, <2>5, <2>6, <3>1, <3>3, <3>5
    <3>10. RepeatsLast(t, r2)
      BY <3>2, <3>8, <3>9 DEF RepeatsLast
    <3>11. QED
      BY <1>1, <2>4, <2>12, <3>10
  <2>16. QED
    BY <2>13, <2>14, <2>15
<1>4. QED
  BY <1>2, <1>3

-----------------------------------------------------------------------------
(* A mirror locator reports what is mirrored in its line.                  *)

(* The line of the range that the client asked for.                        *)
IsLineAsked(t, line, s) ==
  \E k \in DOMAIN t.paragraphs :
     /\ StartOf(t, k) <= s.index /\ s.index + s.length <= LimitOf(t, k) /\ s.length # 0
     /\ IsLineOf(line, t.paragraphs[k], s.index, s.length)

IsReporting(t, r, s) ==
  r.kind = "mirror" /\ r.line # NoLine =>
    /\ IsLineAsked(t, r.line, s)
    /\ IsInItsRun(r)
    /\ s.finished =>
         /\ r.runIndex = 0 /\ r.stringIndex = SBInvalidIndex
         /\ AreReported(t, r, s.given, TRUE)
    /\ ~s.finished => AreReported(t, r, s.given, FALSE) \/ RepeatsLast(t, r)

MirrorsInv == IInv /\ UnitsAreCodepoints(text) /\ IsReporting(text, reader, seen)

LEMMA NothingReported ==
  ASSUME NEW t, NEW r, r.runIndex = 0, r.stringIndex = SBInvalidIndex,
         r.line # NoLine => Len(r.line.runs) \in Nat
  PROVE  r.line # NoLine => AreReported(t, r, <<>>, FALSE) /\ IsInItsRun(r)
<1> SUFFICES ASSUME r.line # NoLine PROVE AreReported(t, r, <<>>, FALSE) /\ IsInItsRun(r)
  OBVIOUS
<1>1. ASSUME NEW q \in 1..Len(r.line.runs), NEW i PROVE ~IsPast(r, q, i)
  BY DEF IsPast
<1>2. DOMAIN <<>> = {}
  BY EmptyIsSeq
<1>3. AreReported(t, r, <<>>, FALSE)
  BY <1>1, <1>2 DEF AreReported, IsReported
<1>4. QED
  BY <1>3 DEF IsInItsRun

LEMMA LoadLineReports ==
  ASSUME MirrorsInv, NEW k \in DOMAIN text.paragraphs, NEW index \in 0..Length, NEW length \in Lengths(Length),
         LoadLine(text.paragraphs[k], index, length)
  PROVE  IsReporting(text, reader', seen')
<1>1. PICK line :
        /\ line = SBParagraphCreateLine(text.paragraphs[k], index, length)
        /\ reader' = SBMirrorLocatorLoadLine(line)
        /\ seen' = [FreshlySeen(seen.dropped) EXCEPT !.index = index, !.length = length]
  BY DEF LoadLine
<1>2. IsCut(text)
  BY DEF MirrorsInv, IInv
<1>3. index \in Nat /\ length \in Nat
  BY <1>2, Inputs
<1>4. IF length # 0 /\ StartOf(text, k) <= index /\ index + length <= LimitOf(text, k)
      THEN line # NoLine /\ IsLineOf(line, text.paragraphs[k], index, length)
      ELSE line = NoLine
  BY <1>1, <1>2, <1>3, CreatedLine
<1>5. PICK r, s : r = reader' /\ s = seen'
  OBVIOUS
<1>6. r.line = line /\ r.runIndex = 0 /\ r.stringIndex = SBInvalidIndex
  BY <1>1, <1>5 DEF SBMirrorLocatorLoadLine
<1>7. s = [index |-> index, length |-> length, given |-> <<>>, finished |-> FALSE, dropped |-> seen.dropped]
  BY <1>1, <1>5 DEF FreshlySeen
<1>8. s.index = index /\ s.length = length /\ s.given = <<>> /\ s.finished = FALSE
  BY <1>7
<1>9. CASE line = NoLine
  BY <1>5, <1>6, <1>9 DEF IsReporting
<1>10. CASE line # NoLine
  <2>1. /\ length # 0 /\ StartOf(text, k) <= index /\ index + length <= LimitOf(text, k)
        /\ IsLineOf(line, text.paragraphs[k], index, length)
    BY <1>4, <1>10
  <2>2. IsLineAsked(text, line, s)
    BY <1>8, <2>1 DEF IsLineAsked
  <2>3. Len(r.line.runs) \in Nat
    BY <1>6, <2>1, LineIsThere
  <2>4. AreReported(text, r, <<>>, FALSE) /\ IsInItsRun(r)
    BY <1>6, <1>10, <2>3, NothingReported
  <2>5. QED
    BY <1>5, <1>6, <1>8, <2>2, <2>4 DEF IsReporting
<1>11. QED
  BY <1>9, <1>10

LEMMA ResetMirrorsReports ==
  ASSUME MirrorsInv, ResetMirrors
  PROVE  IsReporting(text, reader', seen')
<1>1. /\ reader.kind = "mirror" /\ reader' = SBMirrorLocatorReset(reader)
      /\ seen' = [seen EXCEPT !.given = <<>>, !.finished = FALSE]
  BY DEF ResetMirrors
<1>2. IsCut(text) /\ IsSeen(text, seen) /\ IsMirror(text, reader) /\ IsReporting(text, reader, seen)
  BY <1>1, KindOfReader DEF MirrorsInv, IInv
<1>3. PICK r, s : r = reader' /\ s = seen'
  OBVIOUS
<1>4. r.line = reader.line /\ r.runIndex = 0 /\ r.stringIndex = SBInvalidIndex
  <2>1. reader = [kind |-> "mirror", line |-> reader.line, runIndex |-> reader.runIndex,
                  stringIndex |-> reader.stringIndex, agent |-> reader.agent]
    BY <1>1, <1>2 DEF IsMirror
  <2>2. r = [reader EXCEPT !.runIndex = 0, !.stringIndex = SBInvalidIndex, !.agent = NoMirrorAgent]
    BY <1>1, <1>3 DEF SBMirrorLocatorReset
  <2>3. QED
    BY <2>1, <2>2
<1>5. s.index = seen.index /\ s.length = seen.length /\ s.given = <<>> /\ s.finished = FALSE
  <2>1. seen = [index |-> seen.index, length |-> seen.length, given |-> seen.given,
                finished |-> seen.finished, dropped |-> seen.dropped]
    BY <1>2 DEF IsSeen
  <2>2. QED
    BY <1>1, <1>3, <2>1
<1>6. CASE reader.line = NoLine
  BY <1>3, <1>4, <1>6 DEF IsReporting
<1>7. CASE reader.line # NoLine
  <2>1. IsLineAsked(text, reader.line, seen)
    BY <1>1, <1>2, <1>7 DEF IsReporting
  <2>2. IsLineAsked(text, r.line, s)
    BY <1>4, <1>5, <2>1 DEF IsLineAsked
  <2>3. Len(r.line.runs) \in Nat
    BY <1>2, <1>4, <1>7, LineIsThere DEF IsMirror
  <2>4. AreReported(text, r, <<>>, FALSE) /\ IsInItsRun(r)
    BY <1>4, <1>7, <2>3, NothingReported
  <2>5. QED
    BY <1>3, <1>5, <2>2, <2>4 DEF IsReporting
<1>8. QED
  BY <1>6, <1>7

LEMMA MoveNextMirrorReports ==
  ASSUME MirrorsInv, MoveNextMirror
  PROVE  IsReporting(text, reader', seen')
<1>1. PICK moved :
        /\ reader.kind = "mirror"
        /\ moved = SBMirrorLocatorMoveNext(reader, text.units)
        /\ reader' = moved.locator
        /\ seen' = SeenWith(moved.locator.agent, moved.found)
  BY DEF MoveNextMirror
<1>2. /\ IsCut(text) /\ IsSeen(text, seen) /\ IsMirror(text, reader) /\ IsReporting(text, reader, seen)
      /\ UnitsAreCodepoints(text)
  BY <1>1, KindOfReader DEF MirrorsInv, IInv
<1>3. PICK r, s : r = reader' /\ s = seen'
  OBVIOUS
<1>4. /\ moved.locator.line = reader.line /\ moved.found \in BOOLEAN
      /\ moved.found => moved.locator.agent.index \in 0..(Len(text.units) - 1)
  BY <1>1, <1>2, MirrorMoveKeeps, SMTT(40)
<1>5. /\ s.index = seen.index /\ s.length = seen.length
      /\ s.finished = ~moved.found
      /\ ~moved.found => s.given = seen.given
      /\ moved.found => s.given = Append(IF seen.finished THEN <<>> ELSE seen.given, moved.locator.agent)
  BY <1>1, <1>2, <1>3, <1>4, SeenMore
<1>6. CASE reader.line = NoLine
  BY <1>1, <1>3, <1>4, <1>6 DEF IsReporting
<1>7. CASE reader.line # NoLine
  <2>1. /\ IsLineAsked(text, reader.line, seen) /\ IsInItsRun(reader)
        /\ seen.finished =>
             /\ reader.runIndex = 0 /\ reader.stringIndex = SBInvalidIndex
             /\ AreReported(text, reader, seen.given, TRUE)
        /\ ~seen.finished => AreReported(text, reader, seen.given, FALSE) \/ RepeatsLast(text, reader)
    BY <1>1, <1>2, <1>7 DEF IsReporting
  <2>2. IsLineAsked(text, r.line, s)
    BY <1>1, <1>3, <1>4, <1>5, <2>1 DEF IsLineAsked
  <2>3. IsMirrorMove(text, reader, moved)
    BY <1>1, <1>2, MirrorMoves
  <2>4. IsSeq(seen.given) /\ IsSeq(<<>>) /\ seen.finished \in BOOLEAN
    BY <1>2, EmptyIsSeq, SMTT(40) DEF IsSeen
  <2>5. CASE ~seen.finished
    <3>1. /\ IsInItsRun(moved.locator)
          /\ moved.found =>
               \/ AreReported(text, moved.locator, Append(seen.given, moved.locator.agent), FALSE)
               \/ RepeatsLast(text, moved.locator)
          /\ ~moved.found =>
               /\ moved.locator.runIndex = 0 /\ moved.locator.stringIndex = SBInvalidIndex
               /\ AreReported(text, moved.locator, seen.given, TRUE)
      BY <1>2, <1>7, <2>1, <2>3, <2>4, <2>5, MirrorMoveReads
    <3>2. QED
      BY <1>1, <1>3, <1>4, <1>5, <2>2, <2>5, <3>1 DEF IsReporting
  <2>6. CASE seen.finished
    <3>1. reader.runIndex = 0 /\ reader.stringIndex = SBInvalidIndex
      BY <2>1, <2>6
    <3>2. Len(reader.line.runs) \in Nat
      BY <1>2, <1>7, LineIsThere DEF IsMirror
    <3>3. AreReported(text, reader, <<>>, FALSE)
      BY <1>7, <3>1, <3>2, NothingReported
    <3>4. /\ IsInItsRun(moved.locator)
          /\ moved.found =>
               \/ AreReported(text, moved.locator, Append(<<>>, moved.locator.agent), FALSE)
               \/ RepeatsLast(text, moved.locator)
          /\ ~moved.found =>
               /\ moved.locator.runIndex = 0 /\ moved.locator.stringIndex = SBInvalidIndex
               /\ AreReported(text, moved.locator, <<>>, TRUE)
      BY <1>2, <1>7, <2>1, <2>3, <2>4, <3>3, MirrorMoveReads
    <3>5. CASE moved.found
      BY <1>1, <1>3, <1>4, <1>5, <2>2, <2>6, <3>4, <3>5 DEF IsReporting
    <3>6. CASE ~moved.found
      <4>1. AreReported(text, moved.locator, seen.given, TRUE)
        <5>1. AreReported(text, reader, seen.given, TRUE)
          BY <2>1, <2>6
        <5>2. QED
          BY <1>4, <5>1 DEF AreReported, IsReported
      <4>2. QED
        BY <1>1, <1>3, <1>4, <1>5, <2>2, <3>4, <3>6, <4>1 DEF IsReporting
    <3>7. QED
      BY <1>4, <3>5, <3>6
  <2>7. QED
    BY <2>4, <2>5, <2>6
<1>8. QED
  BY <1>6, <1>7

LEMMA InitReports == Init => MirrorsInv
<1> SUFFICES ASSUME Init PROVE MirrorsInv
  OBVIOUS
<1>1. IsReporting(text, reader, seen)
  <2>1. reader.kind = "none"
    BY DEF Init, NoReader
  <2>2. QED
    BY <2>1 DEF IsReporting
<1>2. UnitsAreCodepoints(text)
  <2>1. PICK analysed \in Texts : text = WithScripts(analysed)
    BY DEF Init
  <2>2. text.units = analysed.units
    BY <2>1 DEF WithScripts
  <2>3. IsAnalysed(analysed)
    BY TextsAssumption
  <2>4. QED
    BY <2>2, <2>3 DEF UnitsAreCodepoints, IsAnalysed
<1>3. QED
  BY <1>1, <1>2, InitHolds DEF MirrorsInv

LEMMA NextReports == MirrorsInv /\ [Next]_vars => MirrorsInv'
<1> SUFFICES ASSUME MirrorsInv, [Next]_vars PROVE MirrorsInv'
  OBVIOUS
<1>1. IInv /\ IInv' /\ IsCut(text) /\ IsSeen(text, seen) /\ UnitsAreCodepoints(text)
  BY NextHolds DEF MirrorsInv, IInv
<1>2. PICK r, s : r = reader' /\ s = seen'
  OBVIOUS
<1>3. text' = text
  BY DEF Next, CreateIterator, Reset, LoadLine, GetRange, ResetMirrors, MoveNext, MoveNextVisual,
         MoveNextMirror, Release, vars
<1>4. SUFFICES IsReporting(text, r, s)
  BY <1>1, <1>2, <1>3 DEF MirrorsInv
<1>5. IteratorKinds = {"paragraph", "logical", "script", "visual"} /\ CopyKinds = {"levels", "scripts"}
  BY DEF IteratorKinds, CopyKinds
<1>6. SUFFICES ASSUME r.kind = "mirror" PROVE IsReporting(text, r, s)
  BY DEF IsReporting
<1>7. CASE \E kind \in IteratorKinds : CreateIterator(kind)
  <2>1. PICK kind \in IteratorKinds : r = ResetIterator(text, kind, 0, Length)
    BY <1>2, <1>7 DEF CreateIterator
  <2>2. r.kind = kind
    BY <2>1 DEF ResetIterator
  <2>3. QED
    BY <1>5, <1>6, <2>2
<1>8. CASE \E index \in 0..Length, length \in Lengths(Length) : Reset(index, length)
  <2>1. PICK index, length : reader.kind \in IteratorKinds /\ r = ResetIterator(text, reader.kind, index, length)
    BY <1>2, <1>8 DEF Reset
  <2>2. r.kind = reader.kind
    BY <2>1 DEF ResetIterator
  <2>3. QED
    BY <1>5, <1>6, <2>1, <2>2
<1>9. CASE \E k \in DOMAIN text.paragraphs, index \in 0..Length, length \in Lengths(Length) :
             LoadLine(text.paragraphs[k], index, length)
  <2>1. IsReporting(text, reader', seen')
    BY <1>9, LoadLineReports
  <2>2. QED
    BY <1>2, <2>1
<1>10. CASE \E kind \in CopyKinds, index \in 0..Length, length \in Lengths(Length) :
             GetRange(kind, index, length)
  <2>1. PICK kind \in CopyKinds : r = [kind |-> kind]
    BY <1>2, <1>10 DEF GetRange
  <2>2. QED
    BY <1>5, <1>6, <2>1
<1>11. CASE ResetMirrors
  <2>1. IsReporting(text, reader', seen')
    BY <1>11, ResetMirrorsReports
  <2>2. QED
    BY <1>2, <2>1
<1>12. CASE MoveNext
  <2>1. /\ reader.kind \in {"paragraph", "logical", "script"}
        /\ r = Moved.iterator
    BY <1>2, <1>12 DEF MoveNext
  <2>2. IsIterator(text, reader)
    BY <1>1, <1>5, <2>1, KindOfReader DEF IInv
  <2>3. CASE reader.kind = "paragraph"
    <3>1. Moved = ParagraphMoveNext(text, reader)
      BY <2>3 DEF Moved
    <3>2. r.kind = reader.kind
      BY <1>1, <2>1, <2>2, <2>3, <3>1, ParagraphMoveKeeps
    <3>3. QED
      BY <1>6, <2>3, <3>2
  <2>4. CASE reader.kind \in {"logical", "script"}
    <3>1. Moved = IF reader.kind = "logical" THEN LogicalMoveNext(text, reader)
                  ELSE ScriptMoveNext(text, reader)
      BY <2>4 DEF Moved
    <3>2. r.kind = reader.kind
      BY <1>1, <2>1, <2>2, <2>4, <3>1, RunMoveKeeps
    <3>3. QED
      BY <1>6, <2>4, <3>2
  <2>5. QED
    BY <2>1, <2>3, <2>4
<1>13. CASE MoveNextVisual
  <2>1. reader.kind = "visual" /\ r = VisualMoveNext(text, reader, lines).iterator
    BY <1>2, <1>13 DEF MoveNextVisual
  <2>2. IsIterator(text, reader) /\ lines \in Nat
    BY <1>1, <2>1, KindOfReader, MaxDroppedAssumption DEF IInv, IteratorKinds, IsSeen, Held
  <2>3. r.kind = "visual"
    BY <1>1, <2>1, <2>2, VisualMoveKeeps
  <2>4. QED
    BY <1>6, <2>3
<1>14. CASE MoveNextMirror
  <2>1. IsReporting(text, reader', seen')
    BY <1>14, MoveNextMirrorReports
  <2>2. QED
    BY <1>2, <2>1
<1>15. CASE Release
  <2>1. r.kind = "none"
    BY <1>2, <1>15 DEF Release, NoReader
  <2>2. QED
    BY <1>6, <2>1
<1>16. CASE UNCHANGED vars
  <2>1. r = reader /\ s = seen
    BY <1>2, <1>16 DEF vars
  <2>2. QED
    BY <2>1 DEF MirrorsInv
<1>17. QED
  BY <1>7, <1>8, <1>9, <1>10, <1>11, <1>12, <1>13, <1>14, <1>15, <1>16 DEF Next

-----------------------------------------------------------------------------
(* The levels and the order that rules L1 and L2 say, of a line of the     *)
(* part of a paragraph that was asked for.                                 *)

(* The part of paragraph k in the range: n units from off on.              *)
IsPartAsked(t, s, k, off, n) ==
  /\ off = IF StartOf(t, k) <= s.index THEN s.index ELSE StartOf(t, k)
  /\ off + n = IF LimitOf(t, k) <= EndAsked(t, s) THEN LimitOf(t, k) ELSE EndAsked(t, s)

LEMMA PartAskedIs ==
  ASSUME IsCut(text), IsSeen(text, seen), NEW k \in DOMAIN text.paragraphs, NEW p, p = text.paragraphs[k],
         NEW off \in Nat, NEW n \in Nat, IsPartAsked(text, seen, k, off, n)
  PROVE  /\ StartOf(text, k) <= off /\ off + n <= LimitOf(text, k)
         /\ PartStart(p) = off - p.index + 1 /\ PartEnd(p) = off - p.index + 1 + n
         /\ p.index \in Nat
<1>1. /\ AskedEnd = EndAsked(text, seen) /\ EndAsked(text, seen) \in Nat /\ seen.index \in Nat
  BY EndAskedIs DEF IsSeen, AskedEnd, EndAsked, Length
<1>2. PICK a \in Nat, b \in Nat : a = StartOf(text, k) /\ b = LimitOf(text, k)
  <2>1. DOMAIN text.paragraphs = 1..Len(text.paragraphs)
    BY DEF IsCut
  <2>2. QED
    BY <2>1, CutFacts
<1>3. p.index = a /\ ParagraphLimit(p) = b
  BY <1>2 DEF StartOf, LimitOf
<1>4. PICK e \in Nat, i \in Nat : e = EndAsked(text, seen) /\ i = seen.index
  BY <1>1
<1>5. Max({a, i}) = off
  BY <1>2, <1>4, Greater DEF IsPartAsked
<1>6. Min({b, e}) = off + n
  BY <1>2, <1>4, Lesser DEF IsPartAsked
<1>7. a <= off /\ off + n <= b
  BY <1>2, <1>4 DEF IsPartAsked
<1>8. PartStart(p) = off - a + 1
  BY <1>3, <1>4, <1>5 DEF PartStart
<1>9. PartEnd(p) = off + n - a + 1
  BY <1>1, <1>3, <1>4, <1>6 DEF PartEnd
<1>10. QED
  BY <1>2, <1>3, <1>7, <1>8, <1>9

AreRuledLevels(lv, off, n) ==
  \A i \in off..(off + n - 1) : RuledLevel(i) = lv[i - off + 1] /\ lv[i - off + 1] \in Nat

LEMMA RuledLevels ==
  ASSUME IsCut(text), IsSeen(text, seen), NEW k \in DOMAIN text.paragraphs, NEW p, p = text.paragraphs[k],
         NEW off \in Nat, NEW n \in Nat, IsPartAsked(text, seen, k, off, n),
         ~ResetsTooMuch(p.types, PartStart(p), PartEnd(p)),
         NEW line, NEW lv, NEW rs, NEW pos,
         IsLine(line, PartOf(p.types, p, off, n), PartOf(p.levels, p, off, n), off, p.baseLevel, n, lv, rs, pos)
  PROVE  AreRuledLevels(lv, off, n) /\ \A i \in off..(off + n - 1) : ParagraphOf(i) = p
<1>1. /\ StartOf(text, k) <= off /\ off + n <= LimitOf(text, k)
      /\ PartStart(p) = off - p.index + 1 /\ PartEnd(p) = off - p.index + 1 + n
  BY PartAskedIs
<1>2. PICK b \in Nat, l \in Nat : /\ b = p.index /\ l = p.length
                                  /\ p.types \in [1..l -> BidiTypes] /\ p.levels \in [1..l -> SBLevels]
  BY DEF IsCut
<1>3. StartOf(text, k) = b /\ LimitOf(text, k) = b + l
  BY <1>2 DEF StartOf, LimitOf, ParagraphLimit
<1>4. PICK a \in Int : a = off - b + 1
  OBVIOUS
<1>5. a \in Nat \ {0} /\ a + n - 1 <= l /\ PartStart(p) = a /\ PartEnd(p) = a + n
  <2>1. b <= off /\ off + n <= b + l
    BY <1>1, <1>3
  <2>2. PartStart(p) = off - b + 1 /\ PartEnd(p) = off - b + 1 + n
    BY <1>1, <1>2
  <2>3. QED
    BY <1>4, <2>1, <2>2
<1>6. PICK z \in Int : z = (off + n) - b /\ z = a + n - 1
  BY <1>4
<1>7. PICK types, levels : types = PartOf(p.types, p, off, n) /\ levels = PartOf(p.levels, p, off, n)
  OBVIOUS
<1>8. \A i \in a..z : i \in 1..l
  BY <1>5, <1>6
<1>9. /\ \A i \in 1..n : types[i] = p.types[a + i - 1]
      /\ \A i \in 1..n : levels[i] = p.levels[a + i - 1]
  <2>1. CASE n = 0
    BY <2>1
  <2>2. CASE n # 0
    <3>1. 1 <= a /\ a <= z /\ z <= l /\ z - a + 1 = n
      BY <1>5, <1>6, <2>2, SMTT(40)
    <3>2. types = SubSeq(p.types, a, z) /\ levels = SubSeq(p.levels, a, z)
      BY <1>2, <1>4, <1>6, <1>7 DEF PartOf
    <3>3. \A i \in a..z : p.types[i] \in BidiTypes /\ p.levels[i] \in SBLevels
      BY <1>2, <1>8
    <3>4. QED
      BY <3>1, <3>2, <3>3, SubSeqProperties
  <2>3. QED
    BY <2>1, <2>2
<1>10. IsPart(p.types, types, a, n)
  BY <1>9 DEF IsPart
<1>11. ~ResetsTooMuch(types, 1, n + 1)
  BY <1>5, <1>10, ResetsTooMuchInPart
<1>12. /\ lv \in [1..n -> SBLevels]
       /\ \A u \in 1..n : lv[u] = IF IsReset(types, 1, n + 1, u) THEN p.baseLevel ELSE levels[u]
  BY <1>7, <1>11 DEF IsLine
<1>13. ASSUME NEW i \in off..(off + n - 1)
       PROVE  ParagraphOf(i) = p /\ RuledLevel(i) = lv[i - off + 1] /\ lv[i - off + 1] \in Nat
  <2>1. PICK u \in 1..n : u = i - off + 1 /\ a + u - 1 = i - b + 1
    BY <1>4
  <2>2. i \in Nat /\ StartOf(text, k) <= i /\ i < LimitOf(text, k)
    BY <1>1, <1>3
  <2>3. ParagraphOf(i) = p
    BY <2>2, UnitParagraphIs DEF ParagraphOf, UnitParagraph
  <2>4. IsReset(types, 1, n + 1, u) <=> IsReset(p.types, a, a + n, a + u - 1)
    BY <1>5, <1>10, IsResetInPart
  <2>5. OfUnit(p.levels, i) = levels[u]
    BY <1>2, <1>9, <2>1, <2>3 DEF OfUnit
  <2>6. RuledLevel(i) = IF IsReset(p.types, a, a + n, i - b + 1) THEN p.baseLevel ELSE OfUnit(p.levels, i)
    BY <1>2, <1>5, <2>3 DEF RuledLevel
  <2>7. RuledLevel(i) = lv[u]
    BY <1>12, <2>1, <2>4, <2>5, <2>6
  <2>8. lv[u] \in Nat
    BY <1>12 DEF SBLevels
  <2>9. QED
    BY <2>1, <2>3, <2>7, <2>8
<1>14. QED
  BY <1>13 DEF AreRuledLevels

LEMMA DisplayedBeforeIs ==
  ASSUME NEW off \in Nat, NEW n \in Nat, NEW lv,
         AreRuledLevels(lv, off, n),
         NEW i \in off..(off + n - 1), NEW j \in off..(off + n - 1), i <= j,
         NEW m \in Nat, IsLowestLevel(lv, off, i, j, m)
  PROVE  /\ DisplayedBefore(i, j) <=> IF IsOdd(m) THEN i > j ELSE i < j
         /\ DisplayedBefore(j, i) <=> IF IsOdd(m) THEN j > i ELSE j < i
<1>1. i \in Int /\ j \in Int
  OBVIOUS
<1>2. Min({i, j}) = i /\ Max({i, j}) = j
  BY <1>1, Lesser, Greater
<1>3. Min({j, i}) = i /\ Max({j, i}) = j
  <2>1. {j, i} = {i, j}
    OBVIOUS
  <2>2. QED
    BY <1>2, <2>1
<1>4. PICK S : S = {RuledLevel(k) : k \in i..j}
  OBVIOUS
<1>5. \A k \in i..j : RuledLevel(k) = lv[k - off + 1] /\ lv[k - off + 1] \in Nat
  BY DEF AreRuledLevels
<1>6. S \subseteq Nat /\ m \in S /\ \A y \in S : m <= y
  BY <1>4, <1>5 DEF IsLowestLevel
<1>7. Min(S) = m
  <2>1. Min(S) \in S /\ Min(S) \in Nat /\ \A y \in S : Min(S) <= y
    BY <1>6, MinIs
  <2>2. Min(S) <= m /\ m <= Min(S)
    BY <1>6, <2>1
  <2>3. QED
    BY <2>1, <2>2
<1>8. DisplayedBefore(i, j) <=> IF IsOdd(m) THEN i > j ELSE i < j
  BY <1>2, <1>4, <1>7 DEF DisplayedBefore
<1>9. DisplayedBefore(j, i) <=> IF IsOdd(m) THEN j > i ELSE j < i
  BY <1>3, <1>4, <1>7 DEF DisplayedBefore
<1>10. QED
  BY <1>8, <1>9

(* All units from the one to the other have one level.                     *)
OneLevel(i, j) == \A k \in Min({i, j})..Max({i, j}) : RuledLevel(k) = RuledLevel(Min({i, j}))

(* The units of an earlier run of the line are displayed before those of a *)
(* later one.                                                              *)
LEMMA EarlierRunIsBefore ==
  ASSUME NEW line, NEW types, NEW levels, NEW off \in Nat, NEW base, NEW n \in Nat, NEW lv, NEW rs,
         NEW pos, IsLine(line, types, levels, off, base, n, lv, rs, pos),
         AreRuledLevels(lv, off, n),
         NEW q \in 1..Len(line.runs), NEW s \in 1..Len(line.runs), q < s,
         NEW i \in Nat, NEW j \in Nat, InRun(line.runs[q], i), InRun(line.runs[s], j)
  PROVE  DisplayedBefore(i, j) /\ i # j /\ ~OneLevel(i, j)
<1>a. HoldsUnits(line, lv, off, n, q) /\ HoldsUnits(line, lv, off, n, s)
  BY LineUnits
<1>1. i \in off..(off + n - 1) /\ j \in off..(off + n - 1)
  BY <1>a DEF HoldsUnits
<1>2. Len(line.runs) \in Nat
  BY LineUnits
<1>3. CASE i <= j
  <2>1. q # s
    BY <1>2
  <2>2. i < j /\ LowestSays(lv, off, i, j, q, s) /\ ChangesLevel(lv, off, i, j)
    BY <1>3, <2>1, RunsShown
  <2>3. PICK m \in Nat : IsLowestLevel(lv, off, i, j, m) /\ ~IsOdd(m)
    BY <2>2 DEF LowestSays
  <2>4. DisplayedBefore(i, j) <=> IF IsOdd(m) THEN i > j ELSE i < j
    BY <1>1, <1>3, <2>3, DisplayedBeforeIs
  <2>a. i \in Int /\ j \in Int
    OBVIOUS
  <2>5. Min({i, j}) = i /\ Max({i, j}) = j
    BY <1>3, <2>a, Lesser, Greater
  <2>6. PICK k \in i..j : lv[k - off + 1] # lv[i - off + 1]
    BY <2>2 DEF ChangesLevel
  <2>7. k \in off..(off + n - 1)
    BY <1>1
  <2>8. RuledLevel(k) # RuledLevel(i)
    BY <1>1, <2>6, <2>7 DEF AreRuledLevels
  <2>9. ~OneLevel(i, j)
    BY <2>5, <2>8 DEF OneLevel
  <2>10. QED
    BY <2>2, <2>3, <2>4, <2>9
<1>4. CASE j <= i
  <2>1. q # s
    BY <1>2
  <2>2. j < i /\ LowestSays(lv, off, j, i, s, q) /\ ChangesLevel(lv, off, j, i)
    BY <1>4, <2>1, RunsShown
  <2>3. PICK m \in Nat : IsLowestLevel(lv, off, j, i, m) /\ IsOdd(m)
    <3>1. ~(s < q)
      BY <1>2
    <3>2. QED
      BY <2>2, <3>1 DEF LowestSays
  <2>4. DisplayedBefore(i, j) <=> IF IsOdd(m) THEN i > j ELSE i < j
    BY <1>1, <1>4, <2>3, DisplayedBeforeIs
  <2>a. i \in Int /\ j \in Int
    OBVIOUS
  <2>5. Min({i, j}) = j /\ Max({i, j}) = i
    BY <1>4, <2>a, Lesser, Greater
  <2>6. PICK k \in j..i : lv[k - off + 1] # lv[j - off + 1]
    BY <2>2 DEF ChangesLevel
  <2>7. k \in off..(off + n - 1)
    BY <1>1
  <2>8. RuledLevel(k) # RuledLevel(j)
    BY <1>1, <2>6, <2>7 DEF AreRuledLevels
  <2>9. ~OneLevel(i, j)
    BY <2>5, <2>8 DEF OneLevel
  <2>10. QED
    BY <2>2, <2>3, <2>4, <2>9
<1>5. i <= j \/ j <= i
  OBVIOUS
<1>6. QED
  BY <1>3, <1>4, <1>5, Zenon

(* Of the same run the levels are one.                                     *)
LEMMA OneRunIsOneLevel ==
  ASSUME NEW line, NEW types, NEW levels, NEW off \in Nat, NEW base, NEW n \in Nat, NEW lv, NEW rs,
         NEW pos, IsLine(line, types, levels, off, base, n, lv, rs, pos),
         AreRuledLevels(lv, off, n),
         NEW q \in 1..Len(line.runs),
         NEW i \in Nat, NEW j \in Nat, i < j, InRun(line.runs[q], i), InRun(line.runs[q], j)
  PROVE  OneLevel(i, j)
<1>a. HoldsUnits(line, lv, off, n, q)
  BY LineUnits
<1>c. i \in Int /\ j \in Int /\ i <= j
  OBVIOUS
<1>1. Min({i, j}) = i /\ Max({i, j}) = j
  BY <1>c, Lesser, Greater
<1>b. \A k \in i..j : IsOfRun(line, lv, off, q, k)
  BY SameRun
<1>2. ASSUME NEW k \in i..j PROVE RuledLevel(k) = line.runs[q].level
  <2>1. k \in Nat /\ InRun(line.runs[q], k) /\ lv[k - off + 1] = line.runs[q].level
    BY <1>b DEF IsOfRun
  <2>2. k \in off..(off + n - 1)
    BY <1>a, <2>1 DEF HoldsUnits
  <2>3. QED
    BY <2>1, <2>2 DEF AreRuledLevels
<1>3. i \in i..j
  OBVIOUS
<1>4. QED
  BY <1>1, <1>2, <1>3 DEF OneLevel

-----------------------------------------------------------------------------
LEMMA MirrorsKept == MirrorsInv => MirrorsAsRuled
<1> SUFFICES ASSUME MirrorsInv, reader.kind = "mirror", HoldsLine, seen.finished, AsksForRuledLines
             PROVE  LET mirrored == {i \in Asked : IsOdd(RuledLevel(i))
                                                   /\ LookupMirror(text.units[i + 1]) # NoMirror}
                        inOneRun(i, j) == \A k \in i..j : RuledLevel(k) = RuledLevel(i)
                        before(i, j) == IF inOneRun(Min({i, j}), Max({i, j})) THEN i < j
                                        ELSE DisplayedBefore(i, j)
                        given == seen.given
                    IN  /\ {given[k].index : k \in DOMAIN given} = mirrored
                        /\ \A k, m \in DOMAIN given : k < m => before(given[k].index, given[m].index)
                        /\ \A k \in DOMAIN given :
                              given[k].mirror = LookupMirror(text.units[given[k].index + 1])
  BY DEF MirrorsAsRuled
<1>1. IsCut(text) /\ IsSeen(text, seen) /\ IsMirror(text, reader) /\ reader.line # NoLine
  BY KindOfReader DEF MirrorsInv, IInv, HoldsLine
<1>2. /\ IsLineAsked(text, reader.line, seen)
      /\ AreReported(text, reader, seen.given, TRUE)
  BY <1>1 DEF MirrorsInv, IsReporting
<1>3. PICK line, g : line = reader.line /\ g = seen.given
  OBVIOUS
<1>4. PICK off \in Nat, n \in Nat \ {0} : off = seen.index /\ n = seen.length
  <2>1. seen.index \in Nat /\ seen.length \in Nat
    BY <1>1, SBInvalidIndexAssumption, SMTT(40) DEF IsSeen, IsCut
  <2>2. seen.length # 0
    BY <1>2 DEF IsLineAsked
  <2>3. QED
    BY <2>1, <2>2
<1>5. PICK k \in DOMAIN text.paragraphs :
        /\ StartOf(text, k) <= off /\ off + n <= LimitOf(text, k)
        /\ IsLineOf(line, text.paragraphs[k], off, n)
  BY <1>2, <1>3, <1>4 DEF IsLineAsked
<1>6. PICK p : p = text.paragraphs[k]
  OBVIOUS
<1>7. PICK lv, rs, pos :
        IsLine(line, PartOf(p.types, p, off, n), PartOf(p.levels, p, off, n), off, p.baseLevel, n, lv, rs, pos)
  BY <1>5, <1>6 DEF IsLineOf
<1>8. PICK types, levels : types = PartOf(p.types, p, off, n) /\ levels = PartOf(p.levels, p, off, n)
  OBVIOUS
<1>9. IsLine(line, types, levels, off, p.baseLevel, n, lv, rs, pos)
  BY <1>7, <1>8
<1>10. PICK a \in Nat, b \in Nat : a = StartOf(text, k) /\ b = LimitOf(text, k) /\ b <= Len(text.units)
  <2>1. DOMAIN text.paragraphs = 1..Len(text.paragraphs)
    BY <1>1 DEF IsCut
  <2>2. QED
    BY <1>1, <2>1, CutFacts
<1>11. EndAsked(text, seen) = off + n
  <2>1. PICK u \in Nat : u = Len(text.units)
    BY <1>1 DEF IsCut
  <2>2. off + n <= Len(text.units)
    BY <1>5, <1>10, <2>1
  <2>3. seen.index \in 0..Len(text.units) /\ seen.length \in 0..SBInvalidIndex
    BY <1>1 DEF IsSeen
  <2>4. QED
    BY <1>1, <1>4, <2>2, <2>3, EndAskedIs
<1>12. Asked = off..(off + n - 1)
  <2>1. AskedEnd = off + n
    BY <1>11 DEF AskedEnd, EndAsked, Length
  <2>2. QED
    BY <1>4, <2>1, SMTT(40) DEF Asked
<1>13. IsPartAsked(text, seen, k, off, n)
  BY <1>4, <1>5, <1>10, <1>11 DEF IsPartAsked
<1>14. ParagraphOf(off) = p
  <2>1. off < LimitOf(text, k)
    BY <1>5, <1>10
  <2>2. QED
    BY <1>1, <1>5, <1>6, <2>1, UnitParagraphIs DEF ParagraphOf, UnitParagraph
<1>15. ~ResetsTooMuch(p.types, PartStart(p), PartEnd(p))
  <2>1. off \in Asked
    BY <1>12
  <2>2. QED
    BY <1>14, <2>1 DEF AsksForRuledLines
<1>16. AreRuledLevels(lv, off, n)
  BY <1>1, <1>6, <1>7, <1>13, <1>15, RuledLevels
<1>17. PICK m \in Nat : m = Len(line.runs)
  BY <1>9, LineUnits
<1>a. \A q \in 1..m : HoldsUnits(line, lv, off, n, q)
  BY <1>9, <1>17, LineUnits
<1>18. ASSUME NEW q \in 1..m, NEW i \in Nat
       PROVE  IsReported(text, reader, TRUE, q, i) <=>
                /\ InRun(line.runs[q], i) /\ i \in Asked /\ IsOdd(RuledLevel(i))
                /\ LookupMirror(text.units[i + 1]) # NoMirror
  <2>1. CASE InRun(line.runs[q], i)
    <3>1. i \in off..(off + n - 1) /\ lv[i - off + 1] = line.runs[q].level
      BY <1>a, <2>1 DEF HoldsUnits
    <3>2. RuledLevel(i) = line.runs[q].level
      BY <1>16, <3>1 DEF AreRuledLevels
    <3>3. QED
      BY <1>3, <1>12, <2>1, <3>1, <3>2 DEF IsReported, MirrorIn
  <2>2. CASE ~InRun(line.runs[q], i)
    BY <1>3, <2>2 DEF IsReported, MirrorIn
  <2>3. QED
    BY <2>1, <2>2
<1>19. /\ \A q \in 1..m, i \in Nat : IsReported(text, reader, TRUE, q, i) => \E x \in DOMAIN g : g[x].index = i
       /\ \A x \in DOMAIN g :
            /\ g[x].index \in Nat /\ g[x].mirror = LookupMirror(text.units[g[x].index + 1])
            /\ \E q \in 1..m : IsReported(text, reader, TRUE, q, g[x].index)
       /\ \A x, y \in DOMAIN g : x < y => EarlierIn(line, g[x].index, g[y].index)
  BY <1>2, <1>3, <1>17 DEF AreReported
<1>20. PICK M : M = {i \in Asked : IsOdd(RuledLevel(i)) /\ LookupMirror(text.units[i + 1]) # NoMirror}
  OBVIOUS
<1>21. ASSUME NEW x \in DOMAIN g PROVE g[x].index \in M
  <2>1. PICK i \in Nat, q \in 1..m : i = g[x].index /\ IsReported(text, reader, TRUE, q, i)
    BY <1>19
  <2>2. QED
    BY <1>18, <1>20, <2>1
<1>22. ASSUME NEW i \in M PROVE \E x \in DOMAIN g : g[x].index = i
  <2>1. i \in off..(off + n - 1) /\ i \in Nat
    BY <1>12, <1>20
  <2>2. PICK q \in 1..m : InRun(line.runs[q], i)
    BY <1>9, <1>17, <2>1, LineUnits
  <2>3. IsReported(text, reader, TRUE, q, i)
    BY <1>18, <1>20, <2>1, <2>2
  <2>4. QED
    BY <1>19, <2>1, <2>3
<1>23. {g[x].index : x \in DOMAIN g} = M
  BY <1>21, <1>22
<1>24. ASSUME NEW x \in DOMAIN g, NEW y \in DOMAIN g, x < y
       PROVE  IF \A u \in Min({g[x].index, g[y].index})..Max({g[x].index, g[y].index}) :
                    RuledLevel(u) = RuledLevel(Min({g[x].index, g[y].index}))
              THEN g[x].index < g[y].index ELSE DisplayedBefore(g[x].index, g[y].index)
  <2>1. PICK i \in Nat, j \in Nat : i = g[x].index /\ j = g[y].index
    BY <1>19
  <2>2. EarlierIn(line, i, j)
    BY <1>19, <1>24, <2>1
  <2>3. PICK q \in 1..m, s \in 1..m : /\ InRun(line.runs[q], i) /\ InRun(line.runs[s], j)
                                      /\ q < s \/ (q = s /\ i < j)
    BY <1>17, <2>2 DEF EarlierIn
  <2>4. AreRuledLevels(lv, off, n)
    BY <1>16
  <2>5. CASE q < s
    <3>1. DisplayedBefore(i, j) /\ ~OneLevel(i, j)
      BY <1>9, <1>17, <2>3, <2>4, <2>5, EarlierRunIsBefore
    <3>2. QED
      BY <2>1, <3>1 DEF OneLevel
  <2>6. CASE q = s /\ i < j
    <3>1. OneLevel(i, j)
      BY <1>9, <1>17, <2>3, <2>4, <2>6, OneRunIsOneLevel
    <3>2. QED
      BY <2>1, <2>6, <3>1 DEF OneLevel
  <2>7. QED
    BY <2>3, <2>5, <2>6
<1>25. \A x \in DOMAIN g : g[x].mirror = LookupMirror(text.units[g[x].index + 1])
  BY <1>19
<1>26. {seen.given[x].index : x \in DOMAIN seen.given}
         = {i \in Asked : IsOdd(RuledLevel(i)) /\ LookupMirror(text.units[i + 1]) # NoMirror}
  BY <1>3, <1>20, <1>23
<1>27. \A x, y \in DOMAIN seen.given : x < y =>
         IF \A u \in Min({seen.given[x].index, seen.given[y].index})..Max({seen.given[x].index, seen.given[y].index}) :
              RuledLevel(u) = RuledLevel(Min({seen.given[x].index, seen.given[y].index}))
         THEN seen.given[x].index < seen.given[y].index
         ELSE DisplayedBefore(seen.given[x].index, seen.given[y].index)
  BY <1>3, <1>24
<1>28. \A x \in DOMAIN seen.given : seen.given[x].mirror = LookupMirror(text.units[seen.given[x].index + 1])
  BY <1>3, <1>25
<1>29. QED
  BY <1>26, <1>27, <1>28

(* A mirror locator that reports the end has reported every code point of  *)
(* the line that is mirrored and displayed from right to left, once, in    *)
(* the order of display of the runs and upwards within a run, also when it *)
(* begins again or when the client resets it on the way.                   *)
THEOREM SpecMirrorsAsRuled == Spec => []MirrorsAsRuled
<1>1. Spec => []MirrorsInv
  BY InitReports, NextReports, PTL DEF Spec
<1>2. QED
  BY <1>1, MirrorsKept, PTL

===============================================================================
