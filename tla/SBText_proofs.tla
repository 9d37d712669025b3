---------------------------- MODULE SBText_proofs ----------------------------
(***************************************************************************)
(* The bidi types of a text stay current, whatever its length, the sizes   *)
(* of the edits and the buffers that a client passes; and the incremental  *)
(* update of the paragraph list segments the text as rule P1 does, if the  *)
(* edits keep the tail (KeepsTail) and cut or make no separator where they *)
(* end (KeepsSeparator).                                                   *)
(***************************************************************************)
EXTENDS SBText, FiniteSetTheorems, SequenceTheorems, TLAPS

(* The type of the k-th code unit, which depends on its neighbours only.   *)
TypeAt(enc, units, k) ==
  CASE units[k] \in {"CR", "LF"} -> "B"
    [] units[k] = "letter"       -> "L"
    [] IsPairAt(units, k - 1)    -> PairType(enc)
    [] IsPairAt(units, k - 2)    -> "BN"
    [] OTHER                     -> "ON"

LEMMA FunctionIsSequence ==
  ASSUME NEW S, NEW n \in Nat, NEW f \in [1..n -> S]
  PROVE  f \in Seq(S) /\ Len(f) = n
  OBVIOUS

(* s is seq with the elements at index..(index + removed - 1) replaced.    *)
IsSplice(s, seq, index, removed, new) ==
  /\ Len(s) = Len(seq) - removed + Len(new)
  /\ \A k \in 1..Len(s) : k <= index => s[k] = seq[k]
  /\ \A k \in 1..Len(s) : index < k /\ k <= index + Len(new) => s[k] = new[k - index]
  /\ \A k \in 1..Len(s) : index + Len(new) < k => s[k] = seq[k - Len(new) + removed]

LEMMA SpliceProperties ==
  ASSUME NEW S, NEW seq \in Seq(S), NEW new \in Seq(S), NEW index \in Nat,
         NEW removed \in Nat, index + removed <= Len(seq)
  PROVE  /\ Splice(seq, index, removed, new) \in Seq(S)
         /\ IsSplice(Splice(seq, index, removed, new), seq, index, removed, new)
<1> SUFFICES ASSUME NEW s, s = Splice(seq, index, removed, new)
             PROVE  s \in Seq(S) /\ IsSplice(s, seq, index, removed, new)
  OBVIOUS
<1>1. ASSUME NEW n, n = Len(seq) - removed + Len(new)
      PROVE  /\ s \in Seq(S) /\ Len(s) = n
             /\ s = [k \in 1..n |-> IF k <= index THEN seq[k]
                                    ELSE IF k <= index + Len(new) THEN new[k - index]
                                    ELSE seq[k - Len(new) + removed]]
  <2>1. n \in Nat /\ Len(new) \in Nat /\ Len(seq) \in Nat
    BY <1>1
  <2>2. s = [k \in 1..n |-> IF k <= index THEN seq[k]
                            ELSE IF k <= index + Len(new) THEN new[k - index]
                            ELSE seq[k - Len(new) + removed]]
    BY <1>1 DEF Splice
  <2>3. ASSUME NEW k \in 1..n PROVE s[k] \in S
    <3>1. CASE k <= index
      <4>1. k \in 1..Len(seq) /\ s[k] = seq[k]
        BY <2>1, <2>2, <3>1
      <4>2. QED
        BY <4>1
    <3>2. CASE ~(k <= index) /\ k <= index + Len(new)
      <4>1. k - index \in 1..Len(new) /\ s[k] = new[k - index]
        BY <2>1, <2>2, <3>2
      <4>2. QED
        BY <4>1
    <3>3. CASE ~(k <= index) /\ ~(k <= index + Len(new))
      <4>1. k - Len(new) + removed \in 1..Len(seq)
        BY <1>1, <2>1, <3>3
      <4>2. s[k] = seq[k - Len(new) + removed]
        BY <2>2, <3>3
      <4>3. QED
        BY <4>1, <4>2
    <3>4. QED
      BY <3>1, <3>2, <3>3
  <2>4. s \in [1..n -> S]
    BY <2>2, <2>3
  <2>5. QED
    BY <2>1, <2>2, <2>4, FunctionIsSequence
<1>2. s \in Seq(S) /\ Len(s) = Len(seq) - removed + Len(new)
  BY <1>1
<1>3. s = [k \in 1..Len(s) |-> IF k <= index THEN seq[k]
                               ELSE IF k <= index + Len(new) THEN new[k - index]
                               ELSE seq[k - Len(new) + removed]]
  BY <1>1, <1>2
<1>4. Len(s) \in Nat /\ Len(new) \in Nat
  BY <1>2
<1>5. /\ \A k \in 1..Len(s) : k <= index => s[k] = seq[k]
      /\ \A k \in 1..Len(s) : index < k /\ k <= index + Len(new) => s[k] = new[k - index]
      /\ \A k \in 1..Len(s) : index + Len(new) < k => s[k] = seq[k - Len(new) + removed]
  BY <1>3, <1>4
<1>6. QED
  BY <1>2, <1>5 DEF IsSplice

LEMMA TypesProperties ==
  ASSUME NEW enc, NEW units \in Seq(CodeUnits)
  PROVE  /\ DetermineBidiTypes(enc, units) \in Seq(BidiTypes)
         /\ Len(DetermineBidiTypes(enc, units)) = Len(units)
         /\ \A k \in 1..Len(units) : DetermineBidiTypes(enc, units)[k] = TypeAt(enc, units, k)
<1> DEFINE types == DetermineBidiTypes(enc, units)
<1>1. types = [k \in 1..Len(units) |-> TypeAt(enc, units, k)]
  BY DEF DetermineBidiTypes, TypeAt
<1>2. \A k \in 1..Len(units) : TypeAt(enc, units, k) \in BidiTypes
  BY DEF TypeAt, BidiTypes, PairType
<1>3. types \in [1..Len(units) -> BidiTypes]
  BY <1>1, <1>2
<1>4. types \in Seq(BidiTypes) /\ Len(types) = Len(units)
  BY <1>3
<1>5. QED
  BY <1>1, <1>4

(* A window of the text that cuts no code point and reaches at least one   *)
(* code unit beyond those that an edit wrote.                              *)
IsWindow(units, start, end, index, length) ==
  /\ start \in Nat /\ end \in Nat /\ start < end /\ end <= Len(units)
  /\ ~IsPairAt(units, start - 1) /\ ~IsPairAt(units, end - 1)
  /\ start = 0 \/ start + 1 <= index
  /\ end = Len(units) \/ end >= index + length + 1

LEMMA WindowProperties ==
  ASSUME NEW S, NEW units \in Seq(S), units # <<>>, NEW index \in Nat, NEW length \in Nat,
         index + length <= Len(units), NEW surround \in Nat \ {0}
  PROVE  IsWindow(units, SkipToStart(units, AtLeastZero(index - surround)),
           SkipToEnd(units, AtMost(index + length + surround, Len(units)) - 1), index, length)
<1> SUFFICES
      ASSUME NEW start, start = SkipToStart(units, AtLeastZero(index - surround)),
             NEW end, end = SkipToEnd(units, AtMost(index + length + surround, Len(units)) - 1)
      PROVE  IsWindow(units, start, end, index, length)
  OBVIOUS
<1> DEFINE first == AtLeastZero(index - surround)
           last == AtMost(index + length + surround, Len(units)) - 1
<1>1. Len(units) \in Nat \ {0}
  OBVIOUS
<1>2. first \in Nat /\ (first = 0 \/ first + 1 <= index)
  BY DEF AtLeastZero
<1>3. /\ last \in Nat /\ last + 1 <= Len(units) /\ first <= last
      /\ last + 1 = Len(units) \/ last + 1 >= index + length + 1
  BY <1>1 DEF AtMost, AtLeastZero
<1>4. /\ start \in Nat /\ start <= first /\ ~IsPairAt(units, start - 1)
      /\ start = 0 \/ start + 1 <= index
  BY <1>2 DEF SkipToStart, IsPairAt
<1>5. /\ end \in Nat /\ last + 1 <= end /\ end <= Len(units) /\ ~IsPairAt(units, end - 1)
  <2> HIDE DEF last
  <2>1. CASE IsPairAt(units, last)
    <3>1. end = last + 2
      BY <2>1 DEF SkipToEnd, last
    <3>2. last + 1 < Len(units) /\ units[last + 2] = "trail"
      BY <2>1 DEF IsPairAt
    <3>3. ~IsPairAt(units, end - 1)
      BY <1>3, <3>1, <3>2 DEF IsPairAt
    <3>4. QED
      BY <1>1, <1>3, <3>1, <3>2, <3>3
  <2>2. CASE ~IsPairAt(units, last)
    <3>1. end = last + 1
      BY <2>2 DEF SkipToEnd, last
    <3>2. end - 1 = last
      BY <1>3, <3>1
    <3>3. QED
      BY <1>1, <1>3, <2>2, <3>1, <3>2
  <2>3. QED
    BY <2>1, <2>2
<1>6. QED
  BY <1>3, <1>4, <1>5 DEF IsWindow

(* Classifying a slice that cuts no code point gives the types that its    *)
(* code units have in the whole text.                                      *)
LEMMA SliceTypes ==
  ASSUME NEW enc, NEW units \in Seq(CodeUnits), NEW start \in Nat, NEW end \in Nat,
         start < end, end <= Len(units),
         ~IsPairAt(units, start - 1), ~IsPairAt(units, end - 1)
  PROVE  /\ Slice(units, start, end) \in Seq(CodeUnits)
         /\ Len(Slice(units, start, end)) = end - start
         /\ \A k \in (start + 1)..end :
              TypeAt(enc, Slice(units, start, end), k - start) = TypeAt(enc, units, k)
<1> DEFINE slice == Slice(units, start, end)
<1>1. /\ slice \in Seq(CodeUnits) /\ Len(slice) = end - start
      /\ \A j \in 1..(end - start) : slice[j] = units[start + j]
  BY DEF Slice
<1>2. ASSUME NEW k \in (start + 1)..end
      PROVE  TypeAt(enc, slice, k - start) = TypeAt(enc, units, k)
  <2>1. slice[k - start] = units[k]
    BY <1>1
  <2>2. IsPairAt(slice, k - start - 1) <=> IsPairAt(units, k - 1)
    BY <1>1 DEF IsPairAt
  <2>3. IsPairAt(slice, k - start - 2) <=> IsPairAt(units, k - 2)
    BY <1>1 DEF IsPairAt
  <2>4. QED
    BY <2>1, <2>2, <2>3 DEF TypeAt
<1>3. QED
  BY <1>1, <1>2

LEMMA SamePair ==
  ASSUME NEW a, NEW b, NEW i \in Int, NEW j \in Int,
         (i >= 0 /\ i + 1 < Len(a)) <=> (j >= 0 /\ j + 1 < Len(b)),
         i >= 0 /\ i + 1 < Len(a) => a[i + 1] = b[j + 1] /\ a[i + 2] = b[j + 2]
  PROVE  IsPairAt(a, i) <=> IsPairAt(b, j)
  BY DEF IsPairAt

(* Where the text is as before, on either side of an edit and away from it *)
(* by one code unit, so are the types.                                     *)
LEMMA TypesAway ==
  ASSUME NEW enc, NEW units \in Seq(CodeUnits), NEW chunk \in Seq(CodeUnits),
         NEW index \in Nat, NEW removed \in Nat, index + removed <= Len(units),
         NEW new, new = Splice(units, index, removed, chunk),
         NEW k \in 1..Len(new)
  PROVE  /\ k + 1 <= index => TypeAt(enc, new, k) = TypeAt(enc, units, k)
         /\ k >= index + Len(chunk) + 2 =>
              TypeAt(enc, new, k) = TypeAt(enc, units, k - Len(chunk) + removed)
<1>0. IsSplice(new, units, index, removed, chunk)
  BY SpliceProperties
<1>1. /\ Len(new) = Len(units) - removed + Len(chunk)
      /\ \A i \in 1..Len(new) : i <= index => new[i] = units[i]
      /\ \A i \in 1..Len(new) : index + Len(chunk) < i => new[i] = units[i - Len(chunk) + removed]
  BY <1>0 DEF IsSplice
<1>2. Len(new) \in Nat /\ Len(units) \in Nat /\ Len(chunk) \in Nat
  BY <1>1
<1>3. ASSUME k + 1 <= index PROVE TypeAt(enc, new, k) = TypeAt(enc, units, k)
  <2>1. /\ k + 1 <= Len(new) /\ k + 1 <= Len(units)
        /\ new[k] = units[k] /\ new[k + 1] = units[k + 1]
    <3>1. k + 1 <= Len(new) /\ k + 1 <= Len(units)
      BY <1>1, <1>2, <1>3
    <3>2. k \in 1..Len(new) /\ k <= index /\ k + 1 \in 1..Len(new)
      BY <1>2, <1>3, <3>1
    <3>3. QED
      BY <1>1, <1>3, <3>1, <3>2
  <2>2. k > 1 => new[k - 1] = units[k - 1]
    <3>1. k > 1 => k - 1 \in 1..Len(new) /\ k - 1 <= index
      BY <1>2, <1>3
    <3>2. QED
      BY <1>1, <3>1
  <2>3. /\ k - 1 + 1 = k /\ k - 1 + 2 = k + 1
        /\ k - 2 + 1 = k - 1 /\ k - 2 + 2 = k
        /\ k - 1 \in Int /\ k - 2 \in Int
    OBVIOUS
  <2>4. IsPairAt(new, k - 1) <=> IsPairAt(units, k - 1)
    BY <1>2, <2>1, <2>3, SamePair
  <2>5. IsPairAt(new, k - 2) <=> IsPairAt(units, k - 2)
    BY <1>2, <2>1, <2>2, <2>3, SamePair
  <2>6. QED
    BY <2>1, <2>4, <2>5 DEF TypeAt
<1>4. ASSUME k >= index + Len(chunk) + 2
      PROVE  TypeAt(enc, new, k) = TypeAt(enc, units, k - Len(chunk) + removed)
  <2> DEFINE j == k - Len(chunk) + removed
  <2>1. j \in 2..Len(units) /\ (k + 1 <= Len(new) <=> j + 1 <= Len(units))
    BY <1>1, <1>2, <1>4
  <2>2. new[k] = units[j]
    BY <1>1, <1>2, <1>4
  <2>3. new[k - 1] = units[j - 1]
    <3>1. k - 1 \in 1..Len(new) /\ index + Len(chunk) < k - 1
      BY <1>2, <1>4
    <3>2. k - 1 - Len(chunk) + removed = j - 1
      BY <1>2
    <3>3. QED
      BY <1>1, <3>1, <3>2
  <2>4. k + 1 <= Len(new) => new[k + 1] = units[j + 1]
    <3>1. k + 1 <= Len(new) => k + 1 \in 1..Len(new) /\ index + Len(chunk) < k + 1
      BY <1>2, <1>4
    <3>2. k + 1 - Len(chunk) + removed = j + 1
      BY <1>2
    <3>3. QED
      BY <1>1, <3>1, <3>2
  <2> HIDE DEF j
  <2>5. /\ k - 1 + 1 = k /\ k - 1 + 2 = k + 1 /\ k - 2 + 1 = k - 1 /\ k - 2 + 2 = k
        /\ j - 1 + 1 = j /\ j - 1 + 2 = j + 1 /\ j - 2 + 1 = j - 1 /\ j - 2 + 2 = j
        /\ k - 1 \in Int /\ k - 2 \in Int /\ j - 1 \in Int /\ j - 2 \in Int
    BY <2>1
  <2>6. IsPairAt(new, k - 1) <=> IsPairAt(units, j - 1)
    BY <1>2, <2>1, <2>2, <2>4, <2>5, SamePair
  <2>7. IsPairAt(new, k - 2) <=> IsPairAt(units, j - 2)
    <3>1. k \in 2..Len(new)
      BY <1>2, <1>4
    <3>2. /\ k - 2 >= 0 /\ k - 2 + 1 < Len(new)
          /\ j - 2 >= 0 /\ j - 2 + 1 < Len(units)
      BY <1>2, <2>1, <3>1
    <3>3. new[k - 2 + 1] = units[j - 2 + 1] /\ new[k - 2 + 2] = units[j - 2 + 2]
      BY <2>2, <2>3, <2>5
    <3>4. k - 2 \in Int /\ j - 2 \in Int
      BY <2>5
    <3>5. QED
      BY <3>2, <3>3, <3>4 DEF IsPairAt
  <2>8. QED
    BY <2>2, <2>6, <2>7 DEF TypeAt, j
<1>5. QED
  BY <1>3, <1>4

(* Resizing the list of types keeps the types on either side of the edit.  *)
IsResized(resized, old, index, removed, m) ==
  /\ Len(resized) = Len(old) - removed + m
  /\ \A k \in 1..Len(resized) : k <= index => resized[k] = old[k]
  /\ \A k \in 1..Len(resized) : index + m < k => resized[k] = old[k - m + removed]

LEMMA ResizedProperties ==
  ASSUME NEW S, Garbage \in S, NEW old \in Seq(S), NEW index \in Nat, NEW removed \in Nat,
         NEW m \in Nat, index + removed <= Len(old),
         NEW resized,
         resized = IF m > removed
                   THEN Splice(old, index, 0, [k \in 1..(m - removed) |-> Garbage])
                   ELSE Splice(old, index, removed - m, <<>>)
  PROVE  resized \in Seq(S) /\ IsResized(resized, old, index, removed, m)
<1>1. CASE m > removed
  <2>1. PICK gap : gap = [k \in 1..(m - removed) |-> Garbage]
    OBVIOUS
  <2>2. m - removed \in Nat /\ gap \in [1..(m - removed) -> S]
    BY <1>1, <2>1
  <2>3. gap \in Seq(S) /\ Len(gap) = m - removed
    BY <2>2, FunctionIsSequence
  <2>4. resized = Splice(old, index, 0, gap) /\ index + 0 <= Len(old)
    BY <1>1, <2>1
  <2>5a. resized \in Seq(S) /\ IsSplice(resized, old, index, 0, gap)
    BY <2>3, <2>4, SpliceProperties
  <2>5. /\ resized \in Seq(S) /\ Len(resized) = Len(old) - 0 + Len(gap)
        /\ \A k \in 1..Len(resized) : k <= index => resized[k] = old[k]
        /\ \A k \in 1..Len(resized) : index + Len(gap) < k => resized[k] = old[k - Len(gap) + 0]
    BY <2>5a DEF IsSplice
  <2>6. ASSUME NEW k \in 1..Len(resized), index + m < k
        PROVE  resized[k] = old[k - m + removed]
    <3>1. index + Len(gap) < k /\ k - Len(gap) + 0 = k - m + removed
      BY <1>1, <2>3, <2>5, <2>6
    <3>2. QED
      BY <2>5, <3>1
  <2>7. Len(resized) = Len(old) - removed + m
    BY <1>1, <2>3, <2>5
  <2>8. QED
    BY <2>5, <2>6, <2>7 DEF IsResized
<1>2. CASE ~(m > removed)
  <2>1. resized = Splice(old, index, removed - m, <<>>)
    BY <1>2
  <2>2. removed - m \in Nat /\ index + (removed - m) <= Len(old)
    BY <1>2
  <2>3. PICK none : none = <<>>
    OBVIOUS
  <2>4. none \in Seq(S) /\ Len(none) = 0
    BY <2>3
  <2>5a. resized \in Seq(S) /\ IsSplice(resized, old, index, removed - m, none)
    BY <2>1, <2>2, <2>3, <2>4, SpliceProperties
  <2>5. /\ resized \in Seq(S) /\ Len(resized) = Len(old) - (removed - m) + Len(none)
        /\ \A k \in 1..Len(resized) : k <= index => resized[k] = old[k]
        /\ \A k \in 1..Len(resized) : index + Len(none) < k =>
             resized[k] = old[k - Len(none) + (removed - m)]
    BY <2>5a DEF IsSplice
  <2>6. ASSUME NEW k \in 1..Len(resized), index + m < k
        PROVE  resized[k] = old[k - m + removed]
    <3>1. index + Len(none) < k /\ k - Len(none) + (removed - m) = k - m + removed
      BY <1>2, <2>4, <2>5, <2>6
    <3>2. QED
      BY <2>5, <3>1
  <2>7. Len(resized) = Len(old) - removed + m
    BY <1>2, <2>4, <2>5
  <2>8. QED
    BY <2>5, <2>6, <2>7 DEF IsResized
<1>3. QED
  BY <1>1, <1>2

(* Classifying the window makes the types current when those farther than  *)
(* one code unit from the edit already are.                                *)
LEMMA ChunkTypes ==
  ASSUME NEW enc, NEW units \in Seq(CodeUnits), NEW S, BidiTypes \subseteq S,
         NEW types \in Seq(S), Len(types) = Len(units),
         NEW index \in Nat, NEW length \in Nat, index + length <= Len(units),
         \A k \in 1..Len(units) : k + 1 <= index \/ k >= index + length + 2 =>
           types[k] = TypeAt(enc, units, k)
  PROVE  DetermineChunkBidiTypes(enc, units, types, index, length)
           = DetermineBidiTypes(enc, units)
<1> DEFINE all == DetermineBidiTypes(enc, units)
<1>1. /\ all \in Seq(BidiTypes) /\ Len(all) = Len(units)
      /\ \A k \in 1..Len(units) : all[k] = TypeAt(enc, units, k)
  BY TypesProperties
<1> HIDE DEF all
<1>2. CASE units = <<>>
  <2>1. types = <<>> /\ all = <<>>
    BY <1>1, <1>2
  <2>2. QED
    BY <1>2, <2>1 DEF DetermineChunkBidiTypes, all
<1>3. ASSUME units # <<>>,
             NEW surround, surround = GetMaxCodeUnitsPerCodepoint(enc),
             NEW start, start = SkipToStart(units, AtLeastZero(index - surround)),
             NEW end, end = SkipToEnd(units, AtMost(index + length + surround, Len(units)) - 1),
             NEW window, window = DetermineBidiTypes(enc, Slice(units, start, end)),
             NEW result, result = Splice(types, start, end - start, window)
      PROVE  result = all
  <2>1. surround \in Nat \ {0}
    BY <1>3 DEF GetMaxCodeUnitsPerCodepoint
  <2>2a. IsWindow(units, start, end, index, length)
    BY <1>3, <2>1, WindowProperties
  <2>2. /\ start \in Nat /\ end \in Nat /\ start < end /\ end <= Len(units)
        /\ ~IsPairAt(units, start - 1) /\ ~IsPairAt(units, end - 1)
        /\ start = 0 \/ start + 1 <= index
        /\ end = Len(units) \/ end >= index + length + 1
    BY <2>2a DEF IsWindow
  <2>3. /\ Slice(units, start, end) \in Seq(CodeUnits)
        /\ Len(Slice(units, start, end)) = end - start
        /\ \A k \in (start + 1)..end :
             TypeAt(enc, Slice(units, start, end), k - start) = TypeAt(enc, units, k)
    BY <2>2, SliceTypes
  <2>4. /\ window \in Seq(BidiTypes) /\ Len(window) = end - start
        /\ \A i \in 1..(end - start) : window[i] = TypeAt(enc, Slice(units, start, end), i)
    BY <1>3, <2>3, TypesProperties
  <2>5. \A k \in (start + 1)..end : window[k - start] = TypeAt(enc, units, k)
    <3>1. \A k \in (start + 1)..end : k - start \in 1..(end - start)
      BY <2>2
    <3>2. QED
      BY <2>3, <2>4, <3>1
  <2>6. /\ result \in Seq(S) /\ Len(result) = Len(units)
        /\ \A k \in 1..Len(units) : k <= start => result[k] = types[k]
        /\ \A k \in 1..Len(units) : start < k /\ k <= end => result[k] = window[k - start]
        /\ \A k \in 1..Len(units) : end < k => result[k] = types[k]
    <3>1. window \in Seq(S)
      BY <2>4
    <3>2. end - start \in Nat /\ start + (end - start) <= Len(types)
      BY <2>2
    <3>3a. result \in Seq(S) /\ IsSplice(result, types, start, end - start, window)
      BY <1>3, <2>2, <3>1, <3>2, SpliceProperties
    <3>3. /\ result \in Seq(S) /\ Len(result) = Len(types) - (end - start) + Len(window)
          /\ \A k \in 1..Len(result) : k <= start => result[k] = types[k]
          /\ \A k \in 1..Len(result) : start < k /\ k <= start + Len(window) =>
               result[k] = window[k - start]
          /\ \A k \in 1..Len(result) : start + Len(window) < k =>
               result[k] = types[k - Len(window) + (end - start)]
      BY <3>3a DEF IsSplice
    <3>4. Len(result) = Len(units) /\ start + Len(window) = end
      BY <2>2, <2>4, <3>3
    <3>5. ASSUME NEW k \in 1..Len(units), end < k PROVE result[k] = types[k]
      <4>1. k - Len(window) + (end - start) = k
        BY <2>2, <2>4
      <4>2. QED
        BY <3>3, <3>4, <3>5, <4>1
    <3>6. QED
      BY <3>3, <3>4, <3>5
  <2>7. ASSUME NEW k \in 1..Len(units) PROVE result[k] = TypeAt(enc, units, k)
    <3>1. CASE k <= start
      <4>1. k + 1 <= index
        BY <2>2, <3>1
      <4>2. result[k] = types[k]
        BY <2>6, <3>1
      <4>3. QED
        BY <4>1, <4>2
    <3>2. CASE start < k /\ k <= end
      <4>1. k \in (start + 1)..end
        BY <2>2, <3>2
      <4>2. result[k] = window[k - start]
        BY <2>6, <3>2
      <4>3. QED
        BY <2>5, <4>1, <4>2
    <3>3. CASE end < k
      <4>1. k >= index + length + 2
        BY <2>2, <3>3
      <4>2. result[k] = types[k]
        BY <2>2, <2>6, <3>3
      <4>3. QED
        BY <4>1, <4>2
    <3>4. QED
      BY <2>2, <3>1, <3>2, <3>3
  <2>8. QED
    BY <1>1, <2>6, <2>7
<1>4. CASE units # <<>>
  BY <1>3, <1>4 DEF DetermineChunkBidiTypes, all
<1>5. QED
  BY <1>2, <1>4 DEF all

(* The incremental update of the types after an edit gives what            *)
(* classifying the whole text anew would give.                             *)
LEMMA ReplaceTypes ==
  ASSUME NEW enc, NEW units \in Seq(CodeUnits), NEW chunk \in Seq(CodeUnits),
         NEW index \in Nat, NEW removed \in Nat, index + removed <= Len(units),
         NEW new, new = Splice(units, index, removed, chunk),
         NEW old, old = DetermineBidiTypes(enc, units)
  PROVE  ReplaceBidiTypes(enc, new, old, index, removed, Len(chunk))
           = DetermineBidiTypes(enc, new)
<1>1. /\ new \in Seq(CodeUnits) /\ Len(new) = Len(units) - removed + Len(chunk)
      /\ Len(units) \in Nat /\ Len(chunk) \in Nat
  <2>1. new \in Seq(CodeUnits) /\ IsSplice(new, units, index, removed, chunk)
    BY SpliceProperties
  <2>2. QED
    BY <2>1 DEF IsSplice
<1>2. /\ old \in Seq(BidiTypes \cup {Garbage}) /\ Len(old) = Len(units)
      /\ \A k \in 1..Len(units) : old[k] = TypeAt(enc, units, k)
  BY TypesProperties
<1>3. ASSUME NEW resized,
             resized = IF Len(chunk) > removed
                       THEN Splice(old, index, 0, [k \in 1..(Len(chunk) - removed) |-> Garbage])
                       ELSE Splice(old, index, removed - Len(chunk), <<>>)
      PROVE  DetermineChunkBidiTypes(enc, new, resized, index, Len(chunk))
               = DetermineBidiTypes(enc, new)
  <2>1a. resized \in Seq(BidiTypes \cup {Garbage})
         /\ IsResized(resized, old, index, removed, Len(chunk))
    BY <1>1, <1>2, <1>3, ResizedProperties
  <2>1. /\ resized \in Seq(BidiTypes \cup {Garbage})
        /\ Len(resized) = Len(old) - removed + Len(chunk)
        /\ \A k \in 1..Len(resized) : k <= index => resized[k] = old[k]
        /\ \A k \in 1..Len(resized) : index + Len(chunk) < k =>
             resized[k] = old[k - Len(chunk) + removed]
    BY <2>1a DEF IsResized
  <2>2. ASSUME NEW k \in 1..Len(new), k + 1 <= index
        PROVE  resized[k] = TypeAt(enc, new, k)
    <3>1. k \in 1..Len(units) /\ k <= index
      BY <1>1, <2>2
    <3>2. resized[k] = TypeAt(enc, units, k)
      BY <1>1, <1>2, <2>1, <3>1
    <3>3. QED
      BY <2>2, <3>2, TypesAway
  <2>3. ASSUME NEW k \in 1..Len(new), k >= index + Len(chunk) + 2
        PROVE  resized[k] = TypeAt(enc, new, k)
    <3>1. k - Len(chunk) + removed \in 1..Len(units) /\ k > index + Len(chunk)
      BY <1>1, <2>3
    <3>2. resized[k] = TypeAt(enc, units, k - Len(chunk) + removed)
      BY <1>1, <1>2, <2>1, <3>1
    <3>3. QED
      BY <2>3, <3>2, TypesAway
  <2>4. Len(resized) = Len(new) /\ index + Len(chunk) <= Len(new)
    BY <1>1, <1>2, <2>1
  <2>5. QED
    BY <1>1, <2>1, <2>2, <2>3, <2>4, ChunkTypes
<1>4. QED
  BY <1>3 DEF ReplaceBidiTypes

-----------------------------------------------------------------------------

IInv == TypeOK /\ BidiTypesCurrent

LEMMA InitIInv == Init => IInv
<1> SUFFICES ASSUME Init PROVE IInv
  OBVIOUS
<1>1. DetermineBidiTypes(encoding, <<>>) = <<>>
  <2>1. Len(<<>>) = 0 /\ <<>> \in Seq(CodeUnits)
    OBVIOUS
  <2>2. /\ DetermineBidiTypes(encoding, <<>>) \in Seq(BidiTypes)
        /\ Len(DetermineBidiTypes(encoding, <<>>)) = 0
    BY <2>1, TypesProperties
  <2>3. QED
    BY <2>2
<1>2. codeUnits = <<>> /\ bidiTypes = <<>>
  BY DEF Init
<1>3. TypeOK
  <2>1. /\ codeUnits \in Seq(CodeUnits) /\ bidiTypes \in Seq(BidiTypes)
        /\ Len(bidiTypes) = Len(codeUnits)
    BY <1>2
  <2>2. encoding \in Encodings /\ isEditing \in BOOLEAN /\ isMutable \in BOOLEAN
    BY DEF Init
  <2>3. QED
    BY <2>1, <2>2 DEF TypeOK
<1>4. BidiTypesCurrent
  BY <1>1, <1>2 DEF BidiTypesCurrent
<1>5. QED
  BY <1>3, <1>4 DEF IInv

LEMMA NextIInv == IInv /\ [Next]_vars => IInv'
<1> SUFFICES ASSUME IInv, [Next]_vars PROVE IInv'
  OBVIOUS
<1> USE DEF IInv, TypeOK, BidiTypesCurrent
<1>1. CASE Edit
  <2>1. PICK index \in 0..Len(codeUnits), oldLength \in 0..Len(codeUnits), chunk \in Chunks :
          IsEdit(index, oldLength, chunk) /\ ReplaceCodeUnits(index, oldLength, chunk)
    BY <1>1 DEF Edit
  <2>2. /\ index \in Nat /\ oldLength \in Nat /\ chunk \in Seq(CodeUnits)
        /\ index + oldLength <= Len(codeUnits)
    BY <2>1, ConstantsAssumption DEF IsEdit
  <2>3. codeUnits' = Splice(codeUnits, index, oldLength, chunk) /\ codeUnits' \in Seq(CodeUnits)
    BY <2>1, <2>2, SpliceProperties DEF ReplaceCodeUnits
  <2>4. bidiTypes' = DetermineBidiTypes(encoding, codeUnits')
    BY <2>1, <2>2, <2>3, ReplaceTypes DEF ReplaceCodeUnits
  <2>5. UNCHANGED <<encoding, isEditing, isMutable>>
    BY <2>1 DEF ReplaceCodeUnits
  <2>6. QED
    BY <2>3, <2>4, <2>5, TypesProperties
<1>2. CASE Batch
  BY <1>2 DEF Batch, BeginEditing, EndEditing
<1>3. ASSUME NEW mutable \in BOOLEAN, CreateCopy(mutable) PROVE IInv'
  BY <1>3 DEF CreateCopy
<1>4. CASE UNCHANGED vars
  BY <1>4 DEF vars
<1>5. QED
  BY <1>1, <1>2, <1>3, <1>4 DEF Next

LEMMA SpecIInv == Spec => []IInv
  BY InitIInv, NextIInv, PTL DEF Spec

(* Every code unit has a bidi type, and no slot of the list that an edit   *)
(* resized is left unwritten, for texts, buffers and edits of any size.    *)
THEOREM SpecTypeOK == Spec => []TypeOK
<1>1. IInv => TypeOK
  BY DEF IInv
<1>2. QED
  BY <1>1, SpecIInv, PTL

(* The window that an edit reclassifies is always wide enough.             *)
THEOREM SpecBidiTypesCurrent == Spec => []BidiTypesCurrent
<1>1. IInv => BidiTypesCurrent
  BY DEF IInv
<1>2. QED
  BY <1>1, SpecIInv, PTL

-----------------------------------------------------------------------------
(* The paragraphs.  env is an edit as their update sees it, a record with  *)
(* the encoding enc, the text before it, the new text units and its types, *)
(* the list paras, index, removed and added of the edit, and the first and *)
(* the last paragraph that the scan rewrites (last < first only in an      *)
(* empty list).                                                            *)

(* One step of the fold in UpdateParagraphsForTextReplacement.             *)
ScanTurn(env, st, unit) ==
  IF st.done \/ st.scan >= Len(env.units) THEN st
  ELSE ScanParagraph(st, env.units, env.types, env.index, env.removed, env.added)

Paragraph ==
  [index : Nat, length : Nat, needsReanalysis : BOOLEAN,
   analysis : [offset : Int, content : Seq(CodeUnits)]]

(* IsParagraphEnd and Ends, with the encoding as an argument.              *)
IsEndOf(enc, units, i) ==
  \/ i = Len(units)
  \/ units[i] = "LF"
  \/ units[i] = "CR" /\ units[i + 1] # "LF"
  \/ PairType(enc) = "B" /\ IsPairAt(units, i - 2)

EndsOf(enc, units) == {i \in 1..Len(units) : IsEndOf(enc, units, i)}

(* From one end to the next.                                               *)
IsSegment(ends, from, to) ==
  /\ from < to /\ to \in ends
  /\ \A e \in ends : e <= from \/ to <= e

(* The end of the k-th paragraph, from which the next one starts.          *)
EndAt(paras, k) == IF k = 0 THEN 0 ELSE ParagraphEnd(paras[k])

IsTiling(ends, paras, length) ==
  /\ \A k \in 1..Len(paras) :
       /\ paras[k].index = EndAt(paras, k - 1)
       /\ IsSegment(ends, paras[k].index, ParagraphEnd(paras[k]))
  /\ EndAt(paras, Len(paras)) = length

OldEnd(env) == env.index + env.removed

NewEnd(env) == env.index + env.added

(* Where a rescan starts and where it has to stop: before the first        *)
(* paragraph that it rewrites, and after the last one that it touches.     *)
RescanStart(env) == EndAt(env.paras, env.first - 1)

Goal(env) == EndAt(env.paras, env.last) + env.added - env.removed

NewEnds(env) == EndsOf(env.enc, env.units)

(* Slots inserted so far.                                                  *)
Inserted(env, st) == IF st.slot <= env.last + 1 THEN 0 ELSE st.slot - 1 - env.last

(* What holds of the state of the scan after k turns.                      *)
ScanInv(env, k, st) ==
  /\ st.slot \in Nat /\ env.first <= st.slot
  /\ st.paras \in Seq(Paragraph)
  /\ Len(st.paras) = Len(env.paras) + Inserted(env, st)
  /\ \A i \in 1..(env.first - 1) : st.paras[i] = env.paras[i]
  /\ \A i \in env.first..(st.slot - 1) :
       /\ st.paras[i].index = EndAt(st.paras, i - 1)
       /\ IsSegment(NewEnds(env), st.paras[i].index, ParagraphEnd(st.paras[i]))
       /\ st.paras[i].needsReanalysis
  /\ \A i \in st.slot..Len(st.paras) : st.paras[i] = env.paras[i - Inserted(env, st)]
  /\ st.scan \in Nat /\ st.scan = EndAt(st.paras, st.slot - 1) /\ st.scan <= Goal(env)
  /\ st.newEnd \in {NewEnd(env), Goal(env)}
  /\ st.slot > env.last /\ st.scan < Len(env.units) => st.newEnd = Goal(env)
  /\ st.done \in BOOLEAN
  /\ st.done => st.scan > env.index /\ st.scan >= st.newEnd
  /\ st.scan > env.index /\ st.scan >= st.newEnd /\ st.slot > env.first => st.done
  /\ st.done \/ st.scan >= Len(env.units) \/ st.scan >= k

Scan == INSTANCE FoldTheorems WITH Op <- ScanTurn, Inv <- ScanInv

-----------------------------------------------------------------------------
(* Ends and segments: where an edit leaves them, and that the boundary     *)
(* search of the code goes from one to the next.                           *)

(* Where the edit ends no separator of two code units is cut or made, so   *)
(* on either side of it the ends of the text are those it had.             *)
LEMMA EndsAround ==
  ASSUME NEW enc, NEW units \in Seq(CodeUnits), NEW chunk \in Seq(CodeUnits),
         NEW index \in Nat, NEW removed \in Nat, index + removed <= Len(units),
         NEW new, new = Splice(units, index, removed, chunk),
         PairType(enc) = "B" =>
           /\ ~IsPairAt(units, index + removed - 1)
           /\ ~IsPairAt(new, index + Len(chunk) - 1)
  PROVE  /\ \A e \in Nat : e < index => (e \in EndsOf(enc, units) <=> e \in EndsOf(enc, new))
         /\ \A e \in Nat : e > index + removed =>
              (e \in EndsOf(enc, units) <=> e + Len(chunk) - removed \in EndsOf(enc, new))
<1>0. new \in Seq(CodeUnits) /\ IsSplice(new, units, index, removed, chunk)
  BY SpliceProperties
<1>1. /\ Len(new) = Len(units) - removed + Len(chunk)
      /\ \A i \in 1..Len(new) : i <= index => new[i] = units[i]
      /\ \A i \in 1..Len(new) : index + Len(chunk) < i => new[i] = units[i - Len(chunk) + removed]
  BY <1>0 DEF IsSplice
<1>2. Len(new) \in Nat /\ Len(units) \in Nat /\ Len(chunk) \in Nat
  BY <1>0
<1>3. ASSUME NEW e \in Nat, e < index
      PROVE  e \in EndsOf(enc, units) <=> e \in EndsOf(enc, new)
  <2>1. e < Len(units) /\ e < Len(new)
    BY <1>1, <1>2, <1>3
  <2>2. ASSUME e >= 1 PROVE IsEndOf(enc, units, e) <=> IsEndOf(enc, new, e)
    <3>1. new[e] = units[e] /\ new[e + 1] = units[e + 1]
      BY <1>1, <1>2, <1>3, <2>1, <2>2
    <3>2. e >= 2 => new[e - 1] = units[e - 1]
      BY <1>1, <1>2, <1>3, <2>1, <2>2
    <3>3. IsPairAt(units, e - 2) <=> IsPairAt(new, e - 2)
      BY <1>2, <2>1, <3>1, <3>2 DEF IsPairAt
    <3>4. QED
      BY <1>2, <2>1, <3>1, <3>3 DEF IsEndOf
  <2>3. QED
    BY <1>2, <2>1, <2>2 DEF EndsOf
<1>4. ASSUME NEW e \in Nat, e > index + removed
      PROVE  e \in EndsOf(enc, units) <=> e + Len(chunk) - removed \in EndsOf(enc, new)
  <2> DEFINE j == e + Len(chunk) - removed
  <2>1. j \in Nat /\ j > index + Len(chunk) /\ (j <= Len(new) <=> e <= Len(units))
        /\ (j = Len(new) <=> e = Len(units))
    <3>1. PICK u, v, c \in Nat : u = Len(units) /\ v = Len(new) /\ c = Len(chunk)
      BY <1>2
    <3>2. v = u - removed + c
      BY <1>1, <3>1
    <3>3. j = e + c - removed
      BY <3>1
    <3> HIDE DEF j
    <3>4. /\ j \in Nat /\ j > index + c /\ (j <= v <=> e <= u) /\ (j = v <=> e = u)
      BY <1>4, <3>2, <3>3
    <3>5. QED
      BY <3>1, <3>4
  <2>2. ASSUME e <= Len(units) PROVE IsEndOf(enc, units, e) <=> IsEndOf(enc, new, j)
    <3>1. j \in 1..Len(new) /\ j - Len(chunk) + removed = e
      BY <1>2, <1>4, <2>1, <2>2
    <3>2. new[j] = units[e]
      BY <1>1, <2>1, <3>1
    <3>3. e < Len(units) => new[j + 1] = units[e + 1]
      <4>1. e < Len(units) => j + 1 \in 1..Len(new) /\ j + 1 > index + Len(chunk)
        BY <1>1, <1>2, <2>1
      <4>2. j + 1 - Len(chunk) + removed = e + 1
        BY <1>2
      <4>3. QED
        BY <1>1, <4>1, <4>2
    <3>4. PairType(enc) = "B" => (IsPairAt(units, e - 2) <=> IsPairAt(new, j - 2))
      <4>1. CASE e = index + removed + 1
        <5>1. e - 2 = index + removed - 1 /\ j - 2 = index + Len(chunk) - 1
          BY <1>2, <4>1
        <5>2. QED
          BY <5>1
      <4>2. CASE e > index + removed + 1
        <5>1. j - 1 \in 1..Len(new) /\ j - 1 > index + Len(chunk)
              /\ j - 1 - Len(chunk) + removed = e - 1
          BY <1>1, <1>2, <2>1, <3>1, <4>2
        <5>2. new[j - 1] = units[e - 1]
          BY <1>1, <5>1
        <5> HIDE DEF j
        <5>3. /\ e - 2 >= 0 /\ e - 2 + 1 < Len(units) /\ e - 2 + 1 = e - 1 /\ e - 2 + 2 = e
              /\ j - 2 >= 0 /\ j - 2 + 1 < Len(new) /\ j - 2 + 1 = j - 1 /\ j - 2 + 2 = j
          BY <1>2, <2>1, <2>2, <3>1, <4>2
        <5>4. QED
          BY <3>2, <5>2, <5>3 DEF IsPairAt
      <4>3. QED
        BY <1>4, <4>1, <4>2
    <3>5. QED
      <4> HIDE DEF j
      <4>1. QED
        BY <1>2, <2>1, <2>2, <3>2, <3>3, <3>4 DEF IsEndOf
  <2>3. QED
    BY <1>2, <1>4, <2>1, <2>2 DEF EndsOf
<1>5. QED
  BY <1>3, <1>4

(* Where the boundary search of the code takes a paragraph that starts at  *)
(* an end: to the next one.                                                *)
LEMMA BoundaryIsNextEnd ==
  ASSUME NEW enc, NEW units \in Seq(CodeUnits), NEW types, types = DetermineBidiTypes(enc, units),
         NEW offset \in Nat, offset < Len(units), offset = 0 \/ offset \in EndsOf(enc, units),
         NEW b, b = GetParagraphBoundary(units, types, offset)
  PROVE  /\ b.length \in Nat
         /\ IsSegment(EndsOf(enc, units), offset, offset + b.length)
         /\ b.separatorLength > 0 \/ offset + b.length = Len(units)
<1> DEFINE I == {i \in (offset + 1)..Len(units) : types[i] = "B"}
<1>1. /\ Len(units) \in Nat
      /\ \A k \in 1..Len(units) : types[k] = TypeAt(enc, units, k)
      /\ \A k \in 1..Len(units) : units[k] \in CodeUnits
  BY TypesProperties
<1>2. PairType(enc) \in {"B", "L"}
  BY DEF PairType
<1>3. \A k \in 1..Len(units) : types[k] = "B" <=>
        \/ units[k] \in {"CR", "LF"}
        \/ PairType(enc) = "B" /\ IsPairAt(units, k - 1)
  BY <1>1, <1>2 DEF TypeAt, CodeUnits, IsPairAt
<1>4. offset > 0 => units[offset] # "lead"
  <2>1. offset > 0 => IsEndOf(enc, units, offset)
    BY DEF EndsOf
  <2>2. QED
    BY <1>1, <2>1 DEF IsEndOf, IsPairAt
<1>5. ASSUME NEW e \in EndsOf(enc, units), e > offset, e < Len(units)
      PROVE  \/ e \in I /\ units[e] \in {"CR", "LF"}
             \/ e - 1 \in I /\ PairType(enc) = "B" /\ IsPairAt(units, e - 2)
  <2>1. e \in 1..Len(units) /\ IsEndOf(enc, units, e)
    BY DEF EndsOf
  <2>2. CASE units[e] \in {"CR", "LF"}
    BY <1>1, <1>3, <1>5, <2>1, <2>2
  <2>3. CASE PairType(enc) = "B" /\ IsPairAt(units, e - 2)
    <3>1. e - 2 >= 0 /\ e - 2 + 1 = e - 1 /\ e - 1 - 1 = e - 2
      BY <2>1, <2>3 DEF IsPairAt
    <3>2. units[e - 1] = "lead"
      BY <2>3, <3>1 DEF IsPairAt
    <3>3. e - 1 # offset
      BY <1>4, <3>1, <3>2
    <3>4. e - 1 \in (offset + 1)..Len(units) /\ e - 1 \in 1..Len(units)
      BY <1>1, <1>5, <2>1, <3>1, <3>3
    <3>5. types[e - 1] = "B"
      BY <1>3, <2>3, <3>1, <3>4
    <3>6. QED
      BY <2>3, <3>4, <3>5
  <2>4. QED
    BY <1>5, <2>1, <2>2, <2>3 DEF IsEndOf
<1>6. Len(units) \in EndsOf(enc, units)
  BY <1>1 DEF EndsOf, IsEndOf
<1>7. SelectInSubSeq(types, offset + 1, Len(units), LAMBDA t : t = "B") = IF I # {} THEN Min(I) ELSE 0
  BY DEF SelectInSubSeq
<1>8. CASE I = {}
  <2>1. b.separatorLength = 0 /\ b.length = Len(units) - offset
    BY <1>7, <1>8 DEF GetParagraphBoundary
  <2>2. \A e \in EndsOf(enc, units) : e <= offset \/ Len(units) <= e
    BY <1>1, <1>5, <1>8 DEF EndsOf
  <2>3. QED
    BY <1>1, <1>6, <2>1, <2>2 DEF IsSegment
<1>9. CASE I # {}
  <2>1. PICK p : p = Min(I)
    OBVIOUS
  <2>2. p \in I /\ \A k \in I : p <= k
    <3>1. I \in SUBSET Nat
      BY <1>1
    <3>2. \E m \in I : \A k \in I : m <= k
      BY <1>9, <3>1, Scan!LeastNatural
    <3>3. QED
      BY <2>1, <3>2 DEF Min
  <2>3. PICK at : at = p - 1
    OBVIOUS
  <2>4. p \in 1..Len(units) /\ p > offset /\ at \in Nat /\ at + 1 = p /\ types[p] = "B"
    BY <1>1, <2>2, <2>3
  <2>5. PICK sep : sep = GetSeparatorLength(units, at)
    OBVIOUS
  <2>6. b = [separatorLength |-> sep, length |-> at + sep - offset]
    BY <1>7, <1>9, <2>1, <2>3, <2>4, <2>5 DEF GetParagraphBoundary
  <2> DEFINE end == at + sep
  <2> HIDE DEF I
  <2>7. sep \in {1, 2}
    BY <2>5 DEF GetSeparatorLength
  <2>8. IsSegment(EndsOf(enc, units), offset, end)
    <3>1. CASE IsPairAt(units, at)
      <4>1. sep = 2 /\ end = p + 1
        BY <2>4, <2>5, <3>1 DEF GetSeparatorLength
      <4>2. p + 1 \in 1..Len(units) /\ units[p] = "lead" /\ units[p + 1] = "trail"
        BY <2>4, <3>1, <1>1 DEF IsPairAt
      <4>3. PairType(enc) = "B"
        BY <1>3, <2>4, <4>2
      <4>4. end - 2 = at
        BY <2>4, <4>1
      <4>5. end \in EndsOf(enc, units)
        BY <3>1, <4>1, <4>2, <4>3, <4>4 DEF EndsOf, IsEndOf
      <4>6. p \notin EndsOf(enc, units)
        BY <1>1, <4>2, <2>4 DEF EndsOf, IsEndOf, IsPairAt
      <4>7. ASSUME NEW e \in EndsOf(enc, units), e > offset, e < end PROVE FALSE
        <5>1. e \in 1..Len(units) /\ e < Len(units) /\ e # p
          BY <4>1, <4>2, <4>6, <4>7 DEF EndsOf
        <5>2. e \in I \/ e - 1 \in I
          BY <1>5, <4>7, <5>1
        <5>3. QED
          BY <2>2, <2>4, <4>1, <4>7, <5>1, <5>2
      <4>8. QED
        BY <1>1, <2>4, <4>1, <4>5, <4>7 DEF IsSegment, EndsOf
    <3>2. CASE ~IsPairAt(units, at) /\ p < Len(units) /\ units[p] = "CR" /\ units[p + 1] = "LF"
      <4>1. sep = 2 /\ end = p + 1 /\ end \in 1..Len(units)
        <5>1. at + 1 < Len(units) /\ at + 2 = p + 1
          BY <2>4, <3>2
        <5>2. sep = 2
          BY <2>4, <2>5, <3>2, <5>1 DEF GetSeparatorLength
        <5>3. QED
          BY <1>1, <2>4, <5>1, <5>2
      <4>2. end \in EndsOf(enc, units)
        BY <3>2, <4>1 DEF EndsOf, IsEndOf
      <4>3. p \notin EndsOf(enc, units)
        BY <1>1, <3>2, <2>4 DEF EndsOf, IsEndOf, IsPairAt
      <4>4. ASSUME NEW e \in EndsOf(enc, units), e > offset, e < end PROVE FALSE
        <5>1. e \in 1..Len(units) /\ e < Len(units) /\ e # p
          BY <4>1, <4>3, <4>4 DEF EndsOf
        <5>2. e \in I \/ e - 1 \in I
          BY <1>5, <4>4, <5>1
        <5>3. QED
          BY <2>2, <2>4, <4>1, <4>4, <5>1, <5>2
      <4>5. QED
        BY <1>1, <2>4, <4>1, <4>2, <4>4 DEF IsSegment, EndsOf
    <3>3. CASE ~IsPairAt(units, at) /\ ~(p < Len(units) /\ units[p] = "CR" /\ units[p + 1] = "LF")
      <4>1. sep = 1 /\ end = p
        <5>1. at + 1 = p /\ at + 2 = p + 1
          BY <2>4
        <5>2. ~(at + 1 < Len(units) /\ units[at + 1] = "CR" /\ units[at + 2] = "LF")
          BY <3>3, <5>1
        <5>3. sep = 1
          BY <2>5, <3>3, <5>2 DEF GetSeparatorLength
        <5>4. QED
          BY <2>4, <5>3
      <4>2. units[p] \in {"CR", "LF"}
        BY <1>3, <2>4, <3>3
      <4>3. end \in EndsOf(enc, units)
        BY <1>1, <2>4, <3>3, <4>1, <4>2 DEF EndsOf, IsEndOf
      <4>4. ASSUME NEW e \in EndsOf(enc, units), e > offset, e < end PROVE FALSE
        <5>1. e \in 1..Len(units) /\ e < Len(units)
          BY <1>1, <2>4, <4>1, <4>4 DEF EndsOf
        <5>2. e \in I \/ e - 1 \in I
          BY <1>5, <4>4, <5>1
        <5>3. QED
          BY <2>2, <2>4, <4>1, <4>4, <5>1, <5>2
      <4>5. QED
        BY <1>1, <2>4, <4>1, <4>3, <4>4 DEF IsSegment, EndsOf
    <3>4. QED
      BY <3>1, <3>2, <3>3
  <2>9. b.length = end - offset /\ b.separatorLength = sep /\ end \in Nat /\ end > offset
    BY <2>4, <2>6, <2>7
  <2>10. b.length \in Nat /\ offset + b.length = end /\ b.separatorLength > 0
    <3> HIDE DEF end
    <3>1. QED
      BY <2>7, <2>9
  <2>11. QED
    BY <2>8, <2>10
<1>10. QED
  BY <1>8, <1>9

(* n segments in a row: their ends are those between the first start and   *)
(* the last end, and there are n of them.                                  *)
LEMMA SegmentsCount ==
  ASSUME NEW ends \in SUBSET Nat, NEW n \in Nat, NEW h \in [0..n -> Nat],
         \A k \in 1..n : IsSegment(ends, h[k - 1], h[k])
  PROVE  /\ \A i, j \in 0..n : i < j => h[i] < h[j]
         /\ {e \in ends : h[0] < e /\ e <= h[n]} = {h[k] : k \in 1..n}
         /\ Cardinality({h[k] : k \in 1..n}) = n
<1>1. \A k \in 1..n : /\ h[k - 1] < h[k] /\ h[k] \in ends
                      /\ \A e \in ends : e <= h[k - 1] \/ h[k] <= e
  BY DEF IsSegment
<1>2. \A i, j \in 0..n : i < j => h[i] < h[j]
  <2> DEFINE T == {j \in 0..n : \A i \in 0..n : i < j => h[i] < h[j]}
  <2>1. 0 \in T
    OBVIOUS
  <2>2. ASSUME NEW k \in 0..(n - 1), k \in T PROVE k + 1 \in T
    <3>1. k + 1 \in 1..n /\ k + 1 - 1 = k
      OBVIOUS
    <3>2. h[k] < h[k + 1] /\ h[k] \in Nat /\ h[k + 1] \in Nat
      BY <1>1, <3>1
    <3>3. ASSUME NEW i \in 0..n, i < k + 1 PROVE h[i] < h[k + 1]
      <4>1. i = k \/ (i < k /\ h[i] < h[k] /\ h[i] \in Nat)
        BY <2>2, <3>3
      <4>2. QED
        BY <3>2, <4>1
    <3>4. QED
      BY <3>1, <3>3
  <2> HIDE DEF T
  <2>3. \A j \in 0..n : j \in T
    BY <2>1, <2>2, Scan!UpToInduction
  <2>4. QED
    BY <2>3 DEF T
<1>3. ASSUME NEW e \in ends, h[0] < e, e <= h[n] PROVE e \in {h[k] : k \in 1..n}
  <2>1. {k \in 0..n : e <= h[k]} \in SUBSET Nat /\ {k \in 0..n : e <= h[k]} # {}
    <3>1. n \in {k \in 0..n : e <= h[k]}
      BY <1>3
    <3>2. {k \in 0..n : e <= h[k]} \in SUBSET Nat
      OBVIOUS
    <3>3. QED
      BY <3>1, <3>2
  <2>2. PICK m \in {k \in 0..n : e <= h[k]} : \A k \in {k \in 0..n : e <= h[k]} : m <= k
    BY <2>1, Scan!LeastNatural
  <2>3. m \in 1..n /\ m - 1 \in 0..n
    BY <1>3, <2>2
  <2>4. ~(e <= h[m - 1])
    BY <2>2, <2>3
  <2>5. h[m] <= e
    BY <1>1, <2>3, <2>4
  <2>6. e = h[m]
    BY <2>2, <2>3, <2>5
  <2>7. QED
    BY <2>3, <2>6
<1>4. ASSUME NEW k \in 1..n PROVE h[k] \in ends /\ h[0] < h[k] /\ h[k] <= h[n]
  BY <1>1, <1>2
<1>5. {e \in ends : h[0] < e /\ e <= h[n]} = {h[k] : k \in 1..n}
  BY <1>3, <1>4
<1>6. Cardinality({h[k] : k \in 1..n}) = n
  <2> DEFINE S == {h[k] : k \in 1..n}
             g == [k \in 1..n |-> h[k]]
  <2>1. g \in Injection(1..n, S)
    <3>1. g \in [1..n -> S]
      OBVIOUS
    <3>2. \A i, j \in 1..n : g[i] = g[j] => i = j
      BY <1>2
    <3>3. QED
      BY <3>1, <3>2 DEF Injection, IsInjective
  <2>2. g \in Surjection(1..n, S)
    BY DEF Surjection
  <2>3. ExistsBijection(1..n, S)
    BY <2>1, <2>2 DEF ExistsBijection, Bijection
  <2>4. QED
    BY <2>3, FS_CountingElements
<1>7. QED
  BY <1>2, <1>5, <1>6

-----------------------------------------------------------------------------
(* The update is a fold of the turns of the scan.                          *)

(* The state that the scan starts from.                                    *)
ScanStart(paras, index, added, found) ==
  [scan   |-> IF found = 0 THEN index ELSE paras[found].index,
   slot   |-> IF found = 0 THEN Len(paras) + 1 ELSE found,
   newEnd |-> index + added,
   paras  |-> paras,
   done   |-> FALSE]

(* What the update makes of the state in which the scan ends.              *)
Finish(last, oldEnd, removed, added) ==
  LET kept  == SelectInSubSeq(last.paras, last.slot, Len(last.paras),
                              LAMBDA p : ~IsTouched(p, oldEnd))
      after == IF kept = 0 THEN <<>> ELSE SubSeq(last.paras, kept, Len(last.paras))
  IN  SubSeq(last.paras, 1, last.slot - 1)
        \o [k \in 1..Len(after) |-> [after[k] EXCEPT !.index = @ + added - removed]]

(* The update of the code, as the fold of ScanTurn that Scan reasons on.   *)
LEMMA UpdateIsFold ==
  ASSUME NEW env
  PROVE  UpdateParagraphsForTextReplacement(env.paras, env.units, env.types,
                                            env.index, env.removed, env.added)
         = Finish(Scan!Folded(env,
                    ScanStart(env.paras, env.index, env.added,
                      GetCodeUnitParagraphIndex(env.paras, AtLeastZero(env.index - 1))),
                    env.units),
                  env.index + env.removed, env.removed, env.added)
  BY DEF UpdateParagraphsForTextReplacement, Finish, ScanStart, Scan!Folded, FoldLeft,
         MapThenFoldSet, Max, Scan!Max, ScanTurn

-----------------------------------------------------------------------------
(* The paragraphs that an edit meets.                                      *)

(* An edit and the paragraphs that it meets: those from env.first to       *)
(* env.last begin before or at the end of the old text, and the ends of    *)
(* the text are where they were on either side of the edit.                *)
IsRescan(env) ==
  /\ env.index \in Nat /\ env.removed \in Nat /\ env.added \in Nat
  /\ env.before \in Seq(CodeUnits) /\ env.units \in Seq(CodeUnits)
  /\ env.types = DetermineBidiTypes(env.enc, env.units)
  /\ env.paras \in Seq(Paragraph)
  /\ OldEnd(env) <= Len(env.before)
  /\ Len(env.units) = Len(env.before) - env.removed + env.added
  /\ IsTiling(EndsOf(env.enc, env.before), env.paras, Len(env.before))
  /\ \A e \in Nat : e < env.index => (e \in EndsOf(env.enc, env.before) <=> e \in NewEnds(env))
  /\ \A e \in Nat : e > OldEnd(env) =>
       (e \in EndsOf(env.enc, env.before) <=> e + env.added - env.removed \in NewEnds(env))
  /\ env.first \in 1..(Len(env.paras) + 1)
  /\ env.last \in (env.first - 1)..Len(env.paras)
  /\ env.first > env.last => env.paras = <<>>
  /\ \A k \in env.first..env.last : env.paras[k].index <= OldEnd(env)
  /\ env.last < Len(env.paras) => env.paras[env.last + 1].index > OldEnd(env)
  /\ RescanStart(env) < env.index \/ RescanStart(env) = 0

(* KeepsTail, of a rescan.                                                 *)
TailIsKept(env) ==
  (env.added > 0 /\ NewEnd(env) < Len(env.units) /\ NewEnd(env) \in NewEnds(env)) =>
    Cardinality({e \in NewEnds(env) : RescanStart(env) < e /\ e <= NewEnd(env)}) >
    Cardinality({e \in EndsOf(env.enc, env.before) : RescanStart(env) < e /\ e <= OldEnd(env)})

(* Ends lie in the text, and the end of the text is one of them.           *)
LEMMA EndsProperties ==
  ASSUME NEW enc, NEW units \in Seq(CodeUnits)
  PROVE  /\ \A e \in EndsOf(enc, units) : e \in Nat /\ 1 <= e /\ e <= Len(units)
         /\ Len(units) > 0 => Len(units) \in EndsOf(enc, units)
  BY DEF EndsOf, IsEndOf

(* In a tiling the k-th paragraph ends at the k-th end of the text.        *)
LEMMA TilingProperties ==
  ASSUME NEW ends \in SUBSET Nat, NEW n \in Nat, NEW paras \in Seq(Paragraph),
         IsTiling(ends, paras, n)
  PROVE  /\ \A k \in 0..Len(paras) : EndAt(paras, k) \in Nat
         /\ \A k \in 1..Len(paras) : EndAt(paras, k) = ParagraphEnd(paras[k]) /\ EndAt(paras, k) \in ends
         /\ \A k \in 1..Len(paras) : IsSegment(ends, EndAt(paras, k - 1), EndAt(paras, k))
         /\ \A i, j \in 0..Len(paras) : i < j => EndAt(paras, i) < EndAt(paras, j)
         /\ {ParagraphEnd(paras[k]) : k \in 1..Len(paras)} = {e \in ends : 0 < e /\ e <= n}
         /\ Cardinality({e \in ends : 0 < e /\ e <= n}) = Len(paras)
<1>1. ASSUME NEW k \in 1..Len(paras)
      PROVE  EndAt(paras, k) = ParagraphEnd(paras[k]) /\ EndAt(paras, k) \in ends
             /\ IsSegment(ends, EndAt(paras, k - 1), EndAt(paras, k))
  BY DEF IsTiling, EndAt, IsSegment
<1>2. Len(paras) \in Nat
  OBVIOUS
<1> DEFINE h == [k \in 0..Len(paras) |-> EndAt(paras, k)]
<1>3. ASSUME NEW k \in 0..Len(paras) PROVE EndAt(paras, k) \in Nat
  <2>1. CASE k = 0
    BY <2>1 DEF EndAt
  <2>2. CASE k # 0
    <3>1. k \in 1..Len(paras)
      BY <1>2, <2>2
    <3>2. EndAt(paras, k) \in ends
      BY <1>1, <3>1
    <3>3. QED
      BY <3>2
  <2>3. QED
    BY <2>1, <2>2
<1>4. h \in [0..Len(paras) -> Nat] /\ \A k \in 1..Len(paras) : IsSegment(ends, h[k - 1], h[k])
  <2>1. h \in [0..Len(paras) -> Nat]
    BY <1>3
  <2>2. ASSUME NEW k \in 1..Len(paras) PROVE IsSegment(ends, h[k - 1], h[k])
    <3>1. k - 1 \in 0..Len(paras) /\ k \in 0..Len(paras)
      OBVIOUS
    <3>2. h[k - 1] = EndAt(paras, k - 1) /\ h[k] = EndAt(paras, k)
      BY <3>1
    <3>3. QED
      BY <1>1, <3>2
  <2>3. QED
    BY <2>1, <2>2
<1>5. \A k \in 0..Len(paras) : h[k] = EndAt(paras, k)
  OBVIOUS
<1>6. h[0] = 0 /\ h[Len(paras)] = n
  BY <1>2, <1>5 DEF EndAt, IsTiling
<1> HIDE DEF h
<1>7. /\ \A i, j \in 0..Len(paras) : i < j => h[i] < h[j]
      /\ {e \in ends : h[0] < e /\ e <= h[Len(paras)]} = {h[k] : k \in 1..Len(paras)}
      /\ Cardinality({h[k] : k \in 1..Len(paras)}) = Len(paras)
  BY <1>2, <1>4, SegmentsCount
<1>8. {h[k] : k \in 1..Len(paras)} = {ParagraphEnd(paras[k]) : k \in 1..Len(paras)}
  BY <1>1, <1>5
<1>9. {ParagraphEnd(paras[k]) : k \in 1..Len(paras)} = {e \in ends : 0 < e /\ e <= n}
  BY <1>6, <1>7, <1>8
<1>10. Cardinality({e \in ends : 0 < e /\ e <= n}) = Len(paras)
  BY <1>7, <1>8, <1>9
<1>11. QED
  BY <1>1, <1>3, <1>5, <1>7, <1>9, <1>10

(* Where a rescan starts and stops, in the new text.                       *)
RescanIsBounded(env) ==
  /\ RescanStart(env) \in Nat /\ Goal(env) \in Nat
  /\ RescanStart(env) = 0 \/ (RescanStart(env) \in NewEnds(env) /\ RescanStart(env) < env.index)
  /\ NewEnd(env) <= Goal(env) /\ Goal(env) <= Len(env.units)
  /\ Goal(env) = Len(env.units) \/ (Goal(env) \in NewEnds(env) /\ Goal(env) > NewEnd(env))
  /\ \A e \in NewEnds(env) : e > NewEnd(env) => e >= Goal(env)
  /\ \A k \in env.first..env.last :
       ParagraphEnd(env.paras[k]) > OldEnd(env) =>
         k = env.last /\ ParagraphEnd(env.paras[k]) + env.added - env.removed = Goal(env)
  /\ env.first <= env.last /\ Goal(env) < Len(env.units) =>
       ParagraphEnd(env.paras[env.last]) > OldEnd(env)

(* The scan has to stop at the end of the text, or at the next end of a    *)
(* paragraph past the new text, which is where the last one touched ended. *)
LEMMA RescanBounds == ASSUME NEW env, IsRescan(env) PROVE RescanIsBounded(env)
<1> DEFINE P == env.paras
           U == env.before
           E == EndsOf(env.enc, U)
           X == EndAt(P, env.last)
<1>1. /\ env.index \in Nat /\ env.removed \in Nat /\ env.added \in Nat
      /\ U \in Seq(CodeUnits) /\ P \in Seq(Paragraph)
      /\ OldEnd(env) <= Len(U) /\ Len(env.units) = Len(U) - env.removed + env.added
      /\ env.first \in 1..(Len(P) + 1) /\ env.last \in (env.first - 1)..Len(P)
      /\ env.units \in Seq(CodeUnits)
  BY DEF IsRescan
<1>2. Len(U) \in Nat /\ Len(P) \in Nat /\ Len(env.units) \in Nat
  BY <1>1, SMTT(30)
<1>3. /\ \A e \in E : e \in Nat /\ 1 <= e /\ e <= Len(U)
      /\ \A e \in NewEnds(env) : e \in Nat /\ 1 <= e /\ e <= Len(env.units)
      /\ Len(U) > 0 => Len(U) \in E
  BY <1>1, EndsProperties DEF NewEnds
<1>4. E \in SUBSET Nat /\ IsTiling(E, P, Len(U))
  BY <1>3 DEF IsRescan
<1>5. /\ \A k \in 0..Len(P) : EndAt(P, k) \in Nat
      /\ \A k \in 1..Len(P) : EndAt(P, k) = ParagraphEnd(P[k]) /\ EndAt(P, k) \in E
      /\ \A k \in 1..Len(P) : IsSegment(E, EndAt(P, k - 1), EndAt(P, k))
      /\ \A k \in 1..Len(P) : P[k].index = EndAt(P, k - 1)
      /\ EndAt(P, Len(P)) = Len(U)
  <2> HIDE DEF P, U, E
  <2>1. QED
    BY <1>1, <1>2, <1>4, TilingProperties DEF IsTiling
<1>6. env.first - 1 \in 0..Len(P) /\ env.last \in 0..Len(P)
  BY <1>1, <1>2
<1>7. /\ \A e \in Nat : e < env.index => (e \in E <=> e \in NewEnds(env))
      /\ \A e \in Nat : e > OldEnd(env) => (e \in E <=> e + env.added - env.removed \in NewEnds(env))
      /\ RescanStart(env) < env.index \/ RescanStart(env) = 0
      /\ env.first > env.last => P = <<>>
      /\ \A k \in env.first..env.last : P[k].index <= OldEnd(env)
      /\ env.last < Len(P) => P[env.last + 1].index > OldEnd(env)
  BY DEF IsRescan
<1>8. /\ X \in Nat /\ X <= Len(U)
      /\ X > OldEnd(env) \/ (X = Len(U) /\ env.last = Len(P))
      /\ OldEnd(env) <= X
  <2>1. CASE env.last = Len(P)
    BY <1>1, <1>2, <1>5, <2>1 DEF OldEnd
  <2>2. CASE env.last < Len(P)
    <3>1. env.last + 1 \in 1..Len(P) /\ env.last + 1 - 1 = env.last
      BY <1>1, <1>2, <2>2, SMTT(30)
    <3>2. X = P[env.last + 1].index /\ X > OldEnd(env)
      <4>1. P[env.last + 1].index = EndAt(P, env.last + 1 - 1)
        <5>1. PICK k \in 1..Len(P) : k = env.last + 1
          BY <3>1
        <5>2. P[k].index = EndAt(P, k - 1)
          BY <1>5
        <5>3. k - 1 = env.last + 1 - 1
          BY <5>1, <1>1, <1>2
        <5> HIDE DEF P
        <5>4. QED
          BY <5>1, <5>2, <5>3, Zenon
      <4>2. P[env.last + 1].index > OldEnd(env)
        BY <1>7, <2>2
      <4>3. QED
        BY <3>1, <4>1, <4>2
    <3>3. X = 0 \/ X \in E
      <4>1. env.last = 0 \/ env.last \in 1..Len(P)
        BY <1>6
      <4>2. QED
        BY <1>5, <4>1 DEF EndAt
    <3>4. X \in Nat /\ X <= Len(U) /\ OldEnd(env) \in Nat
      <4>1. OldEnd(env) \in Nat
        BY <1>1 DEF OldEnd
      <4>2. X \in Nat
        BY <1>5, <1>6
      <4>3. X <= Len(U)
        BY <1>2, <1>3, <3>3
      <4>4. QED
        BY <4>1, <4>2, <4>3
    <3>5. QED
      BY <3>2, <3>4
  <2>3. QED
    BY <1>2, <1>6, <2>1, <2>2
<1>9. OldEnd(env) = env.index + env.removed /\ NewEnd(env) = env.index + env.added
      /\ Goal(env) = X + env.added - env.removed
  BY DEF OldEnd, NewEnd, Goal
<1>n. /\ env.index \in Nat /\ env.removed \in Nat /\ env.added \in Nat
      /\ Len(U) \in Nat /\ Len(env.units) \in Nat
      /\ Len(env.units) = Len(U) - env.removed + env.added
      /\ OldEnd(env) = env.index + env.removed /\ NewEnd(env) = env.index + env.added
      /\ OldEnd(env) <= Len(U)
  BY <1>1, <1>2, <1>9
<1>10. Goal(env) \in Nat /\ NewEnd(env) <= Goal(env) /\ Goal(env) <= Len(env.units)
  <2> HIDE DEF X, P, U, E
  <2>1. QED
    BY <1>n, <1>8, <1>9, SMTT(30)
<1>11. Goal(env) = Len(env.units) \/ (Goal(env) \in NewEnds(env) /\ Goal(env) > NewEnd(env))
  <2> HIDE DEF P, U, E
  <2>1. CASE X = Len(U)
    <3> HIDE DEF X
    <3>1. QED
      BY <1>1, <1>2, <1>9, <2>1
  <2>2. CASE X # Len(U)
    <3>1. X > OldEnd(env) /\ X > 0
      BY <1>1, <1>8, <1>9, <2>2
    <3>2. env.last # 0
      BY <3>1 DEF EndAt
    <3>3. X \in E
      BY <1>5, <1>6, <3>2
    <3> HIDE DEF X
    <3>4. X + env.added - env.removed \in NewEnds(env)
      BY <1>7, <1>8, <3>1, <3>3
    <3>5. QED
      BY <1>1, <1>8, <1>9, <3>1, <3>4, SMTT(30)
  <2>3. QED
    BY <2>1, <2>2
<1>12. ASSUME NEW e \in NewEnds(env), e > NewEnd(env) PROVE e >= Goal(env)
  <2> HIDE DEF P, U, E
  <2> DEFINE j == e - env.added + env.removed
  <2>1. j \in Nat /\ j > OldEnd(env) /\ j + env.added - env.removed = e /\ j <= Len(U)
    <3>1. e \in Nat /\ e <= Len(env.units)
      BY <1>3
    <3>2. j = e - env.added + env.removed
      OBVIOUS
    <3>3. PICK i, r, a, u, v \in Nat :
             /\ i = env.index /\ r = env.removed /\ a = env.added
             /\ u = Len(U) /\ v = Len(env.units)
      BY <1>n
    <3>4. /\ v = u - r + a /\ i + r <= u /\ j = e - a + r /\ e > i + a /\ e <= v
          /\ OldEnd(env) = i + r
      BY <1>n, <1>12, <3>1, <3>2, <3>3
    <3> HIDE DEF j
    <3>5. j \in Nat /\ j > i + r /\ j + a - r = e /\ j <= u
      BY <3>1, <3>4
    <3>6. QED
      BY <3>3, <3>4, <3>5
  <2> HIDE DEF j
  <2>2. j \in E
    BY <1>7, <2>1
  <2>3. j >= X
    <3>1. CASE X = OldEnd(env)
      <4>1. X \in Nat /\ j \in Nat
        BY <1>8, <2>1
      <4>2. QED
        BY <2>1, <3>1, <4>1
    <3>2. CASE X # OldEnd(env)
      <4>1. X > OldEnd(env) /\ X > 0 /\ OldEnd(env) \in Nat
        <5> HIDE DEF X
        <5>1. QED
          BY <1>n, <1>8, <3>2
      <4>2. env.last # 0
        BY <4>1 DEF EndAt
      <4>3. env.last \in 1..Len(P)
        BY <1>6, <4>2
      <4>4. IsSegment(E, EndAt(P, env.last - 1), X)
        BY <1>5, <4>3
      <4>5. env.last \in env.first..env.last
        <5>1. P # <<>>
          BY <4>3
        <5>2. QED
          BY <1>1, <1>7, <4>3, <5>1
      <4>6. EndAt(P, env.last - 1) <= OldEnd(env)
        BY <1>5, <1>7, <4>3, <4>5
      <4>7. EndAt(P, env.last - 1) \in Nat
        BY <1>5, <4>3
      <4>8. j <= EndAt(P, env.last - 1) \/ X <= j
        BY <2>2, <4>4 DEF IsSegment
      <4>9. QED
        <5> HIDE DEF X
        <5>1. QED
          BY <1>8, <2>1, <4>1, <4>6, <4>7, <4>8
    <3>3. QED
      BY <3>1, <3>2
  <2>4. QED
    <3> HIDE DEF X
    <3>1. QED
      BY <1>1, <1>8, <1>9, <2>1, <2>3, SMTT(30)
<1>13. ASSUME NEW k \in env.first..env.last, ParagraphEnd(P[k]) > OldEnd(env)
       PROVE  k = env.last /\ ParagraphEnd(P[k]) + env.added - env.removed = Goal(env)
  <2> HIDE DEF P, U, E
  <2>1. k \in 1..Len(P)
    BY <1>1, <1>2
  <2>2. EndAt(P, k) = ParagraphEnd(P[k]) /\ EndAt(P, k) \in Nat
    BY <1>5, <2>1
  <2>3. ASSUME k # env.last PROVE FALSE
    <3>1. k + 1 \in env.first..env.last /\ k + 1 \in 1..Len(P) /\ k + 1 - 1 = k
      BY <1>1, <1>2, <2>3, SMTT(30)
    <3>2. P[k + 1].index <= OldEnd(env) /\ P[k + 1].index = EndAt(P, k)
      BY <1>5, <1>7, <3>1
    <3>3. OldEnd(env) \in Nat
      BY <1>1, <1>9, SMTT(30)
    <3>4. QED
      BY <1>13, <2>2, <3>2, <3>3
  <2>4. QED
    BY <1>9, <2>2, <2>3
<1>14. ASSUME env.first <= env.last, Goal(env) < Len(env.units)
       PROVE  ParagraphEnd(P[env.last]) > OldEnd(env)
  <2> HIDE DEF P, U, E
  <2>1. env.last \in 1..Len(P)
    BY <1>1, <1>2, <1>14
  <2>2. X = ParagraphEnd(P[env.last])
    BY <1>5, <2>1
  <2>3. X # Len(U)
    <3> HIDE DEF X
    <3>1. QED
      BY <1>1, <1>2, <1>9, <1>14
  <2>4. QED
    BY <1>8, <2>2, <2>3
<1>15. RescanStart(env) \in Nat
       /\ (RescanStart(env) = 0 \/ (RescanStart(env) \in NewEnds(env) /\ RescanStart(env) < env.index))
  <2> HIDE DEF U, E
  <2>1. RescanStart(env) = EndAt(P, env.first - 1)
    BY DEF RescanStart
  <2> HIDE DEF P
  <2>2. RescanStart(env) \in Nat
    BY <1>5, <1>6, <2>1
  <2>3. ASSUME RescanStart(env) # 0 PROVE RescanStart(env) \in NewEnds(env) /\ RescanStart(env) < env.index
    <3>1. env.first - 1 # 0
      <4>1. EndAt(P, 0) = 0
        BY DEF EndAt
      <4>2. QED
        BY <2>1, <2>3, <4>1
    <3>2. env.first - 1 \in 1..Len(P)
      BY <1>1, <1>2, <1>6, <3>1
    <3>3. RescanStart(env) \in E
      BY <1>5, <2>1, <3>2
    <3>4. RescanStart(env) < env.index
      BY <1>7, <2>3
    <3>5. QED
      BY <1>7, <2>2, <3>3, <3>4
  <2>4. QED
    BY <2>2, <2>3
<1>16. QED
  BY <1>10, <1>11, <1>12, <1>13, <1>14, <1>15 DEF RescanIsBounded

(* longer is seq with e inserted before position at.                       *)
IsInsertion(longer, seq, at, e) ==
  /\ Len(longer) = Len(seq) + 1
  /\ \A i \in 1..(at - 1) : longer[i] = seq[i]
  /\ longer[at] = e
  /\ \A i \in (at + 1)..Len(longer) : longer[i] = seq[i - 1]

(* The numbers of a paragraph.                                             *)
LEMMA ParagraphTypes ==
  ASSUME NEW p \in Paragraph
  PROVE  p.index \in Nat /\ p.length \in Nat /\ ParagraphEnd(p) \in Nat
<1>1. p.index \in Nat /\ p.length \in Nat
  BY DEF Paragraph
<1>2. QED
  BY <1>1 DEF ParagraphEnd

(* InsertAt of SequencesExt, element by element.                           *)
LEMMA InsertAtProperties ==
  ASSUME NEW S, NEW seq \in Seq(S), NEW at \in 1..(Len(seq) + 1), NEW e \in S,
         NEW longer, longer = InsertAt(seq, at, e)
  PROVE  longer \in Seq(S) /\ IsInsertion(longer, seq, at, e)
<1>1. PICK a, b, c : a = SubSeq(seq, 1, at - 1) /\ b = SubSeq(seq, at, Len(seq)) /\ c = <<e>>
  OBVIOUS
<1>2. Len(seq) \in Nat
  OBVIOUS
<1>3. /\ a \in Seq(S) /\ Len(a) = at - 1 /\ \A i \in 1..(at - 1) : a[i] = seq[i]
  BY <1>1, <1>2
<1>4. /\ b \in Seq(S) /\ Len(b) = Len(seq) - at + 1
      /\ \A i \in 1..(Len(seq) - at + 1) : b[i] = seq[at + i - 1]
  BY <1>1, <1>2
<1>5. c \in Seq(S) /\ Len(c) = 1 /\ c[1] = e
  BY <1>1
<1>6. PICK ac : ac = a \o c
  OBVIOUS
<1>7. /\ ac \in Seq(S) /\ Len(ac) = at
      /\ \A i \in 1..(at - 1) : ac[i] = seq[i]
      /\ ac[at] = e
  <2>1. /\ ac \in Seq(S) /\ Len(ac) = Len(a) + Len(c)
        /\ \A i \in 1..(Len(a) + Len(c)) : ac[i] = IF i <= Len(a) THEN a[i] ELSE c[i - Len(a)]
    BY <1>3, <1>5, <1>6, ConcatProperties
  <2>2. QED
    BY <1>2, <1>3, <1>5, <2>1
<1>8. longer = ac \o b
  BY <1>1, <1>6 DEF InsertAt
<1>9. /\ longer \in Seq(S) /\ Len(longer) = Len(seq) + 1
      /\ \A i \in 1..at : longer[i] = ac[i]
      /\ \A i \in (at + 1)..Len(longer) : longer[i] = b[i - at]
  <2>1. /\ longer \in Seq(S) /\ Len(longer) = Len(ac) + Len(b)
        /\ \A i \in 1..(Len(ac) + Len(b)) :
             longer[i] = IF i <= Len(ac) THEN ac[i] ELSE b[i - Len(ac)]
    <3>1. ac \in Seq(S) /\ b \in Seq(S)
      BY <1>4, <1>7
    <3>2. /\ ac \o b \in Seq(S) /\ Len(ac \o b) = Len(ac) + Len(b)
          /\ \A i \in 1..(Len(ac) + Len(b)) :
               (ac \o b)[i] = IF i <= Len(ac) THEN ac[i] ELSE b[i - Len(ac)]
      BY <3>1, ConcatProperties
    <3>3. QED
      BY <1>8, <3>2
  <2>2. QED
    BY <1>2, <1>4, <1>7, <2>1
<1>10. ASSUME NEW i \in (at + 1)..Len(longer) PROVE longer[i] = seq[i - 1]
  <2>1. i - at \in 1..(Len(seq) - at + 1) /\ at + (i - at) - 1 = i - 1
    BY <1>2, <1>9
  <2>2. QED
    BY <1>4, <1>9, <2>1
<1>11. QED
  BY <1>2, <1>7, <1>9, <1>10 DEF IsInsertion

(* The slot at hand holds a touched paragraph.                             *)
IsReused(st, oldEnd) == st.slot <= Len(st.paras) /\ st.paras[st.slot].index <= oldEnd

(* next is st after the paragraph with boundary b was written to its slot, *)
(* which is reused or inserted.                                            *)
IsScanned(next, st, b, reuse, index, removed, added) ==
  /\ next.scan = st.scan + b.length /\ next.slot = st.slot + 1
  /\ next.paras \in Seq(Paragraph)
  /\ Len(next.paras) = IF reuse THEN Len(st.paras) ELSE Len(st.paras) + 1
  /\ \A i \in 1..(st.slot - 1) : next.paras[i] = st.paras[i]
  /\ next.paras[st.slot].index = st.scan /\ next.paras[st.slot].length = b.length
  /\ next.paras[st.slot].needsReanalysis
  /\ \A i \in (st.slot + 1)..Len(next.paras) :
       next.paras[i] = st.paras[IF reuse THEN i ELSE i - 1]
  /\ next.newEnd = IF reuse /\ ParagraphEnd(st.paras[st.slot]) > index + removed
                      /\ b.separatorLength > 0
                   THEN ParagraphEnd(st.paras[st.slot]) + added - removed ELSE st.newEnd
  /\ next.done = (next.scan > index /\ next.scan >= next.newEnd)

(* What one turn of the scan does to the list: it writes the paragraph     *)
(* found into the slot, which it inserts unless a touched one is there.    *)
LEMMA ScanParagraphProperties ==
  ASSUME NEW units, NEW types, NEW index \in Nat, NEW removed \in Nat, NEW added \in Nat,
         NEW st, st.paras \in Seq(Paragraph), st.slot \in 1..(Len(st.paras) + 1), st.scan \in Nat,
         GetParagraphBoundary(units, types, st.scan).length \in Nat
  PROVE  IsScanned(ScanParagraph(st, units, types, index, removed, added), st,
                   GetParagraphBoundary(units, types, st.scan),
                   IsReused(st, index + removed), index, removed, added)
<1> SUFFICES
      ASSUME NEW paras \in Seq(Paragraph), paras = st.paras,
             NEW slot \in 1..(Len(paras) + 1), slot = st.slot,
             NEW scan \in Nat, scan = st.scan,
             NEW b, b = GetParagraphBoundary(units, types, scan), b.length \in Nat,
             NEW reuse \in BOOLEAN, reuse = IsReused(st, index + removed),
             NEW next, next = ScanParagraph(st, units, types, index, removed, added)
      PROVE  IsScanned(next, st, b, reuse, index, removed, added)
  BY DEF IsReused
<1>r. reuse <=> (slot <= Len(paras) /\ paras[slot].index <= index + removed)
  BY DEF IsReused
<1>1. PICK slots : slots = IF reuse THEN paras ELSE InsertAt(paras, slot, EmptyParagraph)
  OBVIOUS
<1>2. EmptyParagraph \in Paragraph
  BY DEF EmptyParagraph, Paragraph, NotAnalysed
<1>3. /\ slots \in Seq(Paragraph)
      /\ Len(slots) = IF reuse THEN Len(paras) ELSE Len(paras) + 1
      /\ \A i \in 1..(slot - 1) : slots[i] = paras[i]
      /\ \A i \in (slot + 1)..Len(slots) : slots[i] = paras[IF reuse THEN i ELSE i - 1]
      /\ slot \in 1..Len(slots)
  <2>1. CASE reuse
    BY <1>1, <1>r, <2>1
  <2>2. CASE ~reuse
    <3>1. slots = InsertAt(paras, slot, EmptyParagraph)
      BY <1>1, <2>2
    <3>2. /\ slots \in Seq(Paragraph) /\ Len(slots) = Len(paras) + 1
          /\ \A i \in 1..(slot - 1) : slots[i] = paras[i]
          /\ slots[slot] = EmptyParagraph
          /\ \A i \in (slot + 1)..Len(slots) : slots[i] = paras[i - 1]
      <4>1. slots \in Seq(Paragraph) /\ IsInsertion(slots, paras, slot, EmptyParagraph)
        BY <1>2, <3>1, InsertAtProperties
      <4>2. QED
        BY <4>1 DEF IsInsertion
    <3>3. slot \in 1..Len(slots)
      BY <3>2
    <3>4. QED
      BY <2>2, <3>2, <3>3
  <2>3. QED
    BY <2>1, <2>2
<1>4. PICK marked : marked = MarkForReanalysis(slots[slot], scan, b.length)
  OBVIOUS
<1>5. /\ marked \in Paragraph /\ marked.index = scan /\ marked.length = b.length
      /\ marked.needsReanalysis
  <2>1. slots[slot] \in Paragraph
    BY <1>3
  <2>2. marked = [index |-> scan, length |-> b.length, needsReanalysis |-> TRUE,
                  analysis |-> NotAnalysed]
    BY <1>4, <2>1 DEF MarkForReanalysis, Paragraph
  <2>3. NotAnalysed \in [offset : Int, content : Seq(CodeUnits)]
    BY DEF NotAnalysed
  <2>4. marked \in Paragraph
    BY <2>2, <2>3 DEF Paragraph
  <2>5. QED
    BY <2>2, <2>4
<1>6. PICK written : written = [slots EXCEPT ![slot] = marked]
  OBVIOUS
<1>7. /\ written \in Seq(Paragraph) /\ Len(written) = Len(slots)
      /\ written[slot] = marked
      /\ \A i \in 1..Len(slots) : i # slot => written[i] = slots[i]
  BY <1>3, <1>5, <1>6
<1>8. reuse <=> (slot <= Len(paras) /\ IsTouched(paras[slot], index + removed))
  BY <1>r DEF IsTouched
<1>a. PICK newEnd : newEnd = IF reuse /\ ParagraphEnd(paras[slot]) > index + removed
                               /\ b.separatorLength > 0
                            THEN ParagraphEnd(paras[slot]) + added - removed ELSE st.newEnd
  OBVIOUS
<1>9. next = [scan   |-> scan + b.length,
              slot   |-> slot + 1,
              newEnd |-> newEnd,
              paras  |-> written,
              done   |-> scan + b.length > index /\ scan + b.length >= newEnd]
  <2>1. slots = IF slot <= Len(paras) /\ IsTouched(paras[slot], index + removed)
                THEN paras ELSE InsertAt(paras, slot, EmptyParagraph)
    BY <1>1, <1>8
  <2>2. CASE reuse
    <3>1. slot <= Len(paras) /\ IsTouched(paras[slot], index + removed) /\ slots = paras
      BY <1>8, <2>1, <2>2
    <3>2. QED
      BY <1>4, <1>6, <1>a, <2>2, <3>1 DEF ScanParagraph
  <2>3. CASE ~reuse
    <3>1. ~(slot <= Len(paras) /\ IsTouched(paras[slot], index + removed))
          /\ slots = InsertAt(paras, slot, EmptyParagraph)
      BY <1>8, <2>1, <2>3
    <3>2. QED
      BY <1>4, <1>6, <1>a, <2>3, <3>1 DEF ScanParagraph
  <2>4. QED
    BY <2>2, <2>3
<1>10. /\ next.scan = scan + b.length /\ next.slot = slot + 1 /\ next.paras = written
       /\ next.newEnd = newEnd
       /\ next.done = (next.scan > index /\ next.scan >= next.newEnd)
  BY <1>9
<1>11. /\ \A i \in 1..(slot - 1) : written[i] = paras[i]
       /\ \A i \in (slot + 1)..Len(written) : written[i] = paras[IF reuse THEN i ELSE i - 1]
  <2>1. Len(slots) \in Nat /\ Len(written) = Len(slots)
    BY <1>3, <1>7
  <2>2. ASSUME NEW i \in 1..(slot - 1) PROVE written[i] = paras[i]
    <3>1. i \in 1..Len(slots) /\ i # slot
      BY <1>3, <2>1
    <3>2. QED
      BY <1>3, <1>7, <3>1
  <2>3. ASSUME NEW i \in (slot + 1)..Len(written) PROVE written[i] = paras[IF reuse THEN i ELSE i - 1]
    <3>1. i \in 1..Len(slots) /\ i # slot /\ i \in (slot + 1)..Len(slots)
      BY <1>3, <2>1
    <3>2. written[i] = slots[i]
      BY <1>7, <3>1
    <3>3. slots[i] = paras[IF reuse THEN i ELSE i - 1]
      BY <1>3, <3>1
    <3>4. QED
      BY <3>2, <3>3
  <2>4. QED
    BY <2>2, <2>3
<1>12. QED
  BY <1>3, <1>5, <1>7, <1>10, <1>11, <1>a DEF IsScanned

-----------------------------------------------------------------------------
(* The turns of the scan keep its invariant, and end at the goal.          *)

(* Every turn of the scan keeps the invariant.                             *)
LEMMA ScanStep ==
  ASSUME NEW env, IsRescan(env), NEW k \in 1..Len(env.units),
         NEW unit, NEW st, ScanInv(env, k - 1, st)
  PROVE  ScanInv(env, k, ScanTurn(env, st, unit))
<1>1. RescanIsBounded(env)
  BY RescanBounds
<1>a. /\ env.paras \in Seq(Paragraph) /\ env.units \in Seq(CodeUnits)
      /\ env.first \in 1..(Len(env.paras) + 1)
      /\ env.last \in (env.first - 1)..Len(env.paras)
      /\ env.index \in Nat /\ env.removed \in Nat /\ env.added \in Nat
  BY DEF IsRescan
<1>b. PICK index, removed, added \in Nat :
        index = env.index /\ removed = env.removed /\ added = env.added
  BY <1>a
<1>c. PICK P \in Seq(Paragraph) : P = env.paras
  BY <1>a
<1>d. Len(P) \in Nat /\ Len(env.units) \in Nat
  BY <1>a
<1>e. PICK first, last, length \in Nat :
        first = env.first /\ last = env.last /\ length = Len(env.units)
  BY <1>a, <1>c, <1>d
<1>f. PICK start, goal \in Nat : start = RescanStart(env) /\ goal = Goal(env)
  BY <1>1 DEF RescanIsBounded
<1>g. PICK oldEnd, newEnd \in Nat : oldEnd = OldEnd(env) /\ newEnd = NewEnd(env)
  BY <1>b, SMTT(30) DEF OldEnd, NewEnd
<1>h. PICK E : E = NewEnds(env)
  OBVIOUS
<1>2. /\ index = env.index /\ removed = env.removed /\ added = env.added /\ P = env.paras
      /\ first = env.first /\ last = env.last /\ length = Len(env.units) /\ E = NewEnds(env)
      /\ start = RescanStart(env) /\ goal = Goal(env)
      /\ oldEnd = OldEnd(env) /\ newEnd = NewEnd(env)
  BY <1>b, <1>c, <1>e, <1>f, <1>g, <1>h
<1>3. /\ first >= 1 /\ first <= Len(P) + 1 /\ last >= first - 1 /\ last <= Len(P) /\ Len(P) \in Nat
      /\ first > last => P = <<>>
      /\ \A i \in first..last : P[i].index <= oldEnd
      /\ last < Len(P) => P[last + 1].index > oldEnd
      /\ start < index \/ start = 0
      /\ start = EndAt(P, first - 1)
      /\ last >= 1 => goal = ParagraphEnd(P[last]) + added - removed
      /\ oldEnd = index + removed /\ newEnd = index + added
      /\ env.units \in Seq(CodeUnits)
      /\ env.types = DetermineBidiTypes(env.enc, env.units)
  <2>1. /\ env.first \in 1..(Len(P) + 1) /\ env.last \in (env.first - 1)..Len(P)
    BY <1>2 DEF IsRescan
  <2>2. /\ first >= 1 /\ first <= Len(P) + 1 /\ last >= first - 1 /\ last <= Len(P) /\ Len(P) \in Nat
    BY <1>2, <2>1
  <2>3. /\ oldEnd = index + removed /\ newEnd = index + added /\ start = EndAt(P, first - 1)
    BY <1>2 DEF OldEnd, NewEnd, RescanStart
  <2>4. last >= 1 => goal = ParagraphEnd(P[last]) + added - removed
    BY <1>2 DEF Goal, EndAt
  <2>5. QED
    BY <1>2, <2>2, <2>3, <2>4 DEF IsRescan
<1>4. /\ start = 0 \/ (start \in E /\ start < index)
      /\ newEnd <= goal /\ goal <= length
      /\ goal = length \/ (goal \in E /\ goal > newEnd)
      /\ \A i \in first..last : ParagraphEnd(P[i]) > oldEnd =>
           i = last /\ ParagraphEnd(P[i]) + added - removed = goal
      /\ first <= last /\ goal < length => ParagraphEnd(P[last]) > oldEnd
  BY <1>1, <1>2 DEF RescanIsBounded
<1>5. /\ \A e \in E : e \in Nat /\ 1 <= e /\ e <= length
      /\ length > 0 => length \in E
  BY <1>2, <1>3, EndsProperties DEF NewEnds
<1>6. PICK slot \in Nat, paras \in Seq(Paragraph), scan \in Nat, ins \in Nat :
        slot = st.slot /\ paras = st.paras /\ scan = st.scan /\ ins = Inserted(env, st)
  <2>1. st.slot \in Nat /\ st.paras \in Seq(Paragraph) /\ st.scan \in Nat
    BY DEF ScanInv
  <2>2. Inserted(env, st) \in Nat
    BY <1>2, <2>1 DEF Inserted
  <2>3. QED
    BY <2>1, <2>2
<1>7. ins = IF slot <= last + 1 THEN 0 ELSE slot - 1 - last
  BY <1>2, <1>6 DEF Inserted
<1>8. /\ first <= slot
      /\ Len(paras) = Len(P) + ins
      /\ \A i \in 1..(first - 1) : paras[i] = P[i]
      /\ \A i \in first..(slot - 1) :
           /\ paras[i].index = EndAt(paras, i - 1)
           /\ IsSegment(E, paras[i].index, ParagraphEnd(paras[i]))
           /\ paras[i].needsReanalysis
      /\ \A i \in slot..Len(paras) : paras[i] = P[i - ins]
      /\ scan = EndAt(paras, slot - 1) /\ scan <= goal
      /\ st.newEnd \in {newEnd, goal}
      /\ slot > last /\ scan < length => st.newEnd = goal
      /\ st.done \in BOOLEAN
      /\ st.done => scan > index /\ scan >= st.newEnd
      /\ scan > index /\ scan >= st.newEnd /\ slot > first => st.done
      /\ st.done \/ scan >= length \/ scan >= k - 1
  BY <1>2, <1>6 DEF ScanInv
<1>i. first <= slot /\ Len(paras) = Len(P) + ins /\ scan <= goal /\ Len(P) \in Nat
      /\ first >= 1 /\ first <= Len(P) + 1 /\ last >= first - 1 /\ last <= Len(P)
      /\ Len(paras) \in Nat
  BY <1>3, <1>8
<1>9. CASE st.done \/ scan >= length
  <2>1. ScanTurn(env, st, unit) = st
    BY <1>2, <1>6, <1>9 DEF ScanTurn
  <2>2. QED
    BY <1>2, <1>6, <1>9, <2>1 DEF ScanInv
<1>10. CASE ~st.done /\ scan < length
  <2>1. scan # goal
    <3>1. CASE slot = first
      <4>1. scan = start
        <5>1. CASE first = 1
          BY <1>3, <1>8, <3>1, <5>1 DEF EndAt
        <5>2. CASE first # 1
          <6>1. first - 1 \in 1..(first - 1) /\ first - 1 # 0
            BY <1>3, <5>2
          <6>2. paras[first - 1] = P[first - 1]
            BY <1>8, <6>1
          <6>3. QED
            BY <1>3, <1>8, <3>1, <6>1, <6>2 DEF EndAt
        <5>3. QED
          BY <5>1, <5>2
      <4>2. QED
        BY <1>3, <1>4, <1>10, <4>1
    <3>2. ASSUME slot # first, scan = goal PROVE FALSE
      <4>1. goal > newEnd /\ newEnd >= index /\ slot > first
        <5>1. goal > newEnd
          BY <1>4, <1>10, <3>2
        <5>2. newEnd = index + added
          BY <1>3
        <5>3. QED
          BY <1>i, <3>2, <5>1, <5>2
      <4>2. scan >= st.newEnd
        BY <1>8, <3>2, <4>1
      <4>3. QED
        BY <1>8, <1>10, <3>2, <4>1, <4>2
    <3>3. QED
      BY <3>1, <3>2
  <2>2. scan = 0 \/ scan \in E
    <3>1. CASE slot = first
      <4>1. first = 1 \/ (paras[first - 1] = P[first - 1] /\ first - 1 # 0)
        <5>1. first # 1 => first - 1 \in 1..(first - 1)
          BY <1>i
        <5>2. QED
          BY <1>8, <5>1, SMTT(30)
      <4>2. scan = start
        BY <1>3, <1>8, <3>1, <4>1 DEF EndAt
      <4>3. QED
        BY <1>4, <4>2
    <3>2. CASE slot # first
      <4>1. slot - 1 \in first..(slot - 1) /\ slot - 1 # 0
        BY <1>3, <1>8, <3>2
      <4>2. scan = ParagraphEnd(paras[slot - 1])
        BY <1>8, <4>1 DEF EndAt
      <4>3. scan \in E
        BY <1>8, <4>1, <4>2 DEF IsSegment
      <4>4. QED
        BY <4>3
    <3>3. QED
      BY <3>1, <3>2
  <2>3. PICK b : b = GetParagraphBoundary(env.units, env.types, scan)
    OBVIOUS
  <2>a. /\ b.length \in Nat
        /\ IsSegment(EndsOf(env.enc, env.units), scan, scan + b.length)
        /\ b.separatorLength > 0 \/ scan + b.length = Len(env.units)
    <3>1. scan < Len(env.units) /\ (scan = 0 \/ scan \in EndsOf(env.enc, env.units))
      BY <1>2, <1>10, <2>2 DEF NewEnds
    <3>2. env.units \in Seq(CodeUnits) /\ env.types = DetermineBidiTypes(env.enc, env.units)
      BY <1>3
    <3>3. QED
      BY <2>3, <3>1, <3>2, BoundaryIsNextEnd
  <2>4. PICK len \in Nat : len = b.length
    BY <2>a
  <2>5. /\ IsSegment(E, scan, scan + len)
        /\ b.separatorLength > 0 \/ scan + len = length
    BY <1>2, <2>a, <2>4 DEF NewEnds
  <2>6. len > 0 /\ scan + len <= goal
    <3>1. scan < scan + len /\ \A e \in E : e <= scan \/ scan + len <= e
      BY <2>5 DEF IsSegment
    <3>2. goal \in E
      BY <1>4, <1>5, <1>8, <1>10
    <3>3. QED
      BY <1>8, <2>1, <3>1, <3>2
  <2>7. slot \in 1..(Len(paras) + 1)
    BY <1>i, <1>7
  <2>8. PICK reuse \in BOOLEAN : reuse <=> slot <= last
    OBVIOUS
  <2>9. reuse <=> (slot <= Len(paras) /\ paras[slot].index <= index + removed)
    <3>1. CASE slot <= last
      <4>1. ins = 0 /\ slot \in slot..Len(paras) /\ slot - ins = slot /\ slot \in first..last
        BY <1>i, <1>7, <3>1
      <4>2. paras[slot] = P[slot]
        BY <1>8, <4>1
      <4>3. P[slot].index <= oldEnd
        BY <1>3, <4>1
      <4>4. QED
        BY <1>3, <2>8, <3>1, <4>1, <4>2, <4>3
    <3>2. CASE ~(slot <= last)
      <4>1. ASSUME slot <= Len(paras) PROVE ~(paras[slot].index <= index + removed)
        <5>1. slot \in slot..Len(paras) /\ slot - ins = last + 1 /\ last < Len(P)
          BY <1>i, <1>7, <3>2, <4>1
        <5>2. paras[slot] = P[last + 1]
          BY <1>8, <5>1
        <5>3. last + 1 \in 1..Len(P)
          BY <1>3, <5>1
        <5>4. P[last + 1] \in Paragraph
          BY <5>3
        <5>5. P[last + 1].index \in Nat
          BY <5>4, ParagraphTypes
        <5>6. P[last + 1].index > oldEnd /\ oldEnd = index + removed
          BY <1>3, <5>1
        <5>7. QED
          BY <5>2, <5>5, <5>6
      <4>2. QED
        BY <2>8, <3>2, <4>1
    <3>3. QED
      BY <3>1, <3>2
  <2>10. PICK next : next = ScanParagraph(st, env.units, env.types, index, removed, added)
    OBVIOUS
  <2>11. ScanTurn(env, st, unit) = next
    <3>0. st.scan = scan /\ Len(env.units) = length
      BY <1>2, <1>6
    <3>1. ~(st.done \/ st.scan >= Len(env.units))
      BY <1>10, <3>0
    <3>2. ScanTurn(env, st, unit) = ScanParagraph(st, env.units, env.types, env.index, env.removed, env.added)
      BY <3>1 DEF ScanTurn
    <3>3. QED
      BY <1>2, <2>10, <3>2
  <2>12. /\ next.scan = scan + len /\ next.slot = slot + 1
         /\ next.paras \in Seq(Paragraph)
         /\ Len(next.paras) = IF reuse THEN Len(paras) ELSE Len(paras) + 1
         /\ \A i \in 1..(slot - 1) : next.paras[i] = paras[i]
         /\ next.paras[slot].index = scan /\ next.paras[slot].length = len
         /\ next.paras[slot].needsReanalysis
         /\ \A i \in (slot + 1)..Len(next.paras) :
              next.paras[i] = paras[IF reuse THEN i ELSE i - 1]
         /\ next.newEnd = IF reuse /\ ParagraphEnd(paras[slot]) > index + removed
                             /\ b.separatorLength > 0
                          THEN ParagraphEnd(paras[slot]) + added - removed ELSE st.newEnd
         /\ next.done = (next.scan > index /\ next.scan >= next.newEnd)
    <3>1. IsScanned(next, st, b, reuse, index, removed, added)
      <4>1. b = GetParagraphBoundary(env.units, env.types, st.scan) /\ b.length \in Nat
        BY <1>6, <2>3, <2>4
      <4>2. st.paras \in Seq(Paragraph) /\ st.slot \in 1..(Len(st.paras) + 1) /\ st.scan \in Nat
        BY <1>6, <2>7
      <4>3. IsScanned(next, st, b, IsReused(st, index + removed), index, removed, added)
        BY <2>10, <4>1, <4>2, ScanParagraphProperties
      <4>4. IsReused(st, index + removed) = reuse
        BY <1>6, <2>9 DEF IsReused
      <4>5. QED
        BY <4>3, <4>4
    <3>2. QED
      BY <1>6, <2>4, <3>1 DEF IsScanned
  <2>13. PICK nins \in Nat : nins = Inserted(env, next)
    <3>1. Inserted(env, next) \in Nat
      <4>1. next.slot = slot + 1 /\ env.last = last
        BY <1>2, <2>12
      <4>2. QED
        BY <4>1 DEF Inserted
    <3>2. QED
      BY <3>1
  <2>c. next.slot = slot + 1
    BY <2>12
  <2>14. nins = IF slot + 1 <= last + 1 THEN 0 ELSE slot - last
    <3>1. Inserted(env, next) = IF next.slot <= env.last + 1 THEN 0 ELSE next.slot - 1 - env.last
      BY DEF Inserted
    <3>2. nins = IF slot + 1 <= last + 1 THEN 0 ELSE slot + 1 - 1 - last
      BY <1>2, <2>c, <2>13, <3>1, SMTT(30)
    <3>3. slot + 1 - 1 - last = slot - last
      OBVIOUS
    <3>4. QED
      BY <3>2, <3>3
  <2>15. nins = IF reuse THEN ins ELSE ins + 1
    <3>1. CASE slot <= last
      <4>1. nins = 0 /\ ins = 0 /\ reuse
        BY <1>7, <2>8, <2>14, <3>1
      <4>2. QED
        BY <4>1
    <3>2. CASE ~(slot <= last)
      <4>1. nins = slot - last /\ ins = slot - 1 - last /\ ~reuse
        BY <1>7, <2>8, <2>14, <3>2
      <4>2. QED
        BY <4>1
    <3>3. QED
      BY <3>1, <3>2
  <2>16. Len(next.paras) = Len(P) + nins
    BY <1>3, <1>8, <2>12, <2>15
  <2>17. \A i \in 1..(first - 1) : next.paras[i] = P[i]
    BY <1>3, <1>8, <2>12
  <2>18. ASSUME NEW i \in first..slot
         PROVE  /\ next.paras[i].index = EndAt(next.paras, i - 1)
                /\ IsSegment(E, next.paras[i].index, ParagraphEnd(next.paras[i]))
                /\ next.paras[i].needsReanalysis
    <3>1. i - 1 = 0 \/ i - 1 \in 1..(slot - 1)
      BY <1>3
    <3>2. EndAt(next.paras, i - 1) = EndAt(paras, i - 1)
      <4>1. i - 1 = 0 \/ next.paras[i - 1] = paras[i - 1]
        BY <2>12, <3>1
      <4>2. QED
        BY <4>1 DEF EndAt
    <3>3. CASE i = slot
      <4>1. next.paras[i].index = EndAt(next.paras, i - 1) /\ next.paras[i].needsReanalysis
        BY <1>8, <2>12, <3>2, <3>3
      <4>2. ParagraphEnd(next.paras[i]) = scan + len
        BY <2>12, <3>3 DEF ParagraphEnd
      <4>3. QED
        BY <2>5, <2>12, <3>3, <4>1, <4>2
    <3>4. CASE i # slot
      <4>1. i \in first..(slot - 1) /\ i \in 1..(slot - 1)
        BY <1>3, <3>4
      <4>2. next.paras[i] = paras[i]
        BY <2>12, <4>1
      <4>3. QED
        BY <1>8, <3>2, <4>1, <4>2
    <3>5. QED
      BY <3>3, <3>4
  <2>19. ASSUME NEW i \in (slot + 1)..Len(next.paras) PROVE next.paras[i] = P[i - nins]
    <3>1. Len(next.paras) \in Nat
      BY <2>12
    <3>2. CASE reuse
      <4>1. next.paras[i] = paras[i] /\ i \in slot..Len(paras)
        BY <1>8, <2>12, <3>1, <3>2
      <4>2. nins = ins
        BY <2>15, <3>2
      <4>3. QED
        BY <1>8, <4>1, <4>2
    <3>3. CASE ~reuse
      <4>1. next.paras[i] = paras[i - 1] /\ i - 1 \in slot..Len(paras)
        BY <1>8, <2>12, <3>1, <3>3
      <4>2. i - nins = i - 1 - ins
        BY <2>15, <3>3
      <4>3. QED
        BY <1>8, <4>1, <4>2
    <3>4. QED
      BY <3>2, <3>3
  <2>20. EndAt(next.paras, slot) = scan + len
    BY <1>3, <1>8, <2>12 DEF EndAt, ParagraphEnd
  <2>21. /\ next.newEnd \in {newEnd, goal}
         /\ slot + 1 > last /\ scan + len < length => next.newEnd = goal
    <3>1. CASE reuse
      <4>1. slot <= last /\ ins = 0 /\ slot \in slot..Len(paras) /\ slot - ins = slot
            /\ slot \in first..last
        BY <1>i, <1>7, <2>8, <3>1
      <4>2. paras[slot] = P[slot]
        BY <1>8, <4>1
      <4>3. CASE ParagraphEnd(P[slot]) > oldEnd
        <5>1. slot = last /\ ParagraphEnd(P[slot]) + added - removed = goal
          BY <1>4, <4>1, <4>3
        <5>2. next.newEnd = IF b.separatorLength > 0 THEN goal ELSE st.newEnd
          BY <1>3, <2>12, <3>1, <4>2, <4>3, <5>1
        <5>3. QED
          BY <1>8, <2>5, <5>2
      <4>4. CASE ~(ParagraphEnd(P[slot]) > oldEnd)
        <5>1. next.newEnd = st.newEnd
          BY <1>3, <2>12, <4>2, <4>4
        <5>2. ASSUME slot + 1 > last PROVE next.newEnd = goal
          <6>1. slot = last /\ first <= last
            BY <4>1, <5>2
          <6>2. ~(goal < length)
            BY <1>4, <4>4, <6>1
          <6>3. goal = length
            BY <1>4, <6>2
          <6>4. scan + len <= goal
            BY <2>6
          <6>5. ParagraphEnd(P[last]) \in Nat /\ goal = ParagraphEnd(P[last]) + added - removed
            <7>1. last \in 1..Len(P)
              BY <1>i, <6>1
            <7>2. P[last] \in Paragraph
              BY <7>1
            <7>3. ParagraphEnd(P[last]) \in Nat
              BY <7>2, ParagraphTypes
            <7>4. QED
              BY <1>3, <7>1, <7>3
          <6>6. newEnd = goal
            <7>1. oldEnd = index + removed /\ newEnd = index + added /\ newEnd <= goal
              BY <1>3, <1>4
            <7>2. ~(ParagraphEnd(P[last]) > oldEnd)
              BY <4>4, <6>1
            <7>3. QED
              BY <6>5, <7>1, <7>2
          <6>7. QED
            BY <1>8, <5>1, <6>6
        <5>3. QED
          BY <1>8, <5>1, <5>2
      <4>5. QED
        BY <4>3, <4>4
    <3>2. CASE ~reuse
      <4>1. next.newEnd = st.newEnd /\ slot > last
        BY <2>8, <2>12, <3>2
      <4>2. QED
        BY <1>8, <1>10, <4>1
    <3>3. QED
      BY <3>1, <3>2
  <2>22. /\ next.done \in BOOLEAN
         /\ next.done <=> (scan + len > index /\ scan + len >= next.newEnd)
    BY <2>12
  <2>23. next.done \/ scan + len >= length \/ scan + len >= k
    BY <1>8, <1>10, <2>6
  <2>24. /\ next.slot \in Nat /\ first <= next.slot /\ next.slot - 1 = slot
         /\ next.scan \in Nat
    BY <1>8, <2>12
  <2>25. ScanInv(env, k, next)
    BY <1>2, <2>6, <2>12, <2>13, <2>16, <2>17, <2>18, <2>19, <2>20, <2>21, <2>22, <2>23, <2>24
       DEF ScanInv
  <2>26. QED
    BY <2>11, <2>25
<1>11. QED
  BY <1>8, <1>9, <1>10

(* m paragraphs in a row are as many as the ends between them.             *)
LEMMA StretchCount ==
  ASSUME NEW ends \in SUBSET Nat, NEW paras, NEW i \in Nat, NEW m \in Nat,
         EndAt(paras, i) \in Nat,
         \A k \in (i + 1)..(i + m) :
           IsSegment(ends, EndAt(paras, k - 1), EndAt(paras, k))
  PROVE  Cardinality({e \in ends : EndAt(paras, i) < e /\ e <= EndAt(paras, i + m)}) = m
<1> DEFINE h == [k \in 0..m |-> EndAt(paras, i + k)]
<1>1. h \in [0..m -> Nat]
  <2>1. ASSUME NEW k \in 0..m PROVE EndAt(paras, i + k) \in Nat
    <3>1. CASE k = 0
      <4>1. i + k = i
        BY <3>1
      <4>2. QED
        BY <4>1
    <3>2. CASE k # 0
      <4>1. i + k \in (i + 1)..(i + m)
        BY <3>2
      <4>2. EndAt(paras, i + k) \in ends
        BY <4>1 DEF IsSegment
      <4>3. QED
        BY <4>2
    <3>3. QED
      BY <3>1, <3>2
  <2>2. QED
    BY <2>1
<1>2. ASSUME NEW k \in 1..m PROVE IsSegment(ends, h[k - 1], h[k])
  <2>1. i + k \in (i + 1)..(i + m) /\ i + k - 1 = i + (k - 1) /\ k - 1 \in 0..m
    OBVIOUS
  <2>2. IsSegment(ends, EndAt(paras, i + (k - 1)), EndAt(paras, i + k))
    BY <2>1
  <2>3. QED
    BY <2>1, <2>2
<1>3. h[0] = EndAt(paras, i) /\ h[m] = EndAt(paras, i + m)
  <2>1. i + 0 = i
    OBVIOUS
  <2>2. QED
    BY <2>1
<1> HIDE DEF h
<1>4. /\ {e \in ends : h[0] < e /\ e <= h[m]} = {h[k] : k \in 1..m}
      /\ Cardinality({h[k] : k \in 1..m}) = m
  BY <1>1, <1>2, SegmentsCount
<1>5. QED
  BY <1>3, <1>4

(* When the turns are over, the scan is where it has to stop.              *)
LEMMA ScanEnds ==
  ASSUME NEW env, IsRescan(env), TailIsKept(env), NEW st, ScanInv(env, Len(env.units), st)
  PROVE  st.scan = Goal(env)
<1>1. RescanIsBounded(env)
  BY RescanBounds
<1>a. /\ env.paras \in Seq(Paragraph) /\ env.units \in Seq(CodeUnits) /\ env.before \in Seq(CodeUnits)
      /\ env.first \in 1..(Len(env.paras) + 1)
      /\ env.last \in (env.first - 1)..Len(env.paras)
      /\ env.index \in Nat /\ env.removed \in Nat /\ env.added \in Nat
  BY DEF IsRescan
<1>b. PICK index, removed, added \in Nat :
        index = env.index /\ removed = env.removed /\ added = env.added
  BY <1>a
<1>c. PICK P \in Seq(Paragraph) : P = env.paras
  BY <1>a
<1>d. Len(P) \in Nat /\ Len(env.units) \in Nat
  BY <1>a
<1>e. PICK first, last, length \in Nat :
        first = env.first /\ last = env.last /\ length = Len(env.units)
  BY <1>a, <1>c, <1>d
<1>f. PICK start, goal \in Nat : start = RescanStart(env) /\ goal = Goal(env)
  BY <1>1 DEF RescanIsBounded
<1>g. PICK oldEnd, newEnd \in Nat : oldEnd = OldEnd(env) /\ newEnd = NewEnd(env)
  BY <1>b, SMTT(30) DEF OldEnd, NewEnd
<1>h. PICK E : E = NewEnds(env)
  OBVIOUS
<1>i. PICK D : D = EndsOf(env.enc, env.before)
  OBVIOUS
<1>2. /\ start = 0 \/ (start \in E /\ start < index)
      /\ newEnd <= goal /\ goal <= length
      /\ goal = length \/ (goal \in E /\ goal > newEnd)
      /\ \A e \in E : e > newEnd => e >= goal
      /\ \A i \in first..last : ParagraphEnd(P[i]) > oldEnd =>
           i = last /\ ParagraphEnd(P[i]) + added - removed = goal
      /\ first <= last /\ goal < length => ParagraphEnd(P[last]) > oldEnd
  BY <1>1, <1>b, <1>c, <1>e, <1>f, <1>g, <1>h DEF RescanIsBounded
<1>3. /\ \A e \in E : e \in Nat /\ 1 <= e /\ e <= length
      /\ \A e \in D : e \in Nat /\ 1 <= e /\ e <= Len(env.before)
  BY <1>a, <1>e, <1>h, <1>i, EndsProperties DEF NewEnds
<1>4. IsTiling(D, P, Len(env.before))
  BY <1>c, <1>i DEF IsRescan
<1>5. /\ \A k \in 0..Len(P) : EndAt(P, k) \in Nat
      /\ \A k \in 1..Len(P) : EndAt(P, k) = ParagraphEnd(P[k])
      /\ \A k \in 1..Len(P) : IsSegment(D, EndAt(P, k - 1), EndAt(P, k))
      /\ \A k \in 1..Len(P) : P[k].index = EndAt(P, k - 1)
  <2>1. D \in SUBSET Nat /\ Len(env.before) \in Nat
    BY <1>3, <1>a
  <2>2. QED
    BY <1>4, <2>1, TilingProperties DEF IsTiling
<1>6. /\ first >= 1 /\ first <= Len(P) + 1 /\ last >= first - 1 /\ last <= Len(P)
      /\ index + removed = oldEnd /\ index + added = newEnd
      /\ start = EndAt(P, first - 1)
  <2>1. first \in 1..(Len(P) + 1) /\ last \in (first - 1)..Len(P)
    BY <1>a, <1>c, <1>e
  <2>2. QED
    BY <1>b, <1>c, <1>d, <1>e, <1>f, <1>g, <2>1 DEF OldEnd, NewEnd, RescanStart
<1>7. PICK slot \in Nat, paras \in Seq(Paragraph), scan \in Nat :
        slot = st.slot /\ paras = st.paras /\ scan = st.scan
  BY DEF ScanInv
<1>8. /\ first <= slot
      /\ \A i \in 1..(first - 1) : paras[i] = P[i]
      /\ \A i \in first..(slot - 1) :
           /\ paras[i].index = EndAt(paras, i - 1)
           /\ IsSegment(E, paras[i].index, ParagraphEnd(paras[i]))
      /\ scan = EndAt(paras, slot - 1) /\ scan <= goal
      /\ st.newEnd \in {newEnd, goal}
      /\ slot > last /\ scan < length => st.newEnd = goal
      /\ st.done => scan > index /\ scan >= st.newEnd
      /\ st.done \/ scan >= length
  BY <1>b, <1>c, <1>e, <1>f, <1>g, <1>h, <1>7 DEF ScanInv
<1>9. SUFFICES ASSUME scan # goal PROVE FALSE
  BY <1>f, <1>7
<1>10. scan < goal /\ scan < length /\ scan > index /\ scan >= newEnd /\ st.newEnd = newEnd
  <2>1. scan < goal /\ scan < length
    BY <1>2, <1>8, <1>9
  <2>2. scan > index /\ scan >= st.newEnd
    BY <1>8, <2>1
  <2>3. QED
    BY <1>8, <2>1, <2>2
<1>11. slot > first /\ scan \in E
  <2>1. start <= index
    BY <1>2
  <2>2. EndAt(paras, first - 1) = start
    <3>1. CASE first = 1
      BY <1>6, <3>1 DEF EndAt
    <3>2. CASE first # 1
      <4>1. first - 1 \in 1..(first - 1) /\ first - 1 # 0
        BY <1>6, <3>2
      <4>2. QED
        BY <1>6, <1>8, <4>1 DEF EndAt
    <3>3. QED
      BY <3>1, <3>2
  <2>3. slot # first
    BY <1>8, <1>10, <2>1, <2>2
  <2>4. slot - 1 \in first..(slot - 1) /\ slot - 1 # 0
    BY <1>6, <1>8, <2>3
  <2>5. scan = ParagraphEnd(paras[slot - 1])
    BY <1>8, <2>4 DEF EndAt
  <2>6. scan \in E
    BY <1>8, <2>4, <2>5 DEF IsSegment
  <2>7. QED
    BY <1>8, <2>3, <2>6
<1>12. scan = newEnd
  <2>1. ~(scan > newEnd)
    BY <1>2, <1>10, <1>11
  <2>2. QED
    BY <1>10, <2>1
<1>13. added > 0 /\ newEnd < length
  BY <1>6, <1>10, <1>12
<1>14. goal < length \/ goal = length
  BY <1>2
(* KeepsTail: more paragraphs were found than had begun.                   *)
<1>15. Cardinality({e \in E : start < e /\ e <= newEnd}) >
       Cardinality({e \in D : start < e /\ e <= oldEnd})
  <2>1. env.added > 0 /\ NewEnd(env) < Len(env.units) /\ NewEnd(env) \in NewEnds(env)
    BY <1>b, <1>e, <1>g, <1>h, <1>11, <1>12, <1>13
  <2>2. QED
    BY <2>1, <1>f, <1>g, <1>h, <1>i DEF TailIsKept
<1>16. Cardinality({e \in E : start < e /\ e <= newEnd}) = slot - first
  <2>1. EndAt(paras, first - 1) = start
    <3>1. CASE first = 1
      BY <1>6, <3>1 DEF EndAt
    <3>2. CASE first # 1
      <4>1. first - 1 \in 1..(first - 1) /\ first - 1 # 0
        BY <1>6, <3>2
      <4>2. QED
        BY <1>6, <1>8, <4>1 DEF EndAt
    <3>3. QED
      BY <3>1, <3>2
  <2>2. PICK i, m \in Nat : i = first - 1 /\ m = slot - first
    BY <1>6, <1>8
  <2>3. i + m = slot - 1 /\ EndAt(paras, i + m) = newEnd /\ EndAt(paras, i) = start
    <3>1. i + m = slot - 1
      BY <2>2
    <3>2. QED
      BY <1>8, <1>12, <2>1, <2>2, <3>1
  <2>4. ASSUME NEW k \in (i + 1)..(i + m) PROVE IsSegment(E, EndAt(paras, k - 1), EndAt(paras, k))
    <3>1. k \in first..(slot - 1) /\ k # 0
      BY <1>6, <2>2, <2>3
    <3>2. EndAt(paras, k) = ParagraphEnd(paras[k])
      BY <3>1 DEF EndAt
    <3>3. QED
      BY <1>8, <3>1, <3>2
  <2>5. E \in SUBSET Nat
    BY <1>3
  <2>6. Cardinality({e \in E : EndAt(paras, i) < e /\ e <= EndAt(paras, i + m)}) = m
    BY <2>3, <2>4, <2>5, StretchCount
  <2>7. QED
    BY <2>2, <2>3, <2>6
<1>17. slot <= last
  BY <1>6, <1>8, <1>10
<1>18. Cardinality({e \in D : start < e /\ e <= oldEnd}) >= last - first
  <2>1. PICK i, m \in Nat : i = first - 1 /\ m = last - first
    BY <1>6, <1>8, <1>17
  <2>2. i + m = last - 1 /\ last \in 1..Len(P) /\ last \in first..last
    BY <1>6, <1>8, <1>17, <2>1, SMTT(30)
  <2>3. EndAt(P, i) = start /\ EndAt(P, i) \in Nat /\ EndAt(P, i + m) <= oldEnd
    <3>1. P[last].index <= oldEnd
      BY <1>c, <1>e, <1>g, <2>2 DEF IsRescan
    <3>2. P[last].index = EndAt(P, i + m)
      BY <1>5, <2>2
    <3>3. i \in 0..Len(P)
      BY <1>6, <1>d, <2>1
    <3>4. QED
      BY <1>5, <1>6, <2>1, <3>1, <3>2, <3>3
  <2>4. D \in SUBSET Nat
    BY <1>3
  <2>5. \A k \in (i + 1)..(i + m) : IsSegment(D, EndAt(P, k - 1), EndAt(P, k))
    BY <1>5, <1>d, <2>2
  <2>6. Cardinality({e \in D : EndAt(P, i) < e /\ e <= EndAt(P, i + m)}) = m
    BY <2>3, <2>4, <2>5, StretchCount
  <2>7. PICK small : small = {e \in D : EndAt(P, i) < e /\ e <= EndAt(P, i + m)}
    OBVIOUS
  <2>8. PICK large : large = {e \in D : start < e /\ e <= oldEnd}
    OBVIOUS
  <2>9. EndAt(P, i + m) \in Nat
    <3>1. i + m \in 0..Len(P)
      BY <1>d, <2>2
    <3>2. QED
      BY <1>5, <3>1
  <2>10. small \in SUBSET large
    BY <1>3, <2>3, <2>7, <2>8, <2>9
  <2>11. IsFiniteSet(large)
    <3>1. large \in SUBSET Nat /\ \A e \in large : e <= oldEnd
      BY <2>4, <2>8
    <3>2. QED
      BY <3>1, FS_BoundedSetOfNaturals
  <2>12. Cardinality(small) <= Cardinality(large) /\ Cardinality(large) \in Nat
    BY <2>10, <2>11, FS_Subset, FS_CardinalityType
  <2>13. QED
    BY <2>1, <2>6, <2>7, <2>8, <2>12
<1>19. Cardinality({e \in D : start < e /\ e <= oldEnd}) \in Nat
  <2>1. {e \in D : start < e /\ e <= oldEnd} \in SUBSET Nat
        /\ \A e \in {e \in D : start < e /\ e <= oldEnd} : e <= oldEnd
    BY <1>3
  <2>2. IsFiniteSet({e \in D : start < e /\ e <= oldEnd})
    BY <2>1, FS_BoundedSetOfNaturals
  <2>3. QED
    BY <2>2, FS_CardinalityType
<1>20. QED
  <2>1. slot - first > Cardinality({e \in D : start < e /\ e <= oldEnd})
    BY <1>15, <1>16
  <2>2. QED
    BY <1>17, <1>18, <1>19, <2>1

-----------------------------------------------------------------------------
(* What is left of the list when the scan is over.                         *)

(* The paragraph r is p as it was, before or after the edit.               *)
IsKept(index, removed, added, r, p) ==
  /\ r.needsReanalysis = p.needsReanalysis /\ r.analysis = p.analysis /\ r.length = p.length
  /\ \/ r.index = p.index /\ ParagraphEnd(p) <= index
     \/ r.index = p.index + added - removed /\ p.index >= index + removed

Shifted(p, added, removed) == [p EXCEPT !.index = @ + added - removed]

(* The slots that the scan left, without those that were touched.          *)
LEMMA FinishProperties ==
  ASSUME NEW env, IsRescan(env), NEW n, NEW st, ScanInv(env, n, st)
  PROVE  /\ st.slot - 1 \in 0..Len(st.paras)
         /\ Finish(st, OldEnd(env), env.removed, env.added) =
              SubSeq(st.paras, 1, st.slot - 1)
                \o [k \in 1..(Len(env.paras) - env.last) |->
                      Shifted(env.paras[env.last + k], env.added, env.removed)]
<1>a. /\ env.paras \in Seq(Paragraph)
      /\ env.first \in 1..(Len(env.paras) + 1)
      /\ env.last \in (env.first - 1)..Len(env.paras)
      /\ env.index \in Nat /\ env.removed \in Nat /\ env.added \in Nat
  BY DEF IsRescan
<1>b. PICK index, removed, added \in Nat :
        index = env.index /\ removed = env.removed /\ added = env.added
  BY <1>a
<1>c. PICK P \in Seq(Paragraph) : P = env.paras
  BY <1>a
<1>d. Len(P) \in Nat
  BY <1>a
<1>e. PICK first, last \in Nat : first = env.first /\ last = env.last
  BY <1>a, <1>c, <1>d
<1>g. PICK oldEnd \in Nat : oldEnd = OldEnd(env)
  BY <1>b DEF OldEnd
<1>1. /\ first >= 1 /\ first <= Len(P) + 1 /\ last >= first - 1 /\ last <= Len(P)
  <2>1. first \in 1..(Len(P) + 1) /\ last \in (first - 1)..Len(P)
    BY <1>a, <1>c, <1>e
  <2>2. QED
    BY <1>d, <1>e, <2>1
<1>2. /\ \A i \in first..last : P[i].index <= oldEnd
      /\ last < Len(P) => P[last + 1].index > oldEnd
  BY <1>c, <1>e, <1>g DEF IsRescan
<1>3. PICK slot \in Nat, paras \in Seq(Paragraph), ins \in Nat :
        slot = st.slot /\ paras = st.paras /\ ins = Inserted(env, st)
  <2>1. st.slot \in Nat /\ st.paras \in Seq(Paragraph)
    BY DEF ScanInv
  <2>2. Inserted(env, st) \in Nat
    BY <1>e, <2>1 DEF Inserted
  <2>3. QED
    BY <2>1, <2>2
<1>4. ins = IF slot <= last + 1 THEN 0 ELSE slot - 1 - last
  BY <1>e, <1>3 DEF Inserted
<1>5. /\ first <= slot /\ Len(paras) = Len(P) + ins
      /\ \A i \in slot..Len(paras) : paras[i] = P[i - ins]
  BY <1>c, <1>e, <1>3 DEF ScanInv
<1>6. Len(paras) \in Nat /\ Len(P) \in Nat
  BY <1>d, <1>5
<1>7. slot - 1 \in 0..Len(paras)
  BY <1>1, <1>4, <1>5, <1>6
<1> DEFINE I == {i \in slot..Len(paras) : ~IsTouched(paras[i], oldEnd)}
<1>8. PICK kept : kept = IF I # {} THEN Min(I) ELSE 0
  OBVIOUS
<1>9. kept = SelectInSubSeq(paras, slot, Len(paras), LAMBDA p : ~IsTouched(p, oldEnd))
  BY <1>8 DEF SelectInSubSeq
<1>10. PICK after : after = IF kept = 0 THEN <<>> ELSE SubSeq(paras, kept, Len(paras))
  OBVIOUS
<1>11. Finish(st, oldEnd, removed, added) =
         SubSeq(paras, 1, slot - 1) \o [k \in 1..Len(after) |-> Shifted(after[k], added, removed)]
  BY <1>3, <1>9, <1>10 DEF Finish, Shifted
<1>12. ASSUME NEW i \in slot..Len(paras), i <= last + ins PROVE IsTouched(paras[i], oldEnd)
  <2>1. ins = 0 /\ i \in first..last /\ i - ins = i
    BY <1>1, <1>4, <1>5, <1>6, <1>12
  <2>2. paras[i] = P[i]
    BY <1>5, <2>1
  <2>3. QED
    BY <1>2, <2>1, <2>2 DEF IsTouched
<1>13. /\ Len(after) = Len(P) - last
       /\ \A k \in 1..(Len(P) - last) : after[k] = P[last + k]
  <2>1. CASE last = Len(P)
    <3>1. I = {}
      <4>1. \A i \in slot..Len(paras) : i <= last + ins
        BY <1>5, <1>6, <2>1
      <4>2. QED
        BY <1>12, <4>1
    <3>2. kept = 0 /\ after = <<>>
      BY <1>8, <1>10, <3>1
    <3>3. Len(after) = 0 /\ Len(P) - last = 0
      BY <1>6, <2>1, <3>2
    <3>4. QED
      BY <3>3
  <2>2. CASE last < Len(P)
    <3>1. PICK m \in Nat : m = last + 1 + ins
      OBVIOUS
    <3>2. m \in slot..Len(paras) /\ m - ins = last + 1
      BY <1>1, <1>4, <1>5, <1>6, <2>2, <3>1
    <3>3. paras[m] = P[last + 1] /\ P[last + 1].index > oldEnd /\ P[last + 1].index \in Nat
      <4>1. last + 1 \in 1..Len(P)
        BY <1>6, <2>2
      <4>2. P[last + 1].index \in Nat
        BY <4>1, ParagraphTypes
      <4>3. QED
        BY <1>2, <1>5, <2>2, <3>2, <4>2
    <3>4. m \in I
      BY <3>2, <3>3 DEF IsTouched
    <3>5. \A i \in I : m <= i
      <4>1. ASSUME NEW i \in I PROVE m <= i
        <5>1. i \in slot..Len(paras) /\ ~IsTouched(paras[i], oldEnd)
          OBVIOUS
        <5>2. ~(i <= last + ins)
          BY <1>12, <5>1
        <5>3. QED
          BY <3>1, <5>1, <5>2, <1>6
      <4>2. QED
        BY <4>1
    <3>6. \A i \in I : i \in Nat
      BY <1>6
    <3>7. kept = m
      <4> HIDE DEF I
      <4>1. kept = Min(I)
        BY <1>8, <3>4
      <4>2. \A x \in I : (\A y \in I : x <= y) => x = m
        BY <3>4, <3>5, <3>6
      <4>3. QED
        BY <3>4, <3>5, <4>1, <4>2 DEF Min
    <3>8. after = SubSeq(paras, m, Len(paras))
      BY <1>1, <1>10, <3>1, <3>7
    <3>9. Len(after) = Len(paras) - m + 1
          /\ \A k \in 1..(Len(paras) - m + 1) : after[k] = paras[m + k - 1]
      <4>1. m \in Int /\ Len(paras) \in Int /\ m <= Len(paras)
        BY <1>6, <3>2
      <4>2. \A i \in m..Len(paras) : paras[i] \in Paragraph
        BY <3>1, <1>6
      <4>3. /\ Len(SubSeq(paras, m, Len(paras))) = Len(paras) - m + 1
            /\ \A i \in 1..(Len(paras) - m + 1) : SubSeq(paras, m, Len(paras))[i] = paras[m + i - 1]
        BY <4>1, <4>2, SubSeqProperties
      <4>4. QED
        BY <3>8, <4>3
    <3>10. Len(paras) - m + 1 = Len(P) - last
      BY <1>5, <1>6, <3>1
    <3>11. ASSUME NEW k \in 1..(Len(P) - last) PROVE after[k] = P[last + k]
      <4>a. PICK total, size \in Nat : total = Len(paras) /\ size = Len(P)
        BY <1>6
      <4>b. total = size + ins /\ m = last + 1 + ins /\ slot <= m /\ k \in 1..(size - last)
        BY <1>5, <3>1, <3>2, <4>a
      <4>c. m + k - 1 \in slot..total /\ m + k - 1 - ins = last + k
        BY <4>b
      <4>1. m + k - 1 \in slot..Len(paras) /\ m + k - 1 - ins = last + k
        BY <4>a, <4>c
      <4>2. paras[m + k - 1] = P[m + k - 1 - ins]
        BY <1>5, <4>1, SMTT(30)
      <4>3. QED
        BY <3>9, <3>10, <4>1, <4>2
    <3>12. QED
      BY <3>9, <3>10, <3>11
  <2>3. QED
    BY <1>1, <1>6, <2>1, <2>2
<1>14. [k \in 1..Len(after) |-> Shifted(after[k], added, removed)]
         = [k \in 1..(Len(P) - last) |-> Shifted(P[last + k], added, removed)]
  BY <1>13
<1>15. QED
  BY <1>b, <1>c, <1>e, <1>g, <1>3, <1>7, <1>11, <1>14

(* When the scan ended at its goal the new list tiles the new text, and    *)
(* every paragraph is dirty or kept as it was.                             *)
LEMMA FinishTiles ==
  ASSUME NEW env, IsRescan(env), NEW n, NEW st, ScanInv(env, n, st), st.scan = Goal(env),
         NEW R, R = Finish(st, OldEnd(env), env.removed, env.added)
  PROVE  /\ R \in Seq(Paragraph)
         /\ IsTiling(NewEnds(env), R, Len(env.units))
         /\ \A k \in 1..Len(R) :
              \/ R[k].needsReanalysis
              \/ \E j \in 1..Len(env.paras) :
                   IsKept(env.index, env.removed, env.added, R[k], env.paras[j])
<1>0. RescanIsBounded(env)
  BY RescanBounds
<1>a. /\ env.paras \in Seq(Paragraph) /\ env.units \in Seq(CodeUnits) /\ env.before \in Seq(CodeUnits)
      /\ env.first \in 1..(Len(env.paras) + 1)
      /\ env.last \in (env.first - 1)..Len(env.paras)
      /\ env.index \in Nat /\ env.removed \in Nat /\ env.added \in Nat
  BY DEF IsRescan
<1>b. PICK index, removed, added \in Nat :
        index = env.index /\ removed = env.removed /\ added = env.added
  BY <1>a
<1>c. PICK P \in Seq(Paragraph) : P = env.paras
  BY <1>a
<1>d. Len(P) \in Nat /\ Len(env.units) \in Nat /\ Len(env.before) \in Nat
  BY <1>a
<1>e. PICK first, last, length, size \in Nat :
        first = env.first /\ last = env.last /\ length = Len(env.units) /\ size = Len(env.before)
  BY <1>a, <1>c, <1>d
<1>f. PICK start, goal \in Nat : start = RescanStart(env) /\ goal = Goal(env)
  BY <1>0 DEF RescanIsBounded
<1>g. PICK oldEnd \in Nat : oldEnd = OldEnd(env)
  BY <1>b DEF OldEnd
<1>h. PICK E : E = NewEnds(env)
  OBVIOUS
<1>i. PICK D : D = EndsOf(env.enc, env.before)
  OBVIOUS
<1>3. /\ \A e \in E : e \in Nat /\ 1 <= e /\ e <= length
      /\ \A e \in D : e \in Nat /\ 1 <= e /\ e <= size
  BY <1>a, <1>e, <1>h, <1>i, EndsProperties DEF NewEnds
<1>4. IsTiling(D, P, size)
  BY <1>c, <1>e, <1>i DEF IsRescan
<1>5. /\ \A k \in 0..Len(P) : EndAt(P, k) \in Nat
      /\ \A k \in 1..Len(P) : EndAt(P, k) = ParagraphEnd(P[k])
      /\ \A k \in 1..Len(P) : IsSegment(D, EndAt(P, k - 1), EndAt(P, k))
      /\ \A k \in 1..Len(P) : P[k].index = EndAt(P, k - 1)
      /\ \A i, j \in 0..Len(P) : i < j => EndAt(P, i) < EndAt(P, j)
      /\ EndAt(P, Len(P)) = size
  <2>1. D \in SUBSET Nat
    BY <1>3
  <2>2. QED
    BY <1>4, <2>1, TilingProperties, ZenonT(30) DEF IsTiling
<1>6. /\ first >= 1 /\ first <= Len(P) + 1 /\ last >= first - 1 /\ last <= Len(P)
      /\ index + removed = oldEnd /\ oldEnd <= size
      /\ length = size - removed + added
      /\ start = EndAt(P, first - 1)
      /\ goal = EndAt(P, last) + added - removed
      /\ start <= index
  <2>1. first \in 1..(Len(P) + 1) /\ last \in (first - 1)..Len(P)
    BY <1>a, <1>c, <1>e
  <2>2. /\ first >= 1 /\ first <= Len(P) + 1 /\ last >= first - 1 /\ last <= Len(P)
    BY <1>d, <1>e, <2>1
  <2>3. /\ index + removed = oldEnd /\ start = EndAt(P, first - 1)
        /\ goal = EndAt(P, last) + added - removed
    BY <1>b, <1>c, <1>e, <1>f, <1>g DEF OldEnd, RescanStart, Goal
  <2>4. oldEnd <= size /\ length = size - removed + added
    BY <1>b, <1>e, <1>g DEF IsRescan
  <2>5. start <= index
    BY <1>0, <1>b, <1>f DEF RescanIsBounded
  <2>6. QED
    BY <2>2, <2>3, <2>4, <2>5
<1>7. /\ \A e \in Nat : e < index => (e \in D <=> e \in E)
      /\ \A e \in Nat : e > oldEnd => (e \in D <=> e + added - removed \in E)
      /\ last < Len(P) => P[last + 1].index > oldEnd
  BY <1>b, <1>c, <1>e, <1>g, <1>h, <1>i DEF IsRescan
<1>8. PICK slot \in Nat, paras \in Seq(Paragraph) : slot = st.slot /\ paras = st.paras
  BY DEF ScanInv
<1>9. /\ first <= slot
      /\ \A i \in 1..(first - 1) : paras[i] = P[i]
      /\ \A i \in first..(slot - 1) :
           /\ paras[i].index = EndAt(paras, i - 1)
           /\ IsSegment(E, paras[i].index, ParagraphEnd(paras[i]))
           /\ paras[i].needsReanalysis
      /\ EndAt(paras, slot - 1) = goal
  BY <1>c, <1>e, <1>f, <1>h, <1>8 DEF ScanInv
<1>10. PICK head : head = SubSeq(paras, 1, slot - 1)
  OBVIOUS
<1>11. PICK count \in Nat : count = Len(P) - last
  <2>1. last <= Len(P)
    BY <1>6
  <2>2. Len(P) - last \in Nat
    BY <1>d, <2>1
  <2>3. QED
    BY <2>2
<1>12. PICK tail : tail = [k \in 1..count |-> Shifted(P[last + k], added, removed)]
  OBVIOUS
<1>13. slot - 1 \in 0..Len(paras) /\ R = head \o tail
  BY <1>b, <1>c, <1>e, <1>8, <1>10, <1>11, <1>12, FinishProperties
<1>14. /\ head \in Seq(Paragraph) /\ Len(head) = slot - 1
       /\ \A i \in 1..(slot - 1) : head[i] = paras[i]
  BY <1>10, <1>13
(* The paragraphs after the last one touched.                              *)
<1>15. ASSUME NEW k \in 1..count
       PROVE  /\ last + k \in 1..Len(P) /\ P[last + k] \in Paragraph
              /\ P[last + k].index = EndAt(P, last + k - 1) /\ P[last + k].index \in Nat
              /\ P[last + k].index > oldEnd
              /\ IsSegment(D, P[last + k].index, EndAt(P, last + k))
              /\ EndAt(P, last + k) = ParagraphEnd(P[last + k])
  <2>1. last + k \in 1..Len(P) /\ last < Len(P) /\ last \in 0..Len(P) /\ last + k - 1 \in 0..Len(P)
    BY <1>d, <1>6, <1>11
  <2>2. P[last + k] \in Paragraph
    BY <2>1
  <2>3. P[last + k].index = EndAt(P, last + k - 1) /\ EndAt(P, last + k - 1) \in Nat
    BY <1>5, <2>1
  <2>4. EndAt(P, last) > oldEnd
    <3>1. last + 1 \in 1..Len(P) /\ last + 1 - 1 = last
      BY <2>1
    <3>2. P[last + 1].index = EndAt(P, last)
      BY <1>5, <3>1
    <3>3. QED
      BY <1>7, <2>1, <3>2
  <2>5. EndAt(P, last + k - 1) > oldEnd
    <3>1. k = 1 \/ last < last + k - 1
      OBVIOUS
    <3>2. CASE k = 1
      <4>1. last + k - 1 = last
        BY <3>2
      <4>2. QED
        BY <2>4, <4>1
    <3>3. CASE last < last + k - 1
      <4>1. EndAt(P, last) < EndAt(P, last + k - 1) /\ EndAt(P, last) \in Nat
        BY <1>5, <2>1, <3>3
      <4>2. QED
        BY <2>3, <2>4, <4>1
    <3>4. QED
      BY <3>1, <3>2, <3>3
  <2>6. QED
    BY <1>5, <2>1, <2>2, <2>3, <2>5
<1>16. ASSUME NEW k \in 1..count
       PROVE  /\ tail[k] \in Paragraph
              /\ tail[k].index = P[last + k].index + added - removed
              /\ tail[k].length = P[last + k].length
              /\ tail[k].needsReanalysis = P[last + k].needsReanalysis
              /\ tail[k].analysis = P[last + k].analysis
              /\ ParagraphEnd(tail[k]) = EndAt(P, last + k) + added - removed
  <2>1. PICK p \in Paragraph : p = P[last + k]
    BY <1>15
  <2>2. p.index \in Nat /\ p.length \in Nat /\ p.index + added - removed \in Nat
    <3>1. p.index \in Nat /\ p.length \in Nat
      BY ParagraphTypes
    <3>2. p.index > oldEnd
      BY <1>15, <2>1
    <3>3. index + removed = oldEnd
      BY <1>6
    <3>4. QED
      BY <3>1, <3>2, <3>3
  <2>3. tail[k] = [p EXCEPT !.index = @ + added - removed]
    BY <1>12, <2>1 DEF Shifted
  <2>4. /\ tail[k].index = p.index + added - removed
        /\ tail[k].length = p.length /\ tail[k].needsReanalysis = p.needsReanalysis
        /\ tail[k].analysis = p.analysis
    BY <2>3 DEF Paragraph
  <2>5. tail[k] \in Paragraph
    BY <2>2, <2>3 DEF Paragraph
  <2>6. ParagraphEnd(tail[k]) = EndAt(P, last + k) + added - removed
    <3>1. EndAt(P, last + k) = p.index + p.length
      BY <1>15, <2>1 DEF ParagraphEnd
    <3>2. ParagraphEnd(tail[k]) = p.index + added - removed + p.length
      BY <2>4 DEF ParagraphEnd
    <3>3. QED
      BY <2>2, <3>1, <3>2
  <2>7. QED
    BY <2>1, <2>4, <2>5, <2>6
<1>17. tail \in Seq(Paragraph) /\ Len(tail) = count
  <2>1. tail \in [1..count -> Paragraph]
    BY <1>12, <1>16
  <2>2. QED
    BY <2>1, FunctionIsSequence
<1>18. /\ R \in Seq(Paragraph) /\ Len(R) = slot - 1 + count
       /\ \A i \in 1..(slot - 1) : R[i] = paras[i]
       /\ \A i \in slot..(slot - 1 + count) : R[i] = tail[i - (slot - 1)]
  <2>1. /\ head \o tail \in Seq(Paragraph) /\ Len(head \o tail) = Len(head) + Len(tail)
        /\ \A i \in 1..(Len(head) + Len(tail)) :
             (head \o tail)[i] = IF i <= Len(head) THEN head[i] ELSE tail[i - Len(head)]
    BY <1>14, <1>17, ConcatProperties
  <2>2. slot >= 1
    BY <1>6, <1>9
  <2>3. R \in Seq(Paragraph) /\ Len(R) = slot - 1 + count
    BY <1>13, <1>14, <1>17, <2>1
  <2>4. ASSUME NEW i \in 1..(slot - 1 + count)
        PROVE  R[i] = IF i <= slot - 1 THEN head[i] ELSE tail[i - (slot - 1)]
    BY <1>13, <1>14, <1>17, <2>1
  <2>5. ASSUME NEW i \in 1..(slot - 1) PROVE R[i] = paras[i]
    <3>1. i \in 1..(slot - 1 + count) /\ i <= slot - 1
      OBVIOUS
    <3>2. QED
      BY <1>14, <2>4, <3>1
  <2>6. ASSUME NEW i \in slot..(slot - 1 + count) PROVE R[i] = tail[i - (slot - 1)]
    <3>1. i \in 1..(slot - 1 + count) /\ ~(i <= slot - 1)
      BY <2>2
    <3>2. QED
      BY <2>4, <3>1
  <2>7. QED
    BY <2>3, <2>5, <2>6
<1>19. \A i \in 0..(slot - 1) : EndAt(R, i) = EndAt(paras, i)
  <2>1. \A i \in 1..(slot - 1) : R[i] = paras[i]
    BY <1>18
  <2>2. QED
    BY <2>1 DEF EndAt
<1>20. \A k \in 0..count : EndAt(R, slot - 1 + k) = EndAt(P, last + k) + added - removed
  <2>1. ASSUME NEW k \in 1..count PROVE EndAt(R, slot - 1 + k) = EndAt(P, last + k) + added - removed
    <3>1. slot - 1 + k \in slot..(slot - 1 + count) /\ slot - 1 + k - (slot - 1) = k
          /\ slot - 1 + k # 0
      BY <1>6, <1>9
    <3>2. R[slot - 1 + k] = tail[k]
      BY <1>18, <3>1
    <3>3. QED
      BY <1>16, <3>1, <3>2 DEF EndAt
  <2>2. EndAt(R, slot - 1) = EndAt(P, last) + added - removed
    <3>1. slot - 1 \in 0..(slot - 1)
      BY <1>6, <1>9
    <3>2. QED
      BY <1>6, <1>9, <1>19, <3>1
  <2>3. slot - 1 + 0 = slot - 1 /\ last + 0 = last
    OBVIOUS
  <2>4. ASSUME NEW k \in 0..count
        PROVE  EndAt(R, slot - 1 + k) = EndAt(P, last + k) + added - removed
    <3>1. CASE k = 0
      BY <2>2, <2>3, <3>1
    <3>2. CASE k # 0
      <4>1. k \in 1..count
        BY <3>2
      <4>2. QED
        BY <2>1, <4>1
    <3>3. QED
      BY <3>1, <3>2
  <2>5. QED
    BY <2>4
(* Before the first paragraph rewritten.                                   *)
<1>21. ASSUME NEW i \in 1..(first - 1)
       PROVE  /\ R[i].index = EndAt(R, i - 1)
              /\ IsSegment(E, R[i].index, ParagraphEnd(R[i]))
              /\ i \in 1..Len(P) /\ R[i] = P[i] /\ ParagraphEnd(P[i]) <= index
  <2>1. i \in 1..(slot - 1) /\ i \in 1..Len(P) /\ i - 1 \in 0..(slot - 1)
    BY <1>d, <1>6, <1>9
  <2>2. R[i] = P[i]
    BY <1>9, <1>18, <2>1
  <2>3. EndAt(R, i - 1) = EndAt(P, i - 1)
    <3>1. i = 1 \/ i - 1 \in 1..(first - 1)
      OBVIOUS
    <3>2. i = 1 \/ paras[i - 1] = P[i - 1]
      BY <1>9, <3>1
    <3>3. QED
      BY <1>19, <2>1, <3>2 DEF EndAt
  <2>4. R[i].index = EndAt(R, i - 1)
    BY <1>5, <2>1, <2>2, <2>3
  <2>5. PICK from, to \in Nat : from = EndAt(P, i - 1) /\ to = EndAt(P, i)
    <3>1. i - 1 \in 0..Len(P) /\ i \in 0..Len(P)
      BY <2>1
    <3>2. QED
      BY <1>5, <3>1
  <2>6. to <= start
    <3>1. first - 1 \in 0..Len(P) /\ i \in 0..Len(P) /\ (i = first - 1 \/ i < first - 1)
      BY <1>d, <1>6, <2>1
    <3>2. start = EndAt(P, first - 1)
      BY <1>6
    <3>3. CASE i = first - 1
      BY <2>5, <3>2, <3>3
    <3>4. CASE i < first - 1
      <4>1. to < start
        BY <1>5, <2>5, <3>1, <3>2, <3>4
      <4>2. QED
        BY <4>1
    <3>5. QED
      BY <3>1, <3>3, <3>4
  <2>7. from < to /\ to \in D /\ \A e \in D : e <= from \/ to <= e
    BY <1>5, <2>1, <2>5 DEF IsSegment
  <2>8. to < index
    <3>1. start = 0 \/ start < index
      BY <1>0, <1>b, <1>f DEF RescanIsBounded
    <3>2. QED
      BY <2>6, <2>7, <3>1
  <2>9. to \in E /\ \A e \in E : e <= from \/ to <= e
    <3>1. to \in E
      BY <1>7, <2>7, <2>8
    <3>2. ASSUME NEW e \in E, e < to PROVE e <= from
      <4>1. e \in Nat /\ e < index
        BY <1>3, <2>8, <3>2
      <4>2. e \in D
        BY <1>7, <4>1
      <4>3. QED
        BY <2>7, <3>2, <4>1, <4>2
    <3>3. QED
      BY <1>3, <3>1, <3>2
  <2>10. QED
    BY <1>5, <2>1, <2>2, <2>3, <2>4, <2>5, <2>7, <2>8, <2>9 DEF IsSegment
(* The paragraphs rewritten.                                               *)
<1>22. ASSUME NEW i \in first..(slot - 1)
       PROVE  /\ R[i].index = EndAt(R, i - 1)
              /\ IsSegment(E, R[i].index, ParagraphEnd(R[i]))
              /\ R[i].needsReanalysis
  <2>1. i \in 1..(slot - 1) /\ i - 1 \in 0..(slot - 1)
    BY <1>6
  <2>2. R[i] = paras[i] /\ EndAt(R, i - 1) = EndAt(paras, i - 1)
    BY <1>18, <1>19, <2>1
  <2>3. QED
    BY <1>9, <2>2
(* The paragraphs shifted.                                                 *)
<1>23. ASSUME NEW k \in 1..count, NEW i, i = slot - 1 + k
       PROVE  /\ R[i] = tail[k]
              /\ R[i].index = EndAt(R, i - 1)
              /\ IsSegment(E, R[i].index, ParagraphEnd(R[i]))
  <2>1. i \in slot..(slot - 1 + count) /\ i - (slot - 1) = k /\ i - 1 = slot - 1 + (k - 1)
        /\ k - 1 \in 0..count /\ last + (k - 1) = last + k - 1
    BY <1>23
  <2>2. R[i] = tail[k]
    BY <1>18, <2>1
  <2>3. EndAt(R, i - 1) = EndAt(P, last + k - 1) + added - removed
    BY <1>20, <2>1
  <2>4. R[i].index = EndAt(R, i - 1)
    BY <1>15, <1>16, <2>2, <2>3
  <2>5. PICK from, to \in Nat : from = P[last + k].index /\ to = EndAt(P, last + k)
    <3>1. last + k \in 0..Len(P)
      BY <1>15, SMTT(30)
    <3>2. QED
      BY <1>5, <1>15, <3>1
  <2>6. from > oldEnd /\ from < to /\ to \in D /\ \A e \in D : e <= from \/ to <= e
    BY <1>15, <2>5 DEF IsSegment
  <2>7. R[i].index = from + added - removed /\ ParagraphEnd(R[i]) = to + added - removed
    BY <1>16, <2>2, <2>5
  <2>8. to + added - removed \in E
    BY <1>7, <2>6
  <2>9. ASSUME NEW e \in E PROVE e <= from + added - removed \/ to + added - removed <= e
    <3>1. e \in Nat
      BY <1>3
    <3>2. CASE e <= from + added - removed
      BY <3>2
    <3>3. CASE e > from + added - removed
      <4>1. PICK o \in Nat : o = e - added + removed
        BY <1>6, <2>6, <3>1, <3>3
      <4>2. o > from /\ o + added - removed = e
        BY <3>1, <3>3, <4>1
      <4>3. o \in D
        BY <1>7, <2>6, <4>2
      <4>4. to <= o
        BY <2>6, <4>2, <4>3
      <4>5. QED
        BY <3>1, <4>2, <4>4
    <3>4. QED
      BY <3>1, <3>2, <3>3
  <2>10. from + added - removed < to + added - removed
    BY <2>6
  <2>11. QED
    BY <2>2, <2>4, <2>7, <2>8, <2>9, <2>10 DEF IsSegment
<1>24. ASSUME NEW i \in 1..Len(R)
       PROVE  \/ i \in 1..(first - 1)
              \/ i \in first..(slot - 1)
              \/ \E k \in 1..count : i = slot - 1 + k
  <2>1. CASE i <= slot - 1
    BY <1>6, <1>9, <2>1
  <2>2. CASE i > slot - 1
    <3>1. i - (slot - 1) \in 1..count /\ i = slot - 1 + (i - (slot - 1))
      BY <1>18, <2>2
    <3>2. QED
      BY <3>1
  <2>3. QED
    BY <2>1, <2>2
<1>25. IsTiling(E, R, length)
  <2>1. \A i \in 1..Len(R) :
          R[i].index = EndAt(R, i - 1) /\ IsSegment(E, R[i].index, ParagraphEnd(R[i]))
    BY <1>21, <1>22, <1>23, <1>24, ZenonT(30)
  <2>2. EndAt(R, Len(R)) = length
    <3>1. count \in 0..count /\ Len(R) = slot - 1 + count /\ last + count = Len(P)
      BY <1>d, <1>6, <1>11, <1>18
    <3>2. EndAt(R, Len(R)) = size + added - removed
      BY <1>5, <1>20, <3>1
    <3>3. QED
      BY <1>6, <3>2
  <2>3. QED
    BY <2>1, <2>2 DEF IsTiling
<1>26. ASSUME NEW i \in 1..Len(R)
       PROVE  \/ R[i].needsReanalysis
              \/ \E j \in 1..Len(P) : IsKept(index, removed, added, R[i], P[j])
  <2>1. CASE i \in 1..(first - 1)
    <3>1. IsKept(index, removed, added, R[i], P[i])
      BY <1>21, <2>1 DEF IsKept
    <3>2. QED
      BY <1>21, <2>1, <3>1
  <2>2. CASE i \in first..(slot - 1)
    BY <1>22, <2>2
  <2>3. ASSUME NEW k \in 1..count, i = slot - 1 + k
        PROVE  \E j \in 1..Len(P) : IsKept(index, removed, added, R[i], P[j])
    <3>1. R[i] = tail[k]
      BY <1>23, <2>3
    <3>2. P[last + k].index >= index + removed
      <4>1. P[last + k].index > oldEnd /\ P[last + k].index \in Nat
        BY <1>15
      <4>2. index + removed = oldEnd
        BY <1>6
      <4>3. QED
        BY <4>1, <4>2
    <3>3. IsKept(index, removed, added, R[i], P[last + k])
      BY <1>16, <3>1, <3>2 DEF IsKept
    <3>4. QED
      BY <1>15, <3>3
  <2>4. QED
    BY <1>24, <2>1, <2>2, <2>3
<1>27. QED
  BY <1>b, <1>c, <1>e, <1>h, <1>18, <1>25, <1>26

-----------------------------------------------------------------------------
(* From the invariant of the turns to what the update yields.              *)

(* The position from which the scan starts, in the list and in the text.   *)
LEMMA ScanStarts ==
  ASSUME NEW env, IsRescan(env), NEW found \in 0..Len(env.paras),
         env.first = IF found = 0 THEN Len(env.paras) + 1 ELSE found,
         found = 0 => env.paras = <<>>
  PROVE  ScanInv(env, 0, ScanStart(env.paras, env.index, env.added, found))
<1>0. RescanIsBounded(env)
  BY RescanBounds
<1>a. /\ env.paras \in Seq(Paragraph) /\ env.before \in Seq(CodeUnits)
      /\ env.first \in 1..(Len(env.paras) + 1)
      /\ env.last \in (env.first - 1)..Len(env.paras)
      /\ env.index \in Nat /\ env.removed \in Nat /\ env.added \in Nat
      /\ Len(env.units) = Len(env.before) - env.removed + env.added
      /\ OldEnd(env) <= Len(env.before)
      /\ env.first > env.last => env.paras = <<>>
  BY DEF IsRescan
<1>b. PICK index, removed, added \in Nat :
        index = env.index /\ removed = env.removed /\ added = env.added
  BY <1>a
<1>c. PICK P \in Seq(Paragraph) : P = env.paras
  BY <1>a
<1>d. PICK total, size \in Nat : total = Len(P) /\ size = Len(env.before)
  BY <1>a
<1>e. /\ env.first \in 1..(total + 1) /\ env.last \in (env.first - 1)..total
      /\ env.first > env.last => P = <<>>
  BY <1>a, <1>c, <1>d
<1>f. PICK first, last \in Nat : first = env.first /\ last = env.last
  BY <1>d, <1>e
<1>1. first >= 1 /\ first <= total + 1 /\ last >= first - 1 /\ last <= total
  BY <1>d, <1>e, <1>f
<1>2. PICK st : st = ScanStart(P, index, added, found)
  OBVIOUS
<1>3. /\ st.slot = first /\ st.paras = P /\ st.done = FALSE /\ st.newEnd = index + added
      /\ st.scan = IF found = 0 THEN index ELSE P[found].index
  BY <1>c, <1>d, <1>f, <1>2 DEF ScanStart
<1>4. Inserted(env, st) = 0
  BY <1>1, <1>3, <1>f DEF Inserted
<1>5. PICK D : D = EndsOf(env.enc, env.before)
  OBVIOUS
<1>6. IsTiling(D, P, size)
  BY <1>c, <1>d, <1>5 DEF IsRescan
<1>7. P = <<>> => total = 0 /\ size = 0 /\ index = 0 /\ removed = 0 /\ first = 1 /\ last = 0
  <2> SUFFICES ASSUME P = <<>> PROVE total = 0 /\ size = 0 /\ index = 0 /\ removed = 0 /\ first = 1 /\ last = 0
    OBVIOUS
  <2>1. total = 0
    BY <1>d
  <2>2. size = 0
    BY <1>6, <1>d, <2>1 DEF IsTiling, EndAt
  <2>3. index + removed <= size
    BY <1>a, <1>b, <1>d DEF OldEnd
  <2>4. QED
    BY <1>1, <2>1, <2>2, <2>3
<1>8. st.scan = EndAt(P, first - 1)
  <2>1. CASE found = 0
    <3>1. st.scan = 0 /\ first - 1 = 0
      BY <1>3, <1>7, <1>c, <2>1
    <3>2. QED
      BY <3>1 DEF EndAt
  <2>2. CASE found # 0
    <3>1. found \in 1..total /\ first = found
      BY <1>c, <1>d, <1>f, <2>2
    <3>2. st.scan = P[found].index
      BY <1>3, <2>2
    <3>3. P[found].index = EndAt(P, found - 1)
      BY <1>6, <1>d, <3>1 DEF IsTiling
    <3>4. QED
      BY <3>1, <3>2, <3>3
  <2>3. QED
    BY <2>1, <2>2
<1>9. st.scan = RescanStart(env) /\ st.scan \in Nat /\ Goal(env) \in Nat /\ NewEnd(env) = index + added
  BY <1>0, <1>8, <1>b, <1>c, <1>f DEF RescanIsBounded, RescanStart, NewEnd
<1>10. st.scan <= Goal(env)
  <2>1. st.scan = 0 \/ st.scan < index
    BY <1>0, <1>9, <1>b DEF RescanIsBounded
  <2>2. index + added <= Goal(env)
    BY <1>0, <1>9 DEF RescanIsBounded
  <2>3. QED
    BY <1>9, <2>1, <2>2
<1>11. st.slot > last => st.newEnd = Goal(env)
  <2> SUFFICES ASSUME st.slot > last PROVE st.newEnd = Goal(env)
    OBVIOUS
  <2>1. P = <<>>
    BY <1>e, <1>f, <1>3
  <2>2. index = 0 /\ removed = 0 /\ last = 0
    BY <1>7, <2>1
  <2>3. Goal(env) = 0 + added - 0
    BY <1>b, <1>f, <2>2 DEF Goal, EndAt
  <2>4. QED
    BY <1>3, <2>2, <2>3
<1>12. /\ st.slot \in Nat /\ env.first <= st.slot
       /\ st.paras \in Seq(Paragraph)
       /\ Len(st.paras) = Len(env.paras) + Inserted(env, st)
       /\ \A i \in 1..(env.first - 1) : st.paras[i] = env.paras[i]
  <2>1. st.slot \in Nat /\ env.first <= st.slot
    BY <1>3, <1>f
  <2>2. Len(st.paras) = total /\ Len(env.paras) = total /\ total = total + 0
    BY <1>3, <1>c, <1>d
  <2>3. Len(st.paras) = Len(env.paras) + Inserted(env, st)
    BY <1>4, <2>2
  <2>4. st.paras \in Seq(Paragraph) /\ st.paras = env.paras
    BY <1>3, <1>c
  <2>5. \A i \in 1..(env.first - 1) : st.paras[i] = env.paras[i]
    BY <2>4
  <2>6. QED
    BY <2>1, <2>3, <2>4, <2>5
<1>13. \A i \in env.first..(st.slot - 1) : FALSE
  BY <1>3, <1>f
<1>14. \A i \in st.slot..Len(st.paras) : st.paras[i] = env.paras[i - Inserted(env, st)]
  <2>1. \A i \in st.slot..Len(st.paras) : i - 0 = i
    BY <1>3, <1>d
  <2>2. QED
    BY <1>3, <1>4, <1>c, <2>1
<1>15. /\ st.scan \in Nat /\ st.scan = EndAt(st.paras, st.slot - 1) /\ st.scan <= Goal(env)
       /\ st.newEnd \in {NewEnd(env), Goal(env)}
       /\ st.slot > env.last /\ st.scan < Len(env.units) => st.newEnd = Goal(env)
       /\ st.done \in BOOLEAN /\ ~st.done
       /\ ~(st.slot > env.first)
       /\ st.scan >= 0
  <2>1. st.scan = EndAt(st.paras, st.slot - 1)
    BY <1>3, <1>8
  <2>2. st.newEnd \in {NewEnd(env), Goal(env)}
    BY <1>3, <1>9
  <2>3. st.slot > env.last => st.newEnd = Goal(env)
    BY <1>11, <1>f
  <2>4. ~(st.slot > env.first)
    BY <1>3, <1>f
  <2>5. st.scan >= 0 /\ st.scan \in Nat /\ st.scan <= Goal(env)
    BY <1>9, <1>10
  <2>6. st.done \in BOOLEAN /\ ~st.done
    BY <1>3
  <2>7. QED
    BY <2>1, <2>2, <2>3, <2>4, <2>5, <2>6
<1>16. ScanInv(env, 0, st)
  BY <1>12, <1>13, <1>14, <1>15 DEF ScanInv
<1>17. QED
  BY <1>16, <1>2, <1>b, <1>c

(* What the update of the paragraphs yields.                               *)
LEMMA RescanTiles ==
  ASSUME NEW env, IsRescan(env), TailIsKept(env),
         NEW found, found = GetCodeUnitParagraphIndex(env.paras, AtLeastZero(env.index - 1)),
         found \in 0..Len(env.paras),
         env.first = IF found = 0 THEN Len(env.paras) + 1 ELSE found,
         found = 0 => env.paras = <<>>,
         NEW R, R = UpdateParagraphsForTextReplacement(env.paras, env.units, env.types,
                                                       env.index, env.removed, env.added)
  PROVE  /\ R \in Seq(Paragraph)
         /\ IsTiling(NewEnds(env), R, Len(env.units))
         /\ \A k \in 1..Len(R) :
              \/ R[k].needsReanalysis
              \/ \E j \in 1..Len(env.paras) :
                   IsKept(env.index, env.removed, env.added, R[k], env.paras[j])
<1> DEFINE base == ScanStart(env.paras, env.index, env.added, found)
           st == Scan!Folded(env, base, env.units)
<1>1. ScanInv(env, 0, base)
  BY ScanStarts
<1>2. env.units \in Seq(CodeUnits)
  BY DEF IsRescan
<1>3. PICK n \in Nat : n = Len(env.units) /\ DOMAIN env.units = 1..n
  BY <1>2
<1>4. \A k \in 1..n : \A s : ScanInv(env, k - 1, s) => ScanInv(env, k, ScanTurn(env, s, env.units[k]))
  BY <1>3, ScanStep
<1>5. ScanInv(env, n, st)
  <2> HIDE DEF base
  <2>1. QED
    BY <1>1, <1>3, <1>4, Scan!FoldLeftInvariant
<1>6. st.scan = Goal(env)
  <2> HIDE DEF st
  <2>1. QED
    BY <1>3, <1>5, ScanEnds
<1>7. R = Finish(st, OldEnd(env), env.removed, env.added)
  BY UpdateIsFold DEF OldEnd
<1>8. QED
  <2> HIDE DEF st
  <2>1. QED
    BY <1>5, <1>6, <1>7, FinishTiles

(* The paragraph that holds a code unit of the text is found.              *)
LEMMA FoundParagraph ==
  ASSUME NEW ends \in SUBSET Nat, NEW n \in Nat, NEW P \in Seq(Paragraph), IsTiling(ends, P, n),
         NEW i \in Nat, NEW found, found = GetCodeUnitParagraphIndex(P, i)
  PROVE  /\ found \in 0..Len(P)
         /\ found = 0 => n <= i
         /\ found # 0 => EndAt(P, found - 1) <= i /\ i < EndAt(P, found)
<1>1. /\ \A k \in 0..Len(P) : EndAt(P, k) \in Nat
      /\ \A k \in 1..Len(P) : EndAt(P, k) = ParagraphEnd(P[k])
      /\ \A k \in 1..Len(P) : P[k].index = EndAt(P, k - 1)
      /\ EndAt(P, Len(P)) = n
  BY TilingProperties DEF IsTiling
<1>2. Len(P) \in Nat
  OBVIOUS
<1> DEFINE I == {k \in 1..Len(P) : P[k].index <= i /\ i < ParagraphEnd(P[k])}
<1>3. found = IF I # {} THEN Min(I) ELSE 0
  BY DEF GetCodeUnitParagraphIndex, SelectInSeq
<1>4. I \in SUBSET Nat
  OBVIOUS
<1>5. I # {} => found \in I
  <2> HIDE DEF I
  <2> SUFFICES ASSUME I # {} PROVE found \in I
    OBVIOUS
  <2>1. PICK m \in I : \A k \in I : m <= k
    BY <1>4, Scan!LeastNatural
  <2>2. found = Min(I)
    BY <1>3
  <2>3. QED
    BY <2>1, <2>2 DEF Min
<1>6. n > i => I # {}
  <2> SUFFICES ASSUME n > i PROVE I # {}
    OBVIOUS
  <2> DEFINE T == {k \in 1..Len(P) : EndAt(P, k) > i}
  <2>1. Len(P) # 0
    BY <1>1 DEF EndAt
  <2>2. Len(P) \in T
    BY <1>1, <1>2, <2>1
  <2>3. T \in SUBSET Nat
    OBVIOUS
  <2>4. PICK m \in T : \A k \in T : m <= k
    <3> HIDE DEF T
    <3>1. QED
      BY <2>2, <2>3, Scan!LeastNatural
  <2>5. m \in 1..Len(P) /\ EndAt(P, m) > i
    OBVIOUS
  <2>6. EndAt(P, m - 1) <= i
    <3>1. CASE m = 1
      <4>1. EndAt(P, m - 1) = 0
        BY <3>1 DEF EndAt
      <4>2. QED
        BY <4>1
    <3>2. CASE m # 1
      <4>1. m - 1 \in 1..Len(P) /\ m - 1 \in 0..Len(P)
        BY <1>2, <2>5, <3>2
      <4>2. m - 1 \notin T
        BY <2>4, <2>5
      <4>3. ~(EndAt(P, m - 1) > i) /\ EndAt(P, m - 1) \in Nat
        BY <1>1, <4>1, <4>2
      <4>4. QED
        BY <4>3
    <3>3. QED
      BY <3>1, <3>2
  <2>7. P[m].index <= i /\ i < ParagraphEnd(P[m])
    BY <1>1, <2>5, <2>6
  <2>8. QED
    BY <2>5, <2>7
<1>7. CASE I = {}
  BY <1>2, <1>3, <1>6, <1>7
<1>8. CASE I # {}
  <2>1. found \in 1..Len(P) /\ P[found].index <= i /\ i < ParagraphEnd(P[found])
    BY <1>5, <1>8
  <2>2. EndAt(P, found - 1) <= i /\ i < EndAt(P, found)
    BY <1>1, <2>1
  <2>3. QED
    BY <1>2, <2>1, <2>2
<1>9. QED
  BY <1>7, <1>8

(* The last paragraph that starts at or before a code unit.                *)
LEMMA LastBefore ==
  ASSUME NEW P \in Seq(Paragraph), NEW limit \in Nat
  PROVE  \E last \in 0..Len(P) :
           /\ \A k \in 1..last : P[k].index <= limit
           /\ last < Len(P) => P[last + 1].index > limit
<1> DEFINE T == {k \in 1..Len(P) : P[k].index > limit}
<1>1. Len(P) \in Nat /\ \A k \in 1..Len(P) : P[k].index \in Nat
  <2>1. \A k \in 1..Len(P) : P[k] \in Paragraph
    OBVIOUS
  <2>2. QED
    BY <2>1, ParagraphTypes
<1>2. CASE T = {}
  <2>1. \A k \in 1..Len(P) : P[k].index <= limit
    BY <1>1, <1>2
  <2>2. Len(P) \in 0..Len(P) /\ ~(Len(P) < Len(P))
    BY <1>1
  <2>3. QED
    BY <2>1, <2>2
<1>3. CASE T # {}
  <2>1. PICK m \in T : \A k \in T : m <= k
    <3>1. T \in SUBSET Nat
      OBVIOUS
    <3> HIDE DEF T
    <3>2. QED
      BY <1>3, <3>1, Scan!LeastNatural
  <2>2. m \in 1..Len(P) /\ P[m].index > limit
    OBVIOUS
  <2>3. m - 1 \in 0..Len(P) /\ m - 1 + 1 = m
    BY <1>1, <2>2
  <2>4. ASSUME NEW k \in 1..(m - 1) PROVE P[k].index <= limit
    <3>1. k \in 1..Len(P) /\ ~(m <= k)
      BY <1>1, <2>2
    <3>2. k \notin T
      BY <2>1, <3>1
    <3>3. ~(P[k].index > limit) /\ P[k].index \in Nat
      BY <1>1, <3>1, <3>2
    <3>4. QED
      BY <3>3
  <2>5. QED
    BY <2>2, <2>3, <2>4
<1>4. QED
  BY <1>2, <1>3

(* AffectedStart, with the ends as an argument.                            *)
AffectedAt(ends, index) ==
  LET before == {e \in ends : e < index}
  IN  IF before = {} THEN 0 ELSE Max(before)

LEMMA AffectedIsSegmentStart ==
  ASSUME NEW ends \in SUBSET Nat, 0 \notin ends, NEW index \in Nat, NEW from \in Nat, NEW to \in Nat,
         from = 0 \/ from \in ends, IsSegment(ends, from, to),
         from < index \/ from = 0, index <= to
  PROVE  AffectedAt(ends, index) = from
<1> DEFINE before == {e \in ends : e < index}
<1>1. \A e \in ends : e \in Nat /\ (e <= from \/ to <= e)
  BY DEF IsSegment
<1>2. \A e \in before : e \in Nat /\ e <= from
  BY <1>1
<1>3. CASE from \in before
  <2>1. \A x \in before : (\A y \in before : x >= y) => x = from
    BY <1>2, <1>3
  <2>2. \A y \in before : from >= y
    BY <1>2
  <2> HIDE DEF before
  <2>3. Max(before) = from
    BY <1>3, <2>1, <2>2 DEF Max
  <2>4. before # {}
    BY <1>3
  <2>5. QED
    BY <2>3, <2>4 DEF AffectedAt, before
<1>4. CASE from \notin before
  <2>1. from = 0
    BY <1>4
  <2>2. before = {}
    <3>1. \A e \in before : e = 0
      BY <1>2, <2>1
    <3>2. QED
      BY <3>1
  <2>3. QED
    BY <2>1, <2>2 DEF AffectedAt
<1>5. QED
  BY <1>3, <1>4

(* What an edit must not do: KeepsTail and KeepsSeparator, with the        *)
(* encoding and the text as arguments.                                     *)
TailStays(enc, before, index, removed, chunk) ==
  LET units == Splice(before, index, removed, chunk)
      Between(ends, last) == {e \in ends : AffectedAt(EndsOf(enc, before), index) < e /\ e <= last}
  IN  (chunk # <<>> /\ index + Len(chunk) < Len(units) /\ index + Len(chunk) \in EndsOf(enc, units)) =>
        Cardinality(Between(EndsOf(enc, units), index + Len(chunk))) >
        Cardinality(Between(EndsOf(enc, before), index + removed))

SeparatorStays(enc, before, index, removed, chunk) ==
  PairType(enc) = "B" =>
    /\ ~IsPairAt(before, index + removed - 1)
    /\ ~IsPairAt(Splice(before, index, removed, chunk), index + Len(chunk) - 1)

(* UpdateParagraphsForTextReplacement, for every list that tiles a text    *)
(* and every edit that keeps the tail and cuts no separator.               *)
LEMMA UpdateTiles ==
  ASSUME NEW enc, NEW before \in Seq(CodeUnits), NEW chunk \in Seq(CodeUnits),
         NEW index \in Nat, NEW removed \in Nat, index + removed <= Len(before),
         NEW P \in Seq(Paragraph), IsTiling(EndsOf(enc, before), P, Len(before)),
         TailStays(enc, before, index, removed, chunk),
         SeparatorStays(enc, before, index, removed, chunk),
         NEW units, units = Splice(before, index, removed, chunk),
         NEW types, types = DetermineBidiTypes(enc, units),
         NEW R, R = UpdateParagraphsForTextReplacement(P, units, types, index, removed, Len(chunk))
  PROVE  /\ R \in Seq(Paragraph)
         /\ IsTiling(EndsOf(enc, units), R, Len(units))
         /\ \A k \in 1..Len(R) :
              \/ R[k].needsReanalysis
              \/ \E j \in 1..Len(P) : IsKept(index, removed, Len(chunk), R[k], P[j])
<1>1. /\ units \in Seq(CodeUnits) /\ Len(units) = Len(before) - removed + Len(chunk)
  BY SpliceProperties DEF IsSplice
<1>2. PICK size, added, total \in Nat : size = Len(before) /\ added = Len(chunk) /\ total = Len(P)
  OBVIOUS
<1>3. /\ \A e \in Nat : e < index => (e \in EndsOf(enc, before) <=> e \in EndsOf(enc, units))
      /\ \A e \in Nat : e > index + removed =>
           (e \in EndsOf(enc, before) <=> e + added - removed \in EndsOf(enc, units))
  BY <1>2, EndsAround DEF SeparatorStays
<1>4. PICK D : D = EndsOf(enc, before)
  OBVIOUS
<1>5. D \in SUBSET Nat /\ 0 \notin D
  BY <1>4, EndsProperties
<1>6. IsTiling(D, P, size)
  BY <1>2, <1>4
<1>7. /\ \A k \in 0..total : EndAt(P, k) \in Nat
      /\ \A k \in 1..total : EndAt(P, k) = ParagraphEnd(P[k]) /\ EndAt(P, k) \in D
      /\ \A k \in 1..total : IsSegment(D, EndAt(P, k - 1), EndAt(P, k))
      /\ \A k \in 1..total : P[k].index = EndAt(P, k - 1)
      /\ EndAt(P, total) = size
      /\ \A i, j \in 0..total : i < j => EndAt(P, i) < EndAt(P, j)
  BY <1>2, <1>5, <1>6, TilingProperties DEF IsTiling
<1>8. PICK at \in Nat : at = AtLeastZero(index - 1)
  BY DEF AtLeastZero
<1>9. (index = 0 /\ at = 0) \/ (index > 0 /\ at = index - 1)
  BY <1>8 DEF AtLeastZero
<1>10. PICK found : found = GetCodeUnitParagraphIndex(P, at)
  OBVIOUS
<1>11. /\ found \in 0..total
       /\ found = 0 => size <= at
       /\ found # 0 => EndAt(P, found - 1) <= at /\ at < EndAt(P, found)
  BY <1>2, <1>5, <1>6, <1>10, FoundParagraph
<1>12. index + removed <= size
  BY <1>2
<1>13. found = 0 => total = 0
  <2> SUFFICES ASSUME found = 0, total # 0 PROVE FALSE
    BY <1>2
  <2>1. size <= at
    BY <1>11
  <2>2. size = 0
    BY <1>9, <1>12, <2>1
  <2>3. EndAt(P, 0) < EndAt(P, total) /\ EndAt(P, 0) = 0
    <3>1. 0 \in 0..total /\ total \in 0..total /\ 0 < total
      OBVIOUS
    <3>2. QED
      BY <1>7, <3>1 DEF EndAt
  <2>4. QED
    BY <1>7, <2>2, <2>3
<1>14. found = 0 => P = <<>>
  BY <1>2, <1>13
<1>15. PICK first \in Nat : first = IF found = 0 THEN total + 1 ELSE found
  BY <1>11
<1>16. PICK oldEnd \in Nat : oldEnd = index + removed
  OBVIOUS
<1>17. PICK last \in 0..total : /\ \A k \in 1..last : P[k].index <= oldEnd
                                /\ last < total => P[last + 1].index > oldEnd
  BY <1>2, LastBefore
<1>18. first \in 1..(total + 1)
  BY <1>11, <1>15
<1>19. EndAt(P, first - 1) \in Nat /\ (EndAt(P, first - 1) < index \/ EndAt(P, first - 1) = 0)
  <2>1. CASE found = 0
    <3>1. first - 1 = 0
      BY <1>13, <1>15, <2>1
    <3>2. QED
      BY <3>1 DEF EndAt
  <2>2. CASE found # 0
    <3>1. first = found /\ first - 1 \in 0..total
      BY <1>11, <1>15, <2>2
    <3>2. EndAt(P, first - 1) <= at /\ EndAt(P, first - 1) \in Nat
      BY <1>7, <1>11, <2>2, <3>1
    <3>3. QED
      BY <1>9, <3>2
  <2>3. QED
    BY <2>1, <2>2
<1>20. found # 0 => first <= last
  <2> SUFFICES ASSUME found # 0, ~(first <= last) PROVE FALSE
    BY <1>15
  <2>1. first = found /\ first \in 1..total /\ last < total /\ last <= first - 1
    BY <1>11, <1>15, <1>17
  <2>2. P[last + 1].index > oldEnd
    BY <1>17, <2>1
  <2>3. last + 1 \in 1..total /\ last + 1 - 1 = last
    BY <2>1
  <2>4. P[last + 1].index = EndAt(P, last)
    <3>1. PICK next \in 1..total : next = last + 1
      BY <2>3
    <3>2. P[next].index = EndAt(P, next - 1)
      BY <1>7
    <3>3. next - 1 = last
      BY <3>1
    <3>4. QED
      BY <3>1, <3>2, <3>3
  <2>5. EndAt(P, last) <= EndAt(P, first - 1)
    <3>1. last \in 0..total /\ first - 1 \in 0..total
      BY <2>1
    <3>2. CASE last = first - 1
      BY <1>19, <3>2
    <3>3. CASE last < first - 1
      <4>1. EndAt(P, last) < EndAt(P, first - 1) /\ EndAt(P, last) \in Nat
        BY <1>7, <3>1, <3>3
      <4>2. QED
        BY <1>19, <4>1
    <3>4. QED
      BY <2>1, <3>2, <3>3
  <2>6. EndAt(P, last) \in Nat
    BY <1>7
  <2>7. PICK a, b \in Nat : a = EndAt(P, last) /\ b = EndAt(P, first - 1)
    BY <1>19, <2>6
  <2>8. a > oldEnd /\ a <= b /\ (b < index \/ b = 0)
    BY <1>19, <2>2, <2>4, <2>5, <2>7
  <2>9. QED
    BY <1>16, <2>8
<1>21. last \in (first - 1)..total
  <2>1. CASE found = 0
    BY <1>13, <1>15, <1>17, <2>1
  <2>2. CASE found # 0
    BY <1>15, <1>17, <1>20, <2>2
  <2>3. QED
    BY <2>1, <2>2
<1>22. first > last => P = <<>>
  <2>1. CASE found = 0
    BY <1>14, <2>1
  <2>2. CASE found # 0
    BY <1>17, <1>20, <2>2
  <2>3. QED
    BY <2>1, <2>2
<1>23. PICK env : env = [enc |-> enc, before |-> before, units |-> units, types |-> types,
                         paras |-> P, index |-> index, removed |-> removed, added |-> added,
                         first |-> first, last |-> last]
  OBVIOUS
<1>24. /\ env.enc = enc /\ env.before = before /\ env.units = units /\ env.types = types
       /\ env.paras = P /\ env.index = index /\ env.removed = removed /\ env.added = added
       /\ env.first = first /\ env.last = last
  BY <1>23
<1>25. OldEnd(env) = oldEnd /\ NewEnd(env) = index + added /\ NewEnds(env) = EndsOf(enc, units)
       /\ RescanStart(env) = EndAt(P, first - 1)
  BY <1>16, <1>24 DEF OldEnd, NewEnd, NewEnds, RescanStart
<1>26. IsRescan(env)
  <2>1. /\ env.index \in Nat /\ env.removed \in Nat /\ env.added \in Nat
        /\ env.before \in Seq(CodeUnits) /\ env.units \in Seq(CodeUnits)
        /\ env.types = DetermineBidiTypes(env.enc, env.units)
        /\ env.paras \in Seq(Paragraph)
    BY <1>1, <1>24
  <2>2. OldEnd(env) <= Len(env.before) /\ Len(env.units) = Len(env.before) - env.removed + env.added
    <3>1. oldEnd <= Len(before) /\ Len(units) = Len(before) - removed + added
      BY <1>1, <1>2, <1>16
    <3>2. QED
      BY <1>24, <1>25, <3>1
  <2>3. IsTiling(EndsOf(env.enc, env.before), env.paras, Len(env.before))
    BY <1>24
  <2>4. /\ \A e \in Nat : e < env.index => (e \in EndsOf(env.enc, env.before) <=> e \in NewEnds(env))
        /\ \A e \in Nat : e > OldEnd(env) =>
             (e \in EndsOf(env.enc, env.before) <=> e + env.added - env.removed \in NewEnds(env))
    BY <1>3, <1>16, <1>24, <1>25
  <2>5. env.first \in 1..(Len(env.paras) + 1) /\ env.last \in (env.first - 1)..Len(env.paras)
    BY <1>2, <1>18, <1>21, <1>24
  <2>6. env.first > env.last => env.paras = <<>>
    BY <1>22, <1>24
  <2>7. \A k \in env.first..env.last : env.paras[k].index <= OldEnd(env)
    <3>1. \A k \in first..last : k \in 1..last
      BY <1>17, <1>18
    <3>2. QED
      BY <1>17, <1>24, <1>25, <3>1
  <2>8. env.last < Len(env.paras) => env.paras[env.last + 1].index > OldEnd(env)
    BY <1>2, <1>17, <1>24, <1>25
  <2>9. RescanStart(env) < env.index \/ RescanStart(env) = 0
    BY <1>19, <1>24, <1>25
  <2>10. QED
    BY <2>1, <2>2, <2>3, <2>4, <2>5, <2>6, <2>7, <2>8, <2>9 DEF IsRescan
<1>27. AffectedAt(D, index) = EndAt(P, first - 1)
  <2>1. CASE found = 0
    <3>1. size = 0 /\ first - 1 = 0 /\ index = 0
      <4>1. total = 0
        BY <1>13, <2>1
      <4>2. size = 0
        BY <1>7, <4>1 DEF EndAt
      <4>3. QED
        BY <1>12, <1>15, <2>1, <4>1, <4>2
    <3>2. {e \in D : e < index} = {}
      <4>1. ASSUME NEW e \in D PROVE ~(e < index)
        <5>1. e \in Nat
          BY <1>5
        <5>2. QED
          BY <3>1, <5>1
      <4>2. QED
        BY <4>1
    <3>3. AffectedAt(D, index) = 0
      BY <3>2 DEF AffectedAt
    <3>4. EndAt(P, first - 1) = 0
      BY <3>1 DEF EndAt
    <3>5. QED
      BY <3>3, <3>4
  <2>2. CASE found # 0
    <3>1. first = found /\ first \in 1..total /\ first - 1 \in 0..total
      BY <1>11, <1>15, <2>2
    <3>2. PICK from, to \in Nat : from = EndAt(P, first - 1) /\ to = EndAt(P, first)
      <4>1. first \in 0..total
        BY <3>1
      <4>2. QED
        BY <1>7, <3>1, <4>1
    <3>3. IsSegment(D, from, to)
      BY <1>7, <3>1, <3>2
    <3>4. from < index \/ from = 0
      BY <1>19, <3>2
    <3>5. index <= to
      <4>1. at < to
        BY <1>11, <2>2, <3>1, <3>2
      <4>2. QED
        BY <1>9, <4>1
    <3>6. from = 0 \/ from \in D
      <4>1. first = 1 \/ first - 1 \in 1..total
        BY <3>1
      <4>2. CASE first = 1
        BY <3>2, <4>2 DEF EndAt
      <4>3. CASE first - 1 \in 1..total
        BY <1>7, <3>2, <4>3
      <4>4. QED
        BY <4>1, <4>2, <4>3
    <3>7. QED
      BY <1>5, <3>2, <3>3, <3>4, <3>5, <3>6, AffectedIsSegmentStart
  <2>3. QED
    BY <2>1, <2>2
<1>28. TailIsKept(env)
  <2> DEFINE new == {e \in EndsOf(enc, units) : EndAt(P, first - 1) < e /\ e <= index + added}
             old == {e \in EndsOf(enc, before) : EndAt(P, first - 1) < e /\ e <= index + removed}
  <2>1. (chunk # <<>> /\ index + added < Len(units) /\ index + added \in EndsOf(enc, units)) =>
          Cardinality(new) > Cardinality(old)
    BY <1>2, <1>4, <1>27 DEF TailStays
  <2>2. added > 0 => chunk # <<>>
    BY <1>2
  <2>3. /\ new = {e \in NewEnds(env) : RescanStart(env) < e /\ e <= NewEnd(env)}
        /\ old = {e \in EndsOf(env.enc, env.before) : RescanStart(env) < e /\ e <= OldEnd(env)}
    BY <1>16, <1>24, <1>25
  <2> HIDE DEF new, old
  <2>4. QED
    BY <1>24, <1>25, <2>1, <2>2, <2>3 DEF TailIsKept
<1>29. /\ found = GetCodeUnitParagraphIndex(env.paras, AtLeastZero(env.index - 1))
       /\ found \in 0..Len(env.paras)
       /\ env.first = IF found = 0 THEN Len(env.paras) + 1 ELSE found
       /\ found = 0 => env.paras = <<>>
       /\ R = UpdateParagraphsForTextReplacement(env.paras, env.units, env.types,
                                                 env.index, env.removed, env.added)
  BY <1>2, <1>8, <1>10, <1>11, <1>14, <1>15, <1>24
<1>30. /\ R \in Seq(Paragraph)
       /\ IsTiling(NewEnds(env), R, Len(env.units))
       /\ \A k \in 1..Len(R) :
            \/ R[k].needsReanalysis
            \/ \E j \in 1..Len(env.paras) :
                 IsKept(env.index, env.removed, env.added, R[k], env.paras[j])
  BY <1>26, <1>28, <1>29, RescanTiles
<1>31. QED
  BY <1>2, <1>24, <1>25, <1>30

-----------------------------------------------------------------------------
(* Analysing the dirty paragraphs, and the clean ones that an edit keeps.  *)

(* n code units of a, after from, are those of b after start.              *)
Agree(a, from, b, start, n) == \A i \in 1..n : a[from + i] = b[start + i]

(* Equal code units make equal slices.                                     *)
LEMMA SameSlice ==
  ASSUME NEW a \in Seq(CodeUnits), NEW b \in Seq(CodeUnits),
         NEW from \in Nat, NEW to \in Nat, NEW start \in Nat, NEW end \in Nat,
         NEW n \in Nat, to = from + n, end = start + n, to <= Len(a), end <= Len(b),
         Agree(a, from, b, start, n)
  PROVE  /\ Slice(a, from, to) \in Seq(CodeUnits)
         /\ Slice(a, from, to) = Slice(b, start, end)
<1>1. PICK s, t : s = Slice(a, from, to) /\ t = Slice(b, start, end)
  OBVIOUS
<1>2. n = to - from /\ n = end - start
  OBVIOUS
<1>3. s \in Seq(CodeUnits) /\ Len(s) = n /\ \A i \in 1..n : s[i] = a[from + i]
  BY <1>1, <1>2 DEF Slice
<1>4. start <= end
  BY <1>2
<1>5. t \in Seq(CodeUnits) /\ Len(t) = n /\ \A i \in 1..n : t[i] = b[start + i]
  BY <1>1, <1>2, <1>4 DEF Slice
<1>6. \A i \in 1..Len(s) : s[i] = t[i]
  <2>1. \A i \in 1..n : a[from + i] = b[start + i]
    BY <1>2 DEF Agree
  <2>2. QED
    BY <1>3, <1>5, <2>1
<1>7. s = t
  BY <1>3, <1>5, <1>6, SeqEqual
<1>8. QED
  BY <1>1, <1>3, <1>7

(* An edit leaves the code units before it and after it as they were.      *)
LEMMA SliceAway ==
  ASSUME NEW before \in Seq(CodeUnits), NEW chunk \in Seq(CodeUnits),
         NEW index \in Nat, NEW removed \in Nat, index + removed <= Len(before),
         NEW units, units = Splice(before, index, removed, chunk),
         NEW from \in Nat, NEW to \in Nat, from <= to, to <= Len(before),
         NEW start, NEW end,
         \/ to <= index /\ start = from /\ end = to
         \/ from >= index + removed /\ start = from + Len(chunk) - removed
              /\ end = to + Len(chunk) - removed
  PROVE  Slice(units, start, end) = Slice(before, from, to)
<1>1. units \in Seq(CodeUnits) /\ IsSplice(units, before, index, removed, chunk)
  BY SpliceProperties
<1>2. PICK n, m, added \in Nat : n = Len(before) /\ m = Len(units) /\ added = Len(chunk)
  BY <1>1
<1>3. /\ m = n - removed + added
      /\ \A i \in 1..m : i <= index => units[i] = before[i]
      /\ \A i \in 1..m : index + added < i => units[i] = before[i - added + removed]
  BY <1>1, <1>2 DEF IsSplice
<1>4. index + removed <= n /\ to <= n
  BY <1>2
<1>5. CASE to <= index /\ start = from /\ end = to
  <2>1. \A i \in 1..(to - from) : from + i \in 1..m /\ from + i <= index
    BY <1>3, <1>4, <1>5
  <2>2. Agree(units, from, before, from, to - from)
    BY <1>3, <2>1 DEF Agree
  <2>3. to <= Len(units)
    BY <1>2, <1>3, <1>4, <1>5
  <2>4. PICK k \in Nat : k = to - from
    OBVIOUS
  <2>5. to = from + k /\ Agree(units, from, before, from, k)
    BY <2>2, <2>4
  <2>6. Slice(units, from, to) = Slice(before, from, to)
    BY <1>1, <2>3, <2>5, SameSlice
  <2>7. QED
    BY <1>5, <2>6
<1>6. CASE from >= index + removed /\ start = from + added - removed /\ end = to + added - removed
  <2>1. start \in Nat /\ end \in Nat /\ start <= end /\ end <= m /\ to - from = end - start
    <3>1. m = n - removed + added
      BY <1>3
    <3>2. QED
      BY <1>4, <1>6, <3>1
  <2>2. ASSUME NEW i \in 1..(end - start) PROVE units[start + i] = before[from + i]
    <3>1. start + i \in 1..m /\ index + added < start + i
      BY <1>6, <2>1
    <3>2. PICK j \in 1..m : j = start + i /\ index + added < j
      BY <3>1
    <3>3. units[j] = before[j - added + removed]
      BY <1>3, <3>2
    <3>4. j - added + removed = from + i
      BY <1>6, <3>2
    <3>5. QED
      BY <3>2, <3>3, <3>4
  <2>3. end <= Len(units)
    BY <1>2, <2>1
  <2>4. Agree(units, start, before, from, end - start)
    BY <2>2 DEF Agree
  <2>5. PICK first, last \in Nat : first = start /\ last = end
    BY <2>1
  <2>6. PICK k \in Nat : k = end - start
    BY <2>1
  <2>6a. /\ last = first + k /\ to = from + k /\ last <= Len(units)
        /\ Agree(units, first, before, from, k)
    BY <2>1, <2>3, <2>4, <2>5, <2>6
  <2>7. Slice(units, first, last) = Slice(before, from, to)
    BY <1>1, <2>6a, SameSlice
  <2>8. QED
    BY <2>5, <2>7
<1>7. QED
  BY <1>2, <1>5, <1>6

(* A paragraph list in order: it tiles the text at its ends, and a clean   *)
(* paragraph was analysed from the code units that it holds.               *)
IsSegmentation(enc, units, paras) ==
  /\ paras \in Seq(Paragraph)
  /\ IsTiling(EndsOf(enc, units), paras, Len(units))
  /\ \A k \in 1..Len(paras) : ~paras[k].needsReanalysis =>
       paras[k].analysis.content = Slice(units, paras[k].index, ParagraphEnd(paras[k]))

(* A tile lies in the text, and starts where the text does or at an end.   *)
LEMMA TileProperties ==
  ASSUME NEW enc, NEW units \in Seq(CodeUnits), NEW P, IsSegmentation(enc, units, P),
         NEW k \in 1..Len(P), NEW from, from = P[k].index, NEW to, to = ParagraphEnd(P[k])
  PROVE  /\ P[k] \in Paragraph
         /\ from \in Nat /\ to \in Nat /\ from < to /\ to <= Len(units)
         /\ from = 0 \/ from \in EndsOf(enc, units)
         /\ IsSegment(EndsOf(enc, units), from, to)
<1>1. P \in Seq(Paragraph)
  BY DEF IsSegmentation
<1>2. P[k] \in Paragraph /\ from \in Nat /\ to \in Nat
  BY <1>1, ParagraphTypes
<1>3. from = EndAt(P, k - 1) /\ IsSegment(EndsOf(enc, units), from, to)
  BY DEF IsSegmentation, IsTiling
<1>4. from < to /\ to \in EndsOf(enc, units)
  BY <1>3 DEF IsSegment
<1>5. to <= Len(units)
  BY <1>4, EndsProperties
<1>6. from = 0 \/ from \in EndsOf(enc, units)
  <2>1. CASE k = 1
    <3>1. k - 1 = 0
      BY <2>1
    <3>2. QED
      BY <1>3, <3>1 DEF EndAt
  <2>2. CASE k # 1
    <3>1. k - 1 \in 1..Len(P)
      BY <1>1, <2>2
    <3>2. EndAt(P, k - 1) = ParagraphEnd(P[k - 1])
      BY <3>1 DEF EndAt
    <3>3. ParagraphEnd(P[k - 1]) \in EndsOf(enc, units)
      BY <3>1 DEF IsSegmentation, IsTiling, IsSegment
    <3>4. QED
      BY <1>3, <3>2, <3>3
  <2>3. QED
    BY <2>1, <2>2
<1>7. QED
  BY <1>2, <1>3, <1>4, <1>5, <1>6

(* Analysing a paragraph reads exactly the code units that it holds.       *)
LEMMA AnalyseProperties ==
  ASSUME NEW enc, NEW units \in Seq(CodeUnits), NEW types, types = DetermineBidiTypes(enc, units),
         NEW P, IsSegmentation(enc, units, P), NEW k \in 1..Len(P),
         NEW r, r = Analyse(units, types, P[k])
  PROVE  /\ r \in Paragraph /\ r.index = P[k].index /\ ParagraphEnd(r) = ParagraphEnd(P[k])
         /\ ~r.needsReanalysis
         /\ r.analysis.content = Slice(units, r.index, ParagraphEnd(r))
<1>1. PICK p \in Paragraph, from, to, length \in Nat :
        p = P[k] /\ from = p.index /\ to = ParagraphEnd(p) /\ length = p.length
  <2>1. P[k] \in Paragraph
    BY TileProperties
  <2>2. QED
    BY <2>1, ParagraphTypes
<1>2. /\ from < to /\ to <= Len(units)
      /\ from = 0 \/ from \in EndsOf(enc, units)
      /\ IsSegment(EndsOf(enc, units), from, to)
  BY <1>1, TileProperties
<1>3. to = from + length
  BY <1>1 DEF ParagraphEnd
<1>4. PICK b : b = GetParagraphBoundary(units, types, from)
  OBVIOUS
<1>5. from < Len(units)
  BY <1>2
<1>6. b.length \in Nat /\ IsSegment(EndsOf(enc, units), from, from + b.length)
  BY <1>2, <1>4, <1>5, BoundaryIsNextEnd
<1>7. PICK n \in Nat : n = b.length
  BY <1>6
<1>8. from + n = to
  <2>1. /\ from < to /\ to \in EndsOf(enc, units)
        /\ \A e \in EndsOf(enc, units) : e <= from \/ to <= e
    BY <1>2 DEF IsSegment
  <2>2. /\ from < from + n /\ from + n \in EndsOf(enc, units)
        /\ \A e \in EndsOf(enc, units) : e <= from \/ from + n <= e
    BY <1>6, <1>7 DEF IsSegment
  <2>3. from + n <= from \/ to <= from + n
    BY <2>1, <2>2
  <2>4. to <= from \/ from + n <= to
    BY <2>1, <2>2
  <2>5. QED
    BY <2>1, <2>2, <2>3, <2>4
<1>9. DetermineBoundary(units, types, from, p.length) = length
  <2>1. b.length = p.length
    BY <1>1, <1>3, <1>7, <1>8, SMTT(30)
  <2>2. QED
    BY <1>1, <1>4, <2>1 DEF DetermineBoundary
<1>10. PICK content : content = Slice(units, from, to)
  OBVIOUS
<1>11. content \in Seq(CodeUnits)
  <2>1. Agree(units, from, units, from, length)
    BY DEF Agree
  <2>2. QED
    BY <1>2, <1>3, <1>10, <2>1, SameSlice
<1>12. r = [p EXCEPT !.needsReanalysis = FALSE,
                     !.analysis = [offset |-> from, content |-> content]]
  BY <1>1, <1>3, <1>4, <1>9, <1>10 DEF Analyse
<1>13. /\ r \in Paragraph
       /\ r.index = from /\ r.length = length /\ r.needsReanalysis = FALSE
       /\ r.analysis.content = content
  <2>1. [offset |-> from, content |-> content] \in [offset : Int, content : Seq(CodeUnits)]
    BY <1>11
  <2>2. PICK a : a = [offset |-> from, content |-> content]
    OBVIOUS
  <2>3. r = [p EXCEPT !.needsReanalysis = FALSE, !.analysis = a]
    BY <1>12, <2>2
  <2>4. r \in Paragraph
    BY <2>1, <2>2, <2>3 DEF Paragraph
  <2>5. /\ r.index = p.index /\ r.length = p.length /\ r.needsReanalysis = FALSE
        /\ r.analysis = a
    BY <2>3 DEF Paragraph
  <2>6. a.content = content
    BY <2>2
  <2>7. QED
    BY <1>1, <2>4, <2>5, <2>6
<1>14. ParagraphEnd(r) = to
  BY <1>3, <1>13 DEF ParagraphEnd
<1>15. QED
  BY <1>1, <1>10, <1>13, <1>14

(* A list with the same bounds tiles the text as well.                     *)
LEMMA SameTiling ==
  ASSUME NEW ends, NEW n, NEW P \in Seq(Paragraph), NEW R \in Seq(Paragraph),
         IsTiling(ends, P, n), Len(R) = Len(P),
         \A k \in 1..Len(P) : R[k].index = P[k].index /\ ParagraphEnd(R[k]) = ParagraphEnd(P[k])
  PROVE  IsTiling(ends, R, n)
<1>1. \A k \in 0..Len(P) : EndAt(R, k) = EndAt(P, k)
  <2>1. ASSUME NEW k \in 0..Len(P), k # 0 PROVE EndAt(R, k) = EndAt(P, k)
    <3>1. k \in 1..Len(P)
      BY <2>1
    <3>2. QED
      BY <2>1, <3>1 DEF EndAt
  <2>2. EndAt(R, 0) = EndAt(P, 0)
    BY DEF EndAt
  <2>3. QED
    BY <2>1, <2>2
<1>2. ASSUME NEW k \in 1..Len(P)
      PROVE  R[k].index = EndAt(R, k - 1) /\ IsSegment(ends, R[k].index, ParagraphEnd(R[k]))
  <2>1. k - 1 \in 0..Len(P)
    OBVIOUS
  <2>2. P[k].index = EndAt(P, k - 1) /\ IsSegment(ends, P[k].index, ParagraphEnd(P[k]))
    BY DEF IsTiling
  <2>3. QED
    BY <1>1, <2>1, <2>2
<1>3. EndAt(R, Len(R)) = n
  <2>1. Len(P) \in 0..Len(P)
    OBVIOUS
  <2>2. EndAt(P, Len(P)) = n
    BY DEF IsTiling
  <2>3. QED
    BY <1>1, <2>1, <2>2
<1>4. QED
  BY <1>2, <1>3 DEF IsTiling

(* AnalyzeDirtyParagraphs leaves the list in order, and all of it clean.   *)
LEMMA AnalyzeKeeps ==
  ASSUME NEW enc, NEW units \in Seq(CodeUnits), NEW types, types = DetermineBidiTypes(enc, units),
         NEW P, IsSegmentation(enc, units, P),
         NEW R, R = AnalyzeDirtyParagraphs(units, types, P)
  PROVE  /\ IsSegmentation(enc, units, R)
         /\ \A k \in 1..Len(R) : ~R[k].needsReanalysis
<1>1. P \in Seq(Paragraph) /\ IsTiling(EndsOf(enc, units), P, Len(units))
  BY DEF IsSegmentation
<1>2. PICK n \in Nat : n = Len(P)
  BY <1>1
<1>3. R = [k \in 1..n |-> IF P[k].needsReanalysis THEN Analyse(units, types, P[k]) ELSE P[k]]
  BY <1>2 DEF AnalyzeDirtyParagraphs
<1>4. ASSUME NEW k \in 1..n
      PROVE  /\ R[k] \in Paragraph /\ R[k].index = P[k].index
             /\ ParagraphEnd(R[k]) = ParagraphEnd(P[k])
             /\ ~R[k].needsReanalysis
             /\ R[k].analysis.content = Slice(units, R[k].index, ParagraphEnd(R[k]))
  <2>1. CASE P[k].needsReanalysis
    <3>1. R[k] = Analyse(units, types, P[k])
      BY <1>3, <2>1
    <3>2. QED
      BY <1>2, <3>1, AnalyseProperties
  <2>2. CASE ~P[k].needsReanalysis
    <3>1. R[k] = P[k] /\ P[k] \in Paragraph
      BY <1>1, <1>2, <1>3, <2>2
    <3>2. P[k].analysis.content = Slice(units, P[k].index, ParagraphEnd(P[k]))
      BY <1>2, <2>2 DEF IsSegmentation
    <3>3. QED
      BY <2>2, <3>1, <3>2
  <2>3. QED
    BY <2>1, <2>2
<1>5. R \in Seq(Paragraph) /\ Len(R) = n
  <2>1. R \in [1..n -> Paragraph]
    BY <1>3, <1>4
  <2>2. QED
    BY <2>1, FunctionIsSequence
<1>6. IsTiling(EndsOf(enc, units), R, Len(units))
  BY <1>1, <1>2, <1>4, <1>5, SameTiling
<1>7. QED
  BY <1>4, <1>5, <1>6 DEF IsSegmentation

(* After the update every clean paragraph still has the code units that it *)
(* was analysed from.                                                      *)
LEMMA UpdateKeeps ==
  ASSUME NEW enc, NEW before \in Seq(CodeUnits), NEW chunk \in Seq(CodeUnits),
         NEW index \in Nat, NEW removed \in Nat, index + removed <= Len(before),
         NEW P, IsSegmentation(enc, before, P),
         TailStays(enc, before, index, removed, chunk),
         SeparatorStays(enc, before, index, removed, chunk),
         NEW units, units = Splice(before, index, removed, chunk),
         NEW types, types = DetermineBidiTypes(enc, units),
         NEW R, R = UpdateParagraphsForTextReplacement(P, units, types, index, removed, Len(chunk))
  PROVE  IsSegmentation(enc, units, R)
<1>1. P \in Seq(Paragraph) /\ IsTiling(EndsOf(enc, before), P, Len(before))
  BY DEF IsSegmentation
<1>2. /\ R \in Seq(Paragraph)
      /\ IsTiling(EndsOf(enc, units), R, Len(units))
      /\ \A k \in 1..Len(R) :
           \/ R[k].needsReanalysis
           \/ \E j \in 1..Len(P) : IsKept(index, removed, Len(chunk), R[k], P[j])
  BY <1>1, UpdateTiles
<1>3. ASSUME NEW k \in 1..Len(R), ~R[k].needsReanalysis
      PROVE  R[k].analysis.content = Slice(units, R[k].index, ParagraphEnd(R[k]))
  <2>1. PICK j \in 1..Len(P) : IsKept(index, removed, Len(chunk), R[k], P[j])
    BY <1>2, <1>3
  <2>2. PICK p, r : p = P[j] /\ r = R[k]
    OBVIOUS
  <2>3. IsKept(index, removed, Len(chunk), r, p)
    BY <2>1, <2>2
  <2>4. /\ r.needsReanalysis = p.needsReanalysis /\ r.analysis = p.analysis /\ r.length = p.length
        /\ \/ r.index = p.index /\ ParagraphEnd(p) <= index
           \/ r.index = p.index + Len(chunk) - removed /\ p.index >= index + removed
    BY <2>3 DEF IsKept
  <2>5. p.analysis.content = Slice(before, p.index, ParagraphEnd(p))
    BY <1>3, <2>2, <2>4 DEF IsSegmentation
  <2>6. PICK from, to, length, added \in Nat :
          from = p.index /\ to = ParagraphEnd(p) /\ length = p.length /\ added = Len(chunk)
    <3>1. p \in Paragraph
      BY <1>1, <2>2
    <3>2. QED
      BY <3>1, ParagraphTypes
  <2>7. from < to /\ to <= Len(before)
    BY <2>2, <2>6, TileProperties
  <2>8. to = from + length
    BY <2>6 DEF ParagraphEnd
  <2>9. PICK start, end : start = r.index /\ end = ParagraphEnd(r)
    OBVIOUS
  <2>10. end = start + length
    BY <2>4, <2>6, <2>9 DEF ParagraphEnd
  <2>11. \/ to <= index /\ start = from
         \/ from >= index + removed /\ start = from + added - removed
    BY <2>4, <2>6, <2>9
  <2>12. \/ to <= index /\ start = from /\ end = to
         \/ from >= index + removed /\ start = from + added - removed
              /\ end = to + added - removed
    BY <2>8, <2>10, <2>11
  <2>13. from <= to
    BY <2>7
  <2>14. Slice(units, start, end) = Slice(before, from, to)
    BY <2>6, <2>7, <2>12, <2>13, SliceAway, SMTT(30)
  <2>15. QED
    BY <2>2, <2>4, <2>5, <2>6, <2>9, <2>14
<1>4. QED
  BY <1>2, <1>3 DEF IsSegmentation

-----------------------------------------------------------------------------
(* The theorems.                                                           *)

(* The inductive invariant of the edits that keep the tail: the types are  *)
(* current, the paragraphs tile the text, each clean one was analysed from *)
(* what it holds, and none is dirty outside a batch.                       *)
SegmentedIInv ==
  /\ IInv
  /\ IsSegmentation(encoding, codeUnits, paragraphs)
  /\ AnalysedOutsideBatch

(* The empty text has no paragraphs.                                       *)
LEMMA InitSegmented == Init => SegmentedIInv
<1> SUFFICES ASSUME Init PROVE SegmentedIInv
  OBVIOUS
<1>1. IInv
  BY InitIInv
<1>2. codeUnits = <<>> /\ paragraphs = <<>>
  BY DEF Init
<1>3. Len(codeUnits) = 0 /\ Len(paragraphs) = 0 /\ paragraphs \in Seq(Paragraph)
  BY <1>2
<1>4. IsTiling(EndsOf(encoding, codeUnits), paragraphs, Len(codeUnits))
  BY <1>3 DEF IsTiling, EndAt
<1>5. IsSegmentation(encoding, codeUnits, paragraphs)
  BY <1>3, <1>4 DEF IsSegmentation
<1>6. AnalysedOutsideBatch
  BY <1>3 DEF AnalysedOutsideBatch
<1>7. QED
  BY <1>1, <1>5, <1>6 DEF SegmentedIInv

(* The restricted edits are edits.                                         *)
LEMMA TailKeepingIsNext == [TailKeepingNext]_vars => [Next]_vars
  BY DEF TailKeepingNext, Next, TailKeepingEdit, Edit

(* Every call keeps the invariant.                                         *)
LEMMA NextSegmented == SegmentedIInv /\ [TailKeepingNext]_vars => SegmentedIInv'
<1> SUFFICES ASSUME SegmentedIInv, [TailKeepingNext]_vars PROVE SegmentedIInv'
  OBVIOUS
<1>1. IInv /\ IInv'
  BY TailKeepingIsNext, NextIInv DEF SegmentedIInv
<1>2. /\ codeUnits \in Seq(CodeUnits) /\ codeUnits' \in Seq(CodeUnits)
      /\ bidiTypes = DetermineBidiTypes(encoding, codeUnits)
      /\ bidiTypes' = DetermineBidiTypes(encoding', codeUnits')
  BY <1>1 DEF IInv, TypeOK, BidiTypesCurrent
<1>3. IsSegmentation(encoding, codeUnits, paragraphs) /\ AnalysedOutsideBatch
  BY DEF SegmentedIInv
<1>4. /\ IsSegmentation(encoding, codeUnits, AnalyzeDirtyParagraphs(codeUnits, bidiTypes, paragraphs))
      /\ \A k \in 1..Len(AnalyzeDirtyParagraphs(codeUnits, bidiTypes, paragraphs)) :
           ~AnalyzeDirtyParagraphs(codeUnits, bidiTypes, paragraphs)[k].needsReanalysis
  BY <1>2, <1>3, AnalyzeKeeps
<1>5. CASE TailKeepingEdit
  <2>1. PICK index \in 0..Len(codeUnits), removed \in 0..Len(codeUnits), chunk \in Chunks :
          /\ IsEdit(index, removed, chunk)
          /\ KeepsTail(index, removed, chunk)
          /\ KeepsSeparator(index, removed, chunk)
          /\ ReplaceCodeUnits(index, removed, chunk)
    BY <1>5 DEF TailKeepingEdit
  <2>2. /\ index \in Nat /\ removed \in Nat /\ chunk \in Seq(CodeUnits)
        /\ index + removed <= Len(codeUnits)
    BY <1>2, <2>1, ConstantsAssumption DEF IsEdit
  <2>3. PICK units, types, paras :
          /\ units = Splice(codeUnits, index, removed, chunk)
          /\ types = ReplaceBidiTypes(encoding, units, bidiTypes, index, removed, Len(chunk))
          /\ paras = UpdateParagraphsForTextReplacement(paragraphs, units, types,
                                                        index, removed, Len(chunk))
    OBVIOUS
  <2>4. /\ codeUnits' = units /\ bidiTypes' = types /\ encoding' = encoding
        /\ isEditing' = isEditing
        /\ paragraphs' = IF isEditing THEN paras ELSE AnalyzeDirtyParagraphs(units, types, paras)
    BY <2>1, <2>3 DEF ReplaceCodeUnits
  <2>5. units \in Seq(CodeUnits) /\ types = DetermineBidiTypes(encoding, units)
    BY <1>2, <2>4
  <2>6. TailStays(encoding, codeUnits, index, removed, chunk)
    BY <2>1 DEF TailStays, KeepsTail, AffectedAt, AffectedStart, Ends, EndsOf, IsParagraphEnd, IsEndOf
  <2>7. SeparatorStays(encoding, codeUnits, index, removed, chunk)
    BY <2>1 DEF SeparatorStays, KeepsSeparator
  <2>8. IsSegmentation(encoding, units, paras)
    BY <1>2, <1>3, <2>2, <2>3, <2>5, <2>6, <2>7, UpdateKeeps
  <2>9. CASE isEditing
    BY <1>1, <2>4, <2>8, <2>9 DEF SegmentedIInv, AnalysedOutsideBatch
  <2>10. CASE ~isEditing
    <3>1. /\ IsSegmentation(encoding, units, paragraphs')
          /\ \A k \in 1..Len(paragraphs') : ~paragraphs'[k].needsReanalysis
      BY <2>4, <2>5, <2>8, <2>10, AnalyzeKeeps
    <3>2. QED
      BY <1>1, <2>4, <3>1 DEF SegmentedIInv, AnalysedOutsideBatch
  <2>11. QED
    BY <2>9, <2>10
<1>6. CASE BeginEditing
  BY <1>1, <1>3, <1>6 DEF BeginEditing, SegmentedIInv, AnalysedOutsideBatch
<1>7. CASE EndEditing
  BY <1>1, <1>4, <1>7 DEF EndEditing, SegmentedIInv, AnalysedOutsideBatch
<1>8. ASSUME NEW mutable \in BOOLEAN, CreateCopy(mutable) PROVE SegmentedIInv'
  BY <1>1, <1>4, <1>8 DEF CreateCopy, SegmentedIInv, AnalysedOutsideBatch
<1>9. CASE UNCHANGED vars
  BY <1>1, <1>3, <1>9 DEF vars, SegmentedIInv, AnalysedOutsideBatch
<1>10. QED
  BY <1>5, <1>6, <1>7, <1>8, <1>9 DEF TailKeepingNext, Batch

(* The invariant holds in every state.                                     *)
LEMMA SpecSegmentedIInv == TailKeepingSpec => []SegmentedIInv
  BY InitSegmented, NextSegmented, PTL DEF TailKeepingSpec

(* The incremental update leaves the paragraph list as rule P1 segments    *)
(* the text, for texts, buffers and edits of any size that keep the tail.  *)
THEOREM SpecSegmented == TailKeepingSpec => []Segmented
<1>1. SegmentedIInv => Segmented
  <2> SUFFICES ASSUME SegmentedIInv PROVE Segmented
    OBVIOUS
  <2>1. codeUnits \in Seq(CodeUnits) /\ IsSegmentation(encoding, codeUnits, paragraphs)
    BY DEF SegmentedIInv, IInv, TypeOK
  <2>2. PICK E, n, P : E = EndsOf(encoding, codeUnits) /\ n = Len(codeUnits) /\ P = paragraphs
    OBVIOUS
  <2>3. Ends(codeUnits) = E
    BY <2>2 DEF Ends, EndsOf, IsParagraphEnd, IsEndOf
  <2>4. n \in Nat /\ E \in SUBSET Nat /\ {e \in E : 0 < e /\ e <= n} = E
    <3>1. \A e \in E : e \in Nat /\ 1 <= e /\ e <= n
      BY <2>1, <2>2, EndsProperties
    <3>2. n \in Nat
      BY <2>1, <2>2
    <3>3. QED
      BY <3>1, <3>2
  <2>5. P \in Seq(Paragraph) /\ IsTiling(E, P, n)
    BY <2>1, <2>2 DEF IsSegmentation
  <2>6. /\ {ParagraphEnd(P[k]) : k \in 1..Len(P)} = E
        /\ Cardinality(E) = Len(P)
    <3>1. n \in Nat /\ E \in SUBSET Nat
      BY <2>4
    <3>2. {ParagraphEnd(P[k]) : k \in 1..Len(P)} = {e \in E : 0 < e /\ e <= n}
      BY <2>5, <3>1, TilingProperties, Zenon
    <3>3. Cardinality({e \in E : 0 < e /\ e <= n}) = Len(P)
      BY <2>5, <3>1, TilingProperties, Zenon
    <3>4. QED
      BY <2>4, <3>2, <3>3
  <2>7. \A k \in 1..Len(P) : P[k].index = IF k = 1 THEN 0 ELSE ParagraphEnd(P[k - 1])
    <3>1. ASSUME NEW k \in 1..Len(P)
          PROVE  P[k].index = IF k = 1 THEN 0 ELSE ParagraphEnd(P[k - 1])
      <4>1. P[k].index = EndAt(P, k - 1)
        BY <2>5 DEF IsTiling
      <4>2. k - 1 = 0 <=> k = 1
        OBVIOUS
      <4>3. QED
        BY <4>1, <4>2 DEF EndAt
    <3>2. QED
      BY <3>1
  <2>8. QED
    BY <2>2, <2>3, <2>6, <2>7 DEF Segmented
<1>2. QED
  BY <1>1, SpecSegmentedIInv, PTL

(* No edit, batch or copy leaves a clean paragraph whose analysis was made *)
(* from other code units than it holds.                                    *)
THEOREM SpecCleanIsCurrent == TailKeepingSpec => []CleanIsCurrent
<1>1. SegmentedIInv => CleanIsCurrent
  BY DEF SegmentedIInv, IsSegmentation, CleanIsCurrent
<1>2. QED
  BY <1>1, SpecSegmentedIInv, PTL

(* Outside a batch no paragraph waits for its analysis.                    *)
THEOREM SpecAnalysedOutsideBatch == TailKeepingSpec => []AnalysedOutsideBatch
<1>1. SegmentedIInv => AnalysedOutsideBatch
  BY DEF SegmentedIInv
<1>2. QED
  BY <1>1, SpecSegmentedIInv, PTL
=============================================================================
