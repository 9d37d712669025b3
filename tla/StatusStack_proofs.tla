-------------------------- MODULE StatusStack_proofs --------------------------
(***************************************************************************)
(* StatusStack implements Stack whatever the size of its embedded list,    *)
(* the bound on its height and the elements.                               *)
(***************************************************************************)
EXTENDS StatusStack, TLAPS

(* The lists of a chain hold consecutive runs of the stack's elements: each*)
(* is not empty, starts where the one before ends, and comes after all of  *)
(* the earlier ones, so that every element has its place.                  *)
IsChain(chain) ==
  /\ \A i \in 1..Len(chain) : Len(chain[i]) >= 1
  /\ \A i \in 1..(Len(chain) - 1) :
       Base(chain, i + 1) = Base(chain, i) + Len(chain[i])
  /\ \A i, j \in 1..Len(chain) : i < j =>
       Base(chain, i) + Len(chain[i]) <= Base(chain, j)
  /\ \A k \in 1..(Base(chain, Len(chain)) + Len(chain[Len(chain)])) :
       \E i \in 1..Len(chain) : IsIn(chain, k, i)

(* count tells where the top is.                                           *)
Located ==
  /\ count = Base(lists, peekList) + peekTop + 1
  /\ peekTop = InvalidIndex => peekList = 1

IInv == TypeOK /\ IsChain(lists) /\ Located

Chains == Seq(Seq(Elements)) \ {<<>>}

LEMMA BaseType ==
  ASSUME NEW chain \in Chains, NEW i \in 1..Len(chain)
  PROVE  Base(chain, i) \in Nat /\ Len(chain[i]) \in Nat /\ chain[i] \in Seq(Elements)
  BY DEF Base, Chains

LEMMA ListIsUnique ==
  ASSUME NEW chain \in Chains, IsChain(chain), NEW k \in Nat,
         NEW i \in 1..Len(chain), IsIn(chain, k, i)
  PROVE  ListOf(chain, k) = i
<1>1. ASSUME NEW j \in 1..Len(chain), IsIn(chain, k, j) PROVE j = i
  <2>1. /\ Base(chain, i) \in Nat /\ Len(chain[i]) \in Nat
        /\ Base(chain, j) \in Nat /\ Len(chain[j]) \in Nat
    BY BaseType
  <2>2. CASE i < j
    <3>1. Base(chain, i) + Len(chain[i]) <= Base(chain, j)
      BY <2>2 DEF IsChain
    <3>2. QED
      BY <1>1, <2>1, <3>1 DEF IsIn
  <2>3. CASE j < i
    <3>1. Base(chain, j) + Len(chain[j]) <= Base(chain, i)
      BY <2>3 DEF IsChain
    <3>2. QED
      BY <1>1, <2>1, <3>1 DEF IsIn
  <2>4. QED
    BY <2>2, <2>3 DEF Chains
<1>2. QED
  BY <1>1 DEF ListOf

(* How many elements the lists up to the last one have room for.           *)
Room(chain) == Base(chain, Len(chain)) + Len(chain[Len(chain)])

LEMMA RoomType == ASSUME NEW chain \in Chains PROVE Room(chain) \in Nat
<1>1. Len(chain) \in 1..Len(chain)
  BY DEF Chains
<1>2. QED
  BY <1>1, BaseType DEF Room

LEMMA ListExists ==
  ASSUME NEW chain \in Chains, IsChain(chain), NEW k \in 1..Room(chain)
  PROVE  /\ ListOf(chain, k) \in 1..Len(chain)
         /\ IsIn(chain, k, ListOf(chain, k))
         /\ k - Base(chain, ListOf(chain, k)) \in 1..Len(chain[ListOf(chain, k)])
<1>1. PICK i \in 1..Len(chain) : IsIn(chain, k, i)
  BY DEF IsChain, Room
<1>2. Room(chain) \in Nat
  BY RoomType
<1>3. k \in Nat
  BY <1>2
<1>4. ListOf(chain, k) = i
  BY <1>1, <1>3, ListIsUnique
<1>5. Base(chain, i) \in Nat /\ Len(chain[i]) \in Nat
  BY BaseType
<1>6. QED
  BY <1>1, <1>3, <1>4, <1>5 DEF IsIn

LEMMA PrefixType ==
  ASSUME NEW chain \in Chains, IsChain(chain), NEW n \in Nat, n <= Room(chain)
  PROVE  Prefix(chain, n) \in Seq(Elements) /\ Len(Prefix(chain, n)) = n
<1>1. Room(chain) \in Nat
  BY RoomType
<1>2. ASSUME NEW k \in 1..n
      PROVE  chain[ListOf(chain, k)][k - Base(chain, ListOf(chain, k))] \in Elements
  <2>1. k \in 1..Room(chain)
    BY <1>1
  <2>2. PICK i \in 1..Len(chain) : i = ListOf(chain, k) /\ k - Base(chain, i) \in 1..Len(chain[i])
    BY <2>1, ListExists
  <2>3. chain[i] \in Seq(Elements)
    BY BaseType
  <2>4. QED
    BY <2>2, <2>3
<1>3. Prefix(chain, n) \in [1..n -> Elements]
  BY <1>2 DEF Prefix
<1>4. QED
  BY <1>3

(* Two chains of the same shape put each element in the same place.        *)
SameShape(chain, other) ==
  /\ Len(other) = Len(chain)
  /\ \A i \in 1..Len(chain) : Len(other[i]) = Len(chain[i])

LEMMA ShapeIsChain ==
  ASSUME NEW chain \in Chains, IsChain(chain), NEW other \in Chains, SameShape(chain, other)
  PROVE  /\ IsChain(other)
         /\ \A i \in 1..Len(chain) : Base(other, i) = Base(chain, i)
         /\ Room(other) = Room(chain)
<1>1. \A i \in 1..Len(chain) : Base(other, i) = Base(chain, i)
  BY DEF SameShape, Base
<1>2. \A i \in 1..Len(chain), k \in Nat : IsIn(other, k, i) <=> IsIn(chain, k, i)
  BY <1>1 DEF SameShape, IsIn
<1>3. Len(chain) \in 1..Len(chain)
  BY DEF Chains
<1>4. Room(other) = Room(chain) /\ Room(chain) \in Nat
  BY <1>1, <1>3, BaseType DEF SameShape, Room
<1>5. QED
  BY <1>1, <1>2, <1>3, <1>4 DEF IsChain, SameShape, Room

LEMMA StoreProperties ==
  ASSUME NEW chain \in Chains, NEW list \in 1..Len(chain), NEW top \in Nat,
         top < Len(chain[list]), NEW e \in Elements
  PROVE  /\ Store(chain, list, top, e) \in Chains
         /\ SameShape(chain, Store(chain, list, top, e))
         /\ \A i \in 1..Len(chain) : \A p \in 1..Len(chain[i]) :
              Store(chain, list, top, e)[i][p] =
                IF i = list /\ p = top + 1 THEN e ELSE chain[i][p]
<1> DEFINE stored == [chain[list] EXCEPT ![top + 1] = e]
<1>1. chain[list] \in Seq(Elements) /\ chain \in Seq(Seq(Elements))
  BY BaseType DEF Chains
<1>2. /\ stored \in Seq(Elements) /\ Len(stored) = Len(chain[list])
      /\ \A p \in 1..Len(chain[list]) : stored[p] = IF p = top + 1 THEN e ELSE chain[list][p]
  BY <1>1
<1>3. Store(chain, list, top, e) = [chain EXCEPT ![list] = stored]
  BY DEF Store
<1> HIDE DEF stored
<1>4. /\ Store(chain, list, top, e) \in Seq(Seq(Elements))
      /\ Len(Store(chain, list, top, e)) = Len(chain)
      /\ \A i \in 1..Len(chain) :
           Store(chain, list, top, e)[i] = IF i = list THEN stored ELSE chain[i]
  BY <1>1, <1>2, <1>3
<1>5. Store(chain, list, top, e) \in Chains
  BY <1>4 DEF Chains
<1>6. QED
  BY <1>2, <1>4, <1>5 DEF SameShape

(* Sequences of one length with the same elements are equal.               *)
LEMMA SeqEqual ==
  ASSUME NEW s \in Seq(Elements), NEW r \in Seq(Elements),
         Len(s) = Len(r), \A k \in 1..Len(s) : s[k] = r[k]
  PROVE  s = r
  OBVIOUS

(* What makes a sequence another one with an element appended.             *)
LEMMA AppendIs ==
  ASSUME NEW s \in Seq(Elements), NEW r \in Seq(Elements), NEW e \in Elements,
         Len(r) = Len(s) + 1,
         \A k \in 1..(Len(s) + 1) : r[k] = IF k = Len(s) + 1 THEN e ELSE s[k]
  PROVE  r = Append(s, e)
<1>1. /\ Append(s, e) \in Seq(Elements) /\ Len(Append(s, e)) = Len(s) + 1
      /\ \A k \in 1..(Len(s) + 1) : Append(s, e)[k] = IF k = Len(s) + 1 THEN e ELSE s[k]
  OBVIOUS
<1>2. \A k \in 1..Len(r) : r[k] = Append(s, e)[k]
  BY <1>1
<1>3. Len(r) = Len(Append(s, e))
  BY <1>1
<1>4. QED
  BY <1>1, <1>2, <1>3, SeqEqual

(* Storing an element after the first n of a chain appends it to them.     *)
LEMMA StoreAppends ==
  ASSUME NEW chain \in Chains, IsChain(chain), NEW list \in 1..Len(chain), NEW top \in Nat,
         top < Len(chain[list]), NEW e \in Elements, NEW n \in Nat,
         n = Base(chain, list) + top
  PROVE  /\ IsChain(Store(chain, list, top, e))
         /\ n < Room(chain)
         /\ Prefix(Store(chain, list, top, e), n + 1) = Append(Prefix(chain, n), e)
<1>1. PICK other : other = Store(chain, list, top, e)
  OBVIOUS
<1>2. /\ other \in Chains /\ SameShape(chain, other)
      /\ \A i \in 1..Len(chain) : \A p \in 1..Len(chain[i]) :
           other[i][p] = IF i = list /\ p = top + 1 THEN e ELSE chain[i][p]
  BY <1>1, StoreProperties
<1>3. /\ IsChain(other) /\ Room(other) = Room(chain)
      /\ \A i \in 1..Len(chain) : Base(other, i) = Base(chain, i)
      /\ Len(other) = Len(chain)
      /\ \A i \in 1..Len(chain) : Len(other[i]) = Len(chain[i])
  BY <1>2, ShapeIsChain DEF SameShape
<1>4. /\ Base(chain, list) \in Nat /\ Len(chain[list]) \in Nat
      /\ Room(chain) \in Nat /\ Len(chain) \in 1..Len(chain)
  BY BaseType, RoomType DEF Chains
<1>5. n < Room(chain)
  <2>1. CASE list = Len(chain)
    BY <1>4, <2>1 DEF Room
  <2>2. CASE list < Len(chain)
    <3>1. Base(chain, list) + Len(chain[list]) <= Base(chain, Len(chain))
      BY <1>4, <2>2 DEF IsChain
    <3>2. Base(chain, Len(chain)) \in Nat /\ Len(chain[Len(chain)]) \in Nat
      BY <1>4, BaseType
    <3>3. QED
      BY <1>4, <3>1, <3>2 DEF Room
  <2>3. QED
    BY <2>1, <2>2, <1>4
<1>6. /\ Prefix(chain, n) \in Seq(Elements) /\ Len(Prefix(chain, n)) = n
      /\ Prefix(other, n + 1) \in Seq(Elements) /\ Len(Prefix(other, n + 1)) = n + 1
  BY <1>2, <1>3, <1>4, <1>5, PrefixType
<1>7. ASSUME NEW k \in 1..(n + 1)
      PROVE  Prefix(other, n + 1)[k] = IF k = n + 1 THEN e ELSE Prefix(chain, n)[k]
  <2>1. k \in 1..Room(chain) /\ k \in 1..Room(other) /\ k \in Nat
    BY <1>3, <1>4, <1>5
  <2>2. PICK i \in 1..Len(chain) :
          i = ListOf(chain, k) /\ IsIn(chain, k, i) /\ k - Base(chain, i) \in 1..Len(chain[i])
    BY <2>1, ListExists
  <2>3. ListOf(other, k) = i
    <3>1. i \in 1..Len(other) /\ IsIn(other, k, i)
      BY <1>3, <2>2 DEF IsIn
    <3>2. QED
      BY <1>2, <1>3, <2>1, <3>1, ListIsUnique
  <2>4. Prefix(other, n + 1)[k] = other[i][k - Base(chain, i)]
    BY <1>3, <2>3 DEF Prefix
  <2>5. CASE k = n + 1
    <3>1. IsIn(chain, k, list)
      BY <1>4, <2>5 DEF IsIn
    <3>2. i = list
      BY <2>1, <2>2, <3>1, ListIsUnique
    <3>3. k - Base(chain, i) = top + 1
      BY <1>4, <2>5, <3>2
    <3>4. QED
      BY <1>2, <2>2, <2>4, <2>5, <3>2, <3>3
  <2>6. CASE k # n + 1
    <3>1. k \in 1..n
      BY <2>6
    <3>2. Prefix(chain, n)[k] = chain[i][k - Base(chain, i)]
      BY <2>2, <3>1 DEF Prefix
    <3>3. ~(i = list /\ k - Base(chain, i) = top + 1)
      BY <1>4, <2>6
    <3>4. QED
      BY <1>2, <2>2, <2>4, <2>6, <3>2, <3>3
  <2>7. QED
    BY <2>5, <2>6
<1>8. Prefix(other, n + 1) = Append(Prefix(chain, n), e)
  <2>1. PICK s \in Seq(Elements) : s = Prefix(chain, n)
    BY <1>6
  <2>2. PICK r \in Seq(Elements) : r = Prefix(other, n + 1)
    BY <1>6
  <2>3. /\ Len(s) = n /\ Len(r) = Len(s) + 1
        /\ \A k \in 1..(Len(s) + 1) : r[k] = IF k = Len(s) + 1 THEN e ELSE s[k]
    BY <1>6, <1>7, <2>1, <2>2
  <2>4. r = Append(s, e)
    BY <2>3, AppendIs
  <2>5. QED
    BY <2>1, <2>2, <2>4
<1>9. QED
  BY <1>1, <1>3, <1>5, <1>8

LEMMA InitIInv == ASSUME CapacityAssumption, Init PROVE IInv /\ Abstract!Init
<1>1. PICK garbage \in Elements : lists = <<NewList(EmbeddedCount, garbage)>>
  BY DEF Init
<1>2. PICK first : first = NewList(EmbeddedCount, garbage)
  OBVIOUS
<1>3. first \in Seq(Elements) /\ Len(first) = EmbeddedCount
  BY <1>2 DEF NewList, CapacityAssumption
<1>4. lists = <<first>> /\ Len(lists) = 1 /\ lists[1] = first /\ Base(lists, 1) = 0
  BY <1>1, <1>2 DEF Base
<1>5. TypeOK
  BY <1>3, <1>4 DEF TypeOK, Init, InvalidIndex, Capacity, CapacityAssumption
<1>6. IsChain(lists)
  BY <1>3, <1>4 DEF IsChain, IsIn, CapacityAssumption
<1>7. Located
  BY <1>4 DEF Located, Init, InvalidIndex
<1>8. Contents = <<>>
  BY DEF Contents, Prefix, Init
<1>9. QED
  BY <1>5, <1>6, <1>7, <1>8 DEF IInv, Abstract!Init

(* A list as large as all of the chain continues it.                       *)
LEMMA AppendIsChain ==
  ASSUME NEW chain \in Chains, IsChain(chain), NEW list \in Seq(Elements),
         Len(list) = Room(chain)
  PROVE  /\ Append(chain, list) \in Chains
         /\ IsChain(Append(chain, list))
         /\ Base(Append(chain, list), Len(chain) + 1) = Room(chain)
         /\ \A n \in 0..Room(chain) : Prefix(Append(chain, list), n) = Prefix(chain, n)
<1>1. PICK longer : longer = Append(chain, list)
  OBVIOUS
<1>2. /\ longer \in Chains /\ Len(longer) = Len(chain) + 1 /\ longer[Len(chain) + 1] = list
      /\ \A i \in 1..Len(chain) : longer[i] = chain[i]
      /\ Len(chain) \in 1..Len(chain)
  BY <1>1 DEF Chains
<1>3. /\ \A i \in 1..Len(chain) : Base(longer, i) = Base(chain, i)
      /\ Base(longer, Len(chain) + 1) = Room(chain)
  BY <1>2 DEF Base
<1>4. /\ Room(chain) \in Nat
      /\ \A i \in 1..Len(chain) : Base(chain, i) \in Nat /\ Len(chain[i]) \in Nat
  BY BaseType, RoomType
<1>5. \A i \in 1..Len(chain) : Base(chain, i) + Len(chain[i]) <= Room(chain)
  <2>1. TAKE i \in 1..Len(chain)
  <2>2. CASE i = Len(chain)
    BY <1>4, <2>2 DEF Room
  <2>3. CASE i < Len(chain)
    BY <1>2, <1>4, <2>3 DEF Room, IsChain
  <2>4. QED
    BY <1>2, <2>2, <2>3
<1>6. Room(chain) >= 1
  BY <1>2, <1>4 DEF IsChain, Room
<1>7. IsChain(longer)
  <2>1. \A i \in 1..Len(longer) : Len(longer[i]) >= 1
    BY <1>2, <1>6 DEF IsChain
  <2>2. ASSUME NEW i \in 1..(Len(longer) - 1)
        PROVE  Base(longer, i + 1) = Base(longer, i) + Len(longer[i])
    <3>1. CASE i = Len(chain)
      BY <1>2, <1>3, <3>1 DEF Room
    <3>2. CASE i # Len(chain)
      BY <1>2, <1>3, <3>2 DEF IsChain
    <3>3. QED
      BY <3>1, <3>2
  <2>3. ASSUME NEW i \in 1..Len(longer), NEW j \in 1..Len(longer), i < j
        PROVE  Base(longer, i) + Len(longer[i]) <= Base(longer, j)
    <3>1. CASE j = Len(chain) + 1
      BY <1>2, <1>3, <1>5, <2>3, <3>1
    <3>2. CASE j # Len(chain) + 1
      BY <1>2, <1>3, <2>3, <3>2 DEF IsChain
    <3>3. QED
      BY <3>1, <3>2
  <2>4. ASSUME NEW k \in 1..(Base(longer, Len(longer)) + Len(longer[Len(longer)]))
        PROVE  \E i \in 1..Len(longer) : IsIn(longer, k, i)
    <3>1. CASE k <= Room(chain)
      <4>1. k \in 1..Room(chain)
        BY <1>4, <3>1
      <4>2. PICK i \in 1..Len(chain) : IsIn(chain, k, i)
        BY <4>1 DEF IsChain, Room
      <4>3. i \in 1..Len(longer) /\ IsIn(longer, k, i)
        BY <1>2, <1>3, <4>2 DEF IsIn
      <4>4. QED
        BY <4>3
    <3>2. CASE ~(k <= Room(chain))
      <4>1. IsIn(longer, k, Len(chain) + 1) /\ Len(chain) + 1 \in 1..Len(longer)
        BY <1>2, <1>3, <1>4, <3>2 DEF IsIn
      <4>2. QED
        BY <4>1
    <3>3. QED
      BY <3>1, <3>2
  <2>5. QED
    BY <2>1, <2>2, <2>3, <2>4 DEF IsChain
<1>8. ASSUME NEW n \in 0..Room(chain), NEW k \in 1..n
      PROVE  longer[ListOf(longer, k)][k - Base(longer, ListOf(longer, k))]
               = chain[ListOf(chain, k)][k - Base(chain, ListOf(chain, k))]
  <2>1. k \in 1..Room(chain) /\ k \in Nat
    BY <1>4
  <2>2. PICK i \in 1..Len(chain) : i = ListOf(chain, k) /\ IsIn(chain, k, i)
    BY <2>1, ListExists
  <2>3. i \in 1..Len(longer) /\ IsIn(longer, k, i)
    BY <1>2, <1>3, <2>2 DEF IsIn
  <2>4. ListOf(longer, k) = i
    BY <1>2, <1>7, <2>1, <2>3, ListIsUnique
  <2>5. QED
    BY <1>2, <1>3, <2>2, <2>4
<1>9. \A n \in 0..Room(chain) : Prefix(longer, n) = Prefix(chain, n)
  BY <1>8 DEF Prefix
<1>10. QED
  BY <1>1, <1>2, <1>3, <1>7, <1>9

(* What the invariant says of the place of the top.                        *)
LEMMA TopPlace ==
  ASSUME IInv
  PROVE  /\ lists \in Chains /\ peekList \in 1..Len(lists) /\ Len(lists) \in Nat
         /\ Base(lists, peekList) \in Nat /\ Len(lists[peekList]) \in Nat \ {0}
         /\ peekTop \in -1..(Len(lists[peekList]) - 1)
         /\ count = Base(lists, peekList) + peekTop + 1
         /\ count \in Nat /\ Room(lists) \in Nat /\ count <= Room(lists)
<1>1. lists \in Chains /\ peekList \in 1..Len(lists) /\ Len(lists) \in Nat
  BY DEF IInv, TypeOK, Chains
<1>2. Base(lists, peekList) \in Nat /\ Len(lists[peekList]) \in Nat \ {0}
  BY <1>1, BaseType DEF IInv, IsChain
<1>3. /\ peekTop \in -1..(Len(lists[peekList]) - 1)
      /\ count = Base(lists, peekList) + peekTop + 1 /\ count \in Nat
  BY <1>1 DEF IInv, TypeOK, Located, Capacity, InvalidIndex
<1>4. Room(lists) \in Nat /\ Base(lists, peekList) + Len(lists[peekList]) <= Room(lists)
  <2>1. Room(lists) \in Nat /\ Len(lists) \in 1..Len(lists)
    BY <1>1, RoomType DEF Chains
  <2>2. Base(lists, Len(lists)) \in Nat /\ Len(lists[Len(lists)]) \in Nat
    BY <1>1, <2>1, BaseType
  <2>3. CASE peekList = Len(lists)
    BY <2>1, <2>2, <2>3 DEF Room
  <2>4. CASE peekList # Len(lists)
    <3>1. peekList < Len(lists)
      BY <1>1, <2>4
    <3>2. Base(lists, peekList) + Len(lists[peekList]) <= Base(lists, Len(lists))
      BY <1>1, <2>1, <3>1 DEF IInv, IsChain
    <3>3. QED
      BY <1>2, <2>2, <3>2 DEF Room
  <2>5. QED
    BY <2>1, <2>3, <2>4
<1>5. QED
  BY <1>1, <1>2, <1>3, <1>4

(* An element stored right after the contents of a chain becomes the top.  *)
LEMMA StoredOnTop ==
  ASSUME NEW chain \in Chains, IsChain(chain), NEW list \in 1..Len(chain), NEW top \in Nat,
         top < Len(chain[list]), NEW e \in Elements,
         count \in Nat, count = Base(chain, list) + top,
         Prefix(chain, count) = Contents,
         lists' = Store(chain, list, top, e), peekList' = list, peekTop' = top,
         count' = count + 1
  PROVE  IInv' /\ Contents' = Append(Contents, e)
<1>1. PICK n \in Nat : n = count
  OBVIOUS
<1>2. /\ IsChain(Store(chain, list, top, e))
      /\ Prefix(Store(chain, list, top, e), n + 1) = Append(Prefix(chain, n), e)
  BY <1>1, StoreAppends
<1>3. Contents' = Append(Contents, e) /\ IsChain(lists')
  BY <1>1, <1>2 DEF Contents
<1>4. PICK other \in Chains : other = lists' /\ SameShape(chain, other)
  BY StoreProperties
<1>5. Base(other, list) = Base(chain, list) /\ Base(chain, list) \in Nat
  BY <1>4, ShapeIsChain, BaseType
<1>6. TypeOK'
  BY <1>4, <1>5 DEF TypeOK, Capacity, InvalidIndex, Chains, SameShape
<1>7. Located'
  BY <1>4, <1>5 DEF Located, InvalidIndex
<1>8. QED
  BY <1>3, <1>6, <1>7 DEF IInv

LEMMA PushInListStep ==
  ASSUME IInv, NEW e \in Elements, PushInList(e)
  PROVE  IInv' /\ Contents' = Append(Contents, e)
<1>1. PICK chain \in Chains : chain = lists
  BY TopPlace
<1>2. PICK list \in 1..Len(chain) : list = peekList
  BY <1>1, TopPlace
<1>3. PICK top \in Nat : top = peekTop + 1
  BY TopPlace
<1>4. /\ IsChain(chain) /\ top < Len(chain[list])
      /\ count \in Nat /\ count = Base(chain, list) + top
      /\ Prefix(chain, count) = Contents
      /\ lists' = Store(chain, list, top, e) /\ peekList' = list /\ peekTop' = top
      /\ count' = count + 1
  BY <1>1, <1>2, <1>3, TopPlace DEF IInv, PushInList, Capacity, Contents
<1>5. QED
  BY <1>4, StoredOnTop

(* A list that is full ends where the stack does.                          *)
LEMMA FullList ==
  ASSUME IInv, IsFull
  PROVE  count = Base(lists, peekList) + Len(lists[peekList])
<1>1. peekTop + 1 = Len(lists[peekList])
  BY TopPlace DEF IsFull, Capacity
<1>2. QED
  BY <1>1, TopPlace

LEMMA PushInNextListStep ==
  ASSUME IInv, NEW e \in Elements, PushInNextList(e)
  PROVE  IInv' /\ Contents' = Append(Contents, e)
<1>1. PICK chain \in Chains : chain = lists
  BY TopPlace
<1>2. PICK list \in 1..Len(chain) : list = peekList + 1
  BY <1>1, TopPlace DEF PushInNextList
<1>3. Base(chain, list) = count
  BY <1>1, <1>2, TopPlace, FullList DEF PushInNextList, IInv, IsChain
<1>4. /\ IsChain(chain) /\ 0 \in Nat /\ 0 < Len(chain[list])
      /\ count \in Nat /\ count = Base(chain, list) + 0
      /\ Prefix(chain, count) = Contents
      /\ lists' = Store(chain, list, 0, e) /\ peekList' = list /\ peekTop' = 0
      /\ count' = count + 1
  <2>1. IsChain(chain) /\ 0 < Len(chain[list])
    BY <1>1, <1>2, BaseType DEF IInv, IsChain
  <2>2. QED
    BY <1>1, <1>2, <1>3, <2>1, TopPlace DEF PushInNextList, Contents
<1>5. QED
  BY <1>4, StoredOnTop

LEMMA PushInNewListStep ==
  ASSUME IInv, NEW e \in Elements, PushInNewList(e)
  PROVE  IInv' /\ Contents' = Append(Contents, e)
<1>1. PICK garbage \in Elements :
        lists' = Store(Append(lists, NewList(count, garbage)), peekList + 1, 0, e)
  BY DEF PushInNewList
<1>2. PICK fresh \in Seq(Elements) : fresh = NewList(count, garbage) /\ Len(fresh) = count
  <2>1. count \in Nat /\ NewList(count, garbage) \in [1..count -> Elements]
    BY TopPlace DEF NewList
  <2>2. QED
    BY <2>1
<1>3. count = Room(lists) /\ peekList = Len(lists)
  BY FullList, TopPlace DEF PushInNewList, Room
<1>4. PICK chain : chain = Append(lists, fresh)
  OBVIOUS
<1>5. /\ chain \in Chains /\ IsChain(chain)
      /\ Base(chain, Len(lists) + 1) = count
      /\ Prefix(chain, count) = Prefix(lists, count)
  BY <1>2, <1>3, <1>4, TopPlace, AppendIsChain DEF IInv
<1>6. PICK list \in 1..Len(chain) : list = peekList + 1
  BY <1>3, <1>4, TopPlace
<1>7. /\ 0 \in Nat /\ 0 < Len(chain[list])
      /\ count \in Nat /\ count = Base(chain, list) + 0
      /\ Prefix(chain, count) = Contents
      /\ lists' = Store(chain, list, 0, e) /\ peekList' = list /\ peekTop' = 0
      /\ count' = count + 1
  <2>1. 0 < Len(chain[list])
    BY <1>5, <1>6, BaseType DEF IsChain
  <2>2. QED
    BY <1>1, <1>2, <1>3, <1>4, <1>5, <1>6, <2>1, TopPlace DEF PushInNewList, Contents
<1>8. QED
  BY <1>5, <1>7, StoredOnTop

(* Taking the last of the elements of a chain away.                        *)
LEMMA PrefixShortens ==
  ASSUME NEW chain \in Chains, IsChain(chain), NEW n \in Nat \ {0}, n <= Room(chain)
  PROVE  /\ Len(Prefix(chain, n)) = n
         /\ Prefix(chain, n - 1) = SubSeq(Prefix(chain, n), 1, n - 1)
<1>1. Room(chain) \in Nat
  BY RoomType
<1>2. /\ Prefix(chain, n) \in Seq(Elements) /\ Len(Prefix(chain, n)) = n
      /\ Prefix(chain, n - 1) \in Seq(Elements) /\ Len(Prefix(chain, n - 1)) = n - 1
  BY <1>1, PrefixType
<1>3. \A k \in 1..(n - 1) : Prefix(chain, n - 1)[k] = Prefix(chain, n)[k]
  BY DEF Prefix
<1>4. PICK s \in Seq(Elements) : s = Prefix(chain, n)
  BY <1>2
<1>5. PICK r \in Seq(Elements) : r = Prefix(chain, n - 1)
  BY <1>2
<1>6. /\ SubSeq(s, 1, n - 1) \in Seq(Elements) /\ Len(SubSeq(s, 1, n - 1)) = n - 1
      /\ \A k \in 1..(n - 1) : SubSeq(s, 1, n - 1)[k] = s[k]
  BY <1>2, <1>4
<1>7. r = SubSeq(s, 1, n - 1)
  <2>1. Len(r) = Len(SubSeq(s, 1, n - 1)) /\ \A k \in 1..Len(r) : r[k] = SubSeq(s, 1, n - 1)[k]
    BY <1>2, <1>3, <1>4, <1>5, <1>6
  <2>2. QED
    BY <1>6, <2>1, SeqEqual
<1>8. QED
  BY <1>2, <1>4, <1>5, <1>7

LEMMA PopStep ==
  ASSUME IInv, Pop
  PROVE  IInv' /\ Len(Contents) > 1 /\ Contents' = SubSeq(Contents, 1, Len(Contents) - 1)
<1>1. count \in Nat \ {0} /\ count > 1 /\ count' = count - 1 /\ lists' = lists
  BY TopPlace DEF Pop
<1>2. Len(Contents) = count /\ Prefix(lists, count - 1) = SubSeq(Contents, 1, count - 1)
  BY <1>1, TopPlace, PrefixShortens DEF IInv, Contents
<1>3. Contents' = Prefix(lists, count - 1)
  BY <1>1 DEF Contents
<1>4. IsChain(lists')
  BY <1>1 DEF IInv
<1>5. IInv'
  <2>1. CASE peekTop # 0 /\ peekTop' = peekTop - 1 /\ UNCHANGED peekList
    <3>1. peekTop \in Nat \ {0}
      BY <1>1, <2>1, TopPlace DEF IInv, TypeOK, InvalidIndex
    <3>2. TypeOK'
      BY <1>1, <2>1, <3>1, TopPlace DEF IInv, TypeOK, InvalidIndex, Capacity
    <3>3. Located'
      BY <1>1, <2>1, <3>1, TopPlace DEF Located, InvalidIndex
    <3>4. QED
      BY <1>4, <3>2, <3>3 DEF IInv
  <2>2. CASE peekTop = 0 /\ peekList' = peekList - 1 /\ peekTop' = Capacity(peekList - 1) - 1
    <3>1. peekList # 1
      BY <1>1, <2>2, TopPlace DEF Base
    <3>2. peekList - 1 \in 1..Len(lists)
      BY <3>1, TopPlace
    <3>3. Base(lists, peekList) = Base(lists, peekList - 1) + Len(lists[peekList - 1])
      <4>1. peekList - 1 \in 1..(Len(lists) - 1) /\ (peekList - 1) + 1 = peekList
        BY <3>2, TopPlace
      <4>2. QED
        BY <4>1 DEF IInv, IsChain
    <3>4. Len(lists[peekList - 1]) \in Nat \ {0} /\ Base(lists, peekList - 1) \in Nat
      BY <3>2, TopPlace, BaseType DEF IInv, IsChain
    <3>5. TypeOK'
      BY <1>1, <2>2, <3>2, <3>4, TopPlace DEF IInv, TypeOK, InvalidIndex, Capacity
    <3>6. Located'
      BY <1>1, <2>2, <3>3, <3>4, TopPlace DEF Located, InvalidIndex, Capacity
    <3>7. QED
      BY <1>4, <3>5, <3>6 DEF IInv
  <2>3. QED
    BY <2>1, <2>2 DEF Pop
<1>6. QED
  BY <1>1, <1>2, <1>3, <1>5

LEMMA SetEmptyStep ==
  ASSUME IInv, SetEmpty
  PROVE  IInv' /\ Contents' = <<>>
<1>1. 1 \in 1..Len(lists) /\ Len(lists[1]) \in Nat \ {0}
  <2>1. 1 \in 1..Len(lists)
    BY TopPlace
  <2>2. QED
    BY <2>1, TopPlace, BaseType DEF IInv, IsChain
<1>2. TypeOK'
  BY <1>1 DEF SetEmpty, IInv, TypeOK, InvalidIndex, Capacity
<1>3. Located'
  BY DEF SetEmpty, Located, Base, InvalidIndex
<1>4. IsChain(lists')
  BY DEF SetEmpty, IInv
<1>5. Contents' = <<>>
  BY DEF SetEmpty, Contents, Prefix
<1>6. QED
  BY <1>2, <1>3, <1>4, <1>5 DEF IInv

(* Every step keeps the invariant and is a step of the abstract stack, or  *)
(* leaves it alone.                                                        *)
LEMMA NextStep ==
  ASSUME IInv, [Next]_vars
  PROVE  IInv' /\ [Abstract!Next]_Contents
<1>1. ASSUME NEW e \in Elements, PushInList(e) PROVE IInv' /\ Abstract!Push
  BY <1>1, PushInListStep DEF Abstract!Push
<1>2. ASSUME NEW e \in Elements, PushInNextList(e) PROVE IInv' /\ Abstract!Push
  BY <1>2, PushInNextListStep DEF Abstract!Push
<1>3. ASSUME NEW e \in Elements, PushInNewList(e) PROVE IInv' /\ Abstract!Push
  BY <1>3, PushInNewListStep DEF Abstract!Push
<1>4. CASE UNCHANGED vars
  <2>1. Contents' = Contents
    BY <1>4 DEF vars, Contents
  <2>2. TypeOK' /\ IsChain(lists') /\ Located'
    BY <1>4 DEF vars, IInv, TypeOK, Located, Capacity
  <2>3. QED
    BY <2>1, <2>2 DEF IInv
<1>5. CASE Pop
  BY <1>5, PopStep DEF Abstract!Next, Abstract!Pop
<1>6. CASE SetEmpty
  BY <1>6, SetEmptyStep DEF Abstract!Next, Abstract!SetEmpty
<1>7. CASE Push
  BY <1>1, <1>2, <1>3, <1>4, <1>7 DEF Push, PushFails, Abstract!Next
<1>8. QED
  BY <1>4, <1>5, <1>6, <1>7 DEF Next

LEMMA SpecIInv == Spec => []IInv
<1>1. Init => IInv
  BY InitIInv, CapacityAssumption
<1>2. IInv /\ [Next]_vars => IInv'
  BY NextStep
<1>3. QED
  BY <1>1, <1>2, PTL DEF Spec

(* The top is an element of a list of the chain, or the stack is empty:    *)
(* no getter of StatusStack.c reads past the end of a list.                *)
THEOREM SpecTypeOK == Spec => []TypeOK
<1>1. IInv => TypeOK
  BY DEF IInv
<1>2. QED
  BY <1>1, SpecIInv, PTL

(* The element at the top, which the getters of StatusStack.c read, is the *)
(* last of the contents.                                                   *)
THEOREM SpecTopIsLast == Spec => []TopIsLast
<1>1. IInv => TopIsLast
  <2>1. SUFFICES ASSUME IInv, count > 0 PROVE lists[peekList][peekTop + 1] = Contents[count]
    BY DEF TopIsLast
  <2>2. IsIn(lists, count, peekList)
    BY <2>1, TopPlace DEF IsIn, IInv, TypeOK, InvalidIndex
  <2>3. ListOf(lists, count) = peekList
    BY <2>1, <2>2, TopPlace, ListIsUnique DEF IInv
  <2>4. count - Base(lists, peekList) = peekTop + 1 /\ count \in 1..count
    BY <2>1, TopPlace
  <2>5. QED
    BY <2>3, <2>4 DEF Contents, Prefix
<1>2. QED
  BY <1>1, SpecIInv, PTL

(* The chain of lists is a stack: whatever is pushed, popped, allocated,   *)
(* used again or failed, it holds what was pushed and not popped, in order.*)
THEOREM SpecImplementsStack == Spec => ImplementsStack
<1>1. Init => Abstract!Init
  BY InitIInv, CapacityAssumption
<1>2. IInv /\ [Next]_vars => [Abstract!Next]_Contents
  BY NextStep
<1>3. QED
  BY <1>1, <1>2, SpecIInv, PTL DEF Spec, ImplementsStack, Abstract!Spec
=============================================================================
