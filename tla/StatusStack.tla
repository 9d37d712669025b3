----------------------------- MODULE StatusStack -----------------------------
(***************************************************************************)
(* The directional status stack of Source/UBA/StatusStack.c: a chain of    *)
(* lists.  The first one is embedded in the stack; another one, as large   *)
(* as all before it, is allocated when they are full, and stays in the     *)
(* chain when the stack shrinks.                                           *)
(***************************************************************************)
EXTENDS Integers, Sequences

CONSTANTS
  Elements,         (* StatusStackElement                                  *)
  EmbeddedCount,    (* StatusStackEmbeddedElementCount                     *)
  MaxCount          (* bound: StatusStackMaxCapacity, asserted by push     *)

ASSUME CapacityAssumption == EmbeddedCount \in Nat \ {0} /\ MaxCount \in Nat

VARIABLES
  lists,      (* the chain: the elements of each list, which has as many   *)
              (* as its capacity, written or not                           *)
  peekList,   (* stack->_peekList, its position in the chain from 1        *)
  peekTop,    (* stack->_peekTop, an index from 0 in that list             *)
  count       (* stack->count                                              *)

vars == <<lists, peekList, peekTop, count>>

(* SBInvalidIndex is the largest SBUInteger; one more wraps to 0.          *)
InvalidIndex == -1

Capacity(list) == Len(lists[list])

(* Memory that was not written yet holds anything; one value stands for it.*)
NewList(capacity, garbage) == [i \in 1..capacity |-> garbage]

Init ==
  /\ \E garbage \in Elements : lists = <<NewList(EmbeddedCount, garbage)>>
  /\ peekList = 1
  /\ peekTop = InvalidIndex
  /\ count = 0

Store(chain, list, top, e) == [chain EXCEPT ![list][top + 1] = e]

(* InsertStatusStackElement, with room left in the list of the top.        *)
PushInList(e) ==
  /\ peekTop + 1 < Capacity(peekList)
  /\ lists' = Store(lists, peekList, peekTop + 1, e)
  /\ peekTop' = peekTop + 1
  /\ count' = count + 1
  /\ UNCHANGED peekList

IsFull == peekTop + 1 >= Capacity(peekList)

StoresBeforeMove(e) ==
  /\ IsFull /\ peekList < Len(lists)
  /\ lists' = Store(lists, peekList, 0, e)
  /\ peekList' = peekList + 1
  /\ peekTop' = 0
  /\ count' = count + 1

(* The next list is there from an earlier time.                            *)
PushInNextList(e) ==
  /\ IsFull /\ peekList < Len(lists)
  /\ lists' = Store(lists, peekList + 1, 0, e)
  /\ peekList' = peekList + 1
  /\ peekTop' = 0
  /\ count' = count + 1

PushInNewList(e) ==
  /\ IsFull /\ peekList = Len(lists)
  /\ \E garbage \in Elements :
       lists' = Store(Append(lists, NewList(count, garbage)), peekList + 1, 0, e)
  /\ peekList' = peekList + 1
  /\ peekTop' = 0
  /\ count' = count + 1

(* MemoryAllocateChunks fails, and the push with it.                       *)
PushFails ==
  /\ IsFull /\ peekList = Len(lists)
  /\ UNCHANGED vars

(* StatusStackPush, within the capacity that it asserts.                   *)
Push ==
  /\ count <= MaxCount
  /\ \/ \E e \in Elements : PushInList(e) \/ PushInNextList(e) \/ PushInNewList(e)
     \/ PushFails

PopsPastTop ==
  /\ count > 1
  /\ \/ peekTop # 0 /\ peekTop' = peekTop - 1 /\ UNCHANGED peekList
     \/ peekTop = 0 /\ peekList' = peekList - 1 /\ peekTop' = Capacity(peekList) - 1
  /\ count' = count - 1
  /\ UNCHANGED lists

(* StatusStackPop: from the start of a list, back to the end of the one    *)
(* before.  The callers keep one element (SBParagraph.c, lines 425-453).   *)
Pop ==
  /\ count > 1
  /\ \/ peekTop # 0 /\ peekTop' = peekTop - 1 /\ UNCHANGED peekList
     \/ peekTop = 0 /\ peekList' = peekList - 1 /\ peekTop' = Capacity(peekList - 1) - 1
  /\ count' = count - 1
  /\ UNCHANGED lists

KeepsPeekList ==
  /\ peekTop' = InvalidIndex
  /\ count' = 0
  /\ UNCHANGED <<lists, peekList>>

SetEmpty ==
  /\ peekList' = 1
  /\ peekTop' = InvalidIndex
  /\ count' = 0
  /\ UNCHANGED lists

Next == Push \/ Pop \/ SetEmpty

Spec == Init /\ [][Next]_vars

-----------------------------------------------------------------------------
(* Properties.                                                             *)

(* How many elements the lists before a list hold: as many as it does.     *)
Base(chain, list) == IF list = 1 THEN 0 ELSE Len(chain[list])

(* The k-th element of the stack, from 1, is in that list.                 *)
IsIn(chain, k, list) ==
  Base(chain, list) < k /\ k <= Base(chain, list) + Len(chain[list])

ListOf(chain, k) == CHOOSE list \in 1..Len(chain) : IsIn(chain, k, list)

(* The first n elements that the chain holds.                              *)
Prefix(chain, n) ==
  [k \in 1..n |-> chain[ListOf(chain, k)][k - Base(chain, ListOf(chain, k))]]

Contents == Prefix(lists, count)

(* The top is an element of a list of the chain, or the stack is empty.    *)
TypeOK ==
  /\ lists \in Seq(Seq(Elements))
  /\ peekList \in 1..Len(lists)
  /\ peekTop \in InvalidIndex..(Capacity(peekList) - 1)
  /\ count \in Nat
  /\ count = 0 <=> peekTop = InvalidIndex

(* The chain holds exactly the elements that were pushed and not popped,   *)
(* in order: across list boundaries, when lists are used again, and when   *)
(* an allocation fails.                                                    *)
Abstract == INSTANCE Stack WITH stack <- Contents
ImplementsStack == Abstract!Spec

(* StatusStackGetEmbeddingLevel and the other getters read the element     *)
(* that was pushed last of those still there.                              *)
TopIsLast == count > 0 => lists[peekList][peekTop + 1] = Contents[count]
=============================================================================
