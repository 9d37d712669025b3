-------------------------------- MODULE Stack --------------------------------
(***************************************************************************)
(* The stack that DetermineLevels of Source/API/SBParagraph.c reckons      *)
(* with: what StatusStack promises it.                                     *)
(***************************************************************************)
EXTENDS Integers, Sequences

CONSTANT Elements

VARIABLE stack    (* the top is the last element                           *)

Init == stack = <<>>

Push == \E e \in Elements : stack' = Append(stack, e)

(* The caller never pops the element of the paragraph's base level.        *)
Pop == Len(stack) > 1 /\ stack' = SubSeq(stack, 1, Len(stack) - 1)

SetEmpty == stack' = <<>>

Next == Push \/ Pop \/ SetEmpty

Spec == Init /\ [][Next]_stack
=============================================================================
