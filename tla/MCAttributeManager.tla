------------------------- MODULE MCAttributeManager --------------------------
(* A small instance of AttributeManager.                                       *)
EXTENDS AttributeManager

CONSTANTS red, blue

(* A character attribute and a paragraph attribute.                            *)
MCInfos == <<[scope |-> "character", group |-> 1],
             [scope |-> "paragraph", group |-> 2]>>

(* Values are only compared and counted.                                       *)
MCSymmetry == Permutations(Values)

(* No action reads the last call.                                              *)
MCView == <<units, manager>>
==============================================================================
