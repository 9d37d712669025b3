--------------------------- MODULE AttributedText ----------------------------
(* What the attributes of a text promise, one code unit at a time: every unit  *)
(* has a function from attributes to values, and an operation on a range says  *)
(* what happens to each unit of it. There are no entries, no splits and no     *)
(* reference counts here. The operations say what SBText.h and the comments of *)
(* AttributeManager.c say; where the code does otherwise a deviation, named    *)
(* apart, says what it does. AttributeManager implements the two together.     *)
EXTENDS Integers, Sequences

CONSTANTS Paragraph,    \* the attributes that belong to whole paragraphs
          Character,    \* the attributes that belong to characters
          Values,
          MaxInsert     \* bound: units that one edit brings in

VARIABLES units,        \* TRUE for a unit that ends a paragraph
          attributes,   \* for each unit, a function from attributes to values
          call          \* the last call with its arguments

vars == <<units, attributes, call>>

IDs == Paragraph \cup Character
Attributes == UNION {[S -> Values] : S \in SUBSET IDs}

(* f, and g where f has no value. *)
Over(f, g) == [id \in DOMAIN f \cup DOMAIN g |-> IF id \in DOMAIN f THEN f[id] ELSE g[id]]

OfParagraph(f) == [id \in DOMAIN f \cap Paragraph |-> f[id]]
Without(f, id) == [k \in DOMAIN f \ {id} |-> f[k]]

(* Units i and j of u are in one paragraph: none from one to before the other  *)
(* ends it.                                                                    *)
SameParagraph(u, i, j) ==
    /\ \A k \in i..(j - 1) : ~u[k]
    /\ \A k \in j..(i - 1) : ~u[k]

Init == units = <<>> /\ attributes = <<>> /\ call = [op |-> "create"]

(* The attributes that each unit of the text has after a step.                 *)
Become(After(_)) ==
    /\ DOMAIN attributes' = DOMAIN units'
    /\ \A i \in DOMAIN units' : attributes'[i] = After(i)

-------------------------------------------------------------------------------
(* The operations *)

(* All text is replaced: nothing of the old one is left, attributes neither.   *)
SetCodeUnits(new) ==
    LET nothing(i) == <<>>
    IN  /\ call' = [op |-> "setCodeUnits", new |-> new]
        /\ units' = new
        /\ Become(nothing)

(* The units from `first` up to `last` give way to new ones, all with the      *)
(* attributes `inherited`.                                                     *)
Splice(s, first, last, new) == SubSeq(s, 1, first - 1) \o new \o SubSeq(s, last + 1, Len(s))
Inherit(first, last, new, inherited) ==
    Splice(attributes, first, last, [i \in 1..Len(new) |-> inherited])

(* New units take the attributes of the first unit that they replace; where    *)
(* they replace none, of the one before.                                       *)
Donor(start, length) ==
    IF (length = 0 /\ start > 0) \/ start = Len(units) THEN start ELSE start + 1

(* Text of a text that is not empty gets inserted, removed or replaced. If a   *)
(* paragraph goes on across the end of what was removed, as where the removal  *)
(* joined two of them, its two parts share their paragraph attributes, those   *)
(* of the first part prevailing.                                               *)
Replace(start, length, new) ==
    LET newUnits == Splice(units, start + 1, start + length, new)
        spliced == Inherit(start + 1, start + length, new, attributes[Donor(start, length)])
        joint == start + Len(new) + 1
        goesOn == length > 0 /\ joint \in 2..Len(newUnits) /\ ~newUnits[joint - 1]
        before == OfParagraph(spliced[joint - 1])
        after == OfParagraph(spliced[joint])
        attributesAfter(i) ==
            IF ~goesOn \/ ~SameParagraph(newUnits, i, joint) THEN spliced[i]
            ELSE IF i >= joint THEN Over(before, spliced[i])
            ELSE Over(Over(before, after), spliced[i])
    IN  /\ units # <<>>
        /\ call' = [op |-> "replace", start |-> start, length |-> length, new |-> new]
        /\ units' = newUnits
        /\ Become(attributesAfter)

(* The first text of an empty one has no attributes.                           *)
Begin(new) ==
    LET nothing(i) == <<>>
    IN  /\ units = <<>>
        /\ call' = [op |-> "replace", start |-> 0, length |-> 0, new |-> new]
        /\ units' = new
        /\ Become(nothing)

(* A paragraph attribute is given to every paragraph that the range touches.   *)
Set(start, length, id, v) ==
    LET touched(i) == \E j \in (start + 1)..(start + length) :
                        i = j \/ (id \in Paragraph /\ SameParagraph(units, i, j))
        attributesAfter(i) == IF touched(i) THEN Over([k \in {id} |-> v], attributes[i])
                              ELSE attributes[i]
    IN  /\ call' = [op |-> "set", start |-> start, length |-> length, id |-> id, value |-> v]
        /\ UNCHANGED units
        /\ Become(attributesAfter)

(* A paragraph attribute is taken from the paragraphs that lie in the range.   *)
Remove(start, length, id) ==
    LET range == (start + 1)..(start + length)
        touched(i) == /\ i \in range
                      /\ id \in Paragraph =>
                            \A j \in DOMAIN units : SameParagraph(units, i, j) => j \in range
        attributesAfter(i) == IF touched(i) THEN Without(attributes[i], id)
                              ELSE attributes[i]
    IN  /\ call' = [op |-> "remove", start |-> start, length |-> length, id |-> id]
        /\ UNCHANGED units
        /\ Become(attributesAfter)

(* A copy has the text and the attributes of what it was made from.            *)
Copy == call' = [op |-> "copy"] /\ UNCHANGED <<units, attributes>>

NewUnits == UNION {[1..n -> BOOLEAN] : n \in 0..MaxInsert}

Next ==
    \/ \E new \in NewUnits : SetCodeUnits(new) \/ Begin(new)
    \/ \E start \in 0..Len(units) : \E length \in 0..(Len(units) - start) :
          \/ \E new \in NewUnits : Replace(start, length, new)
          \/ \E id \in IDs :
               \/ \E v \in Values : Set(start, length, id, v)
               \/ Remove(start, length, id)
    \/ Copy

-------------------------------------------------------------------------------
(* What the code does otherwise *)

(* Setting the text keeps the attributes of its first unit for the new text.   *)
SetKeepsFirst(new) ==
    LET first(i) == attributes[1]
    IN  /\ units # <<>>
        /\ call' = [op |-> "setCodeUnits", new |-> new]
        /\ units' = new
        /\ Become(first)

(* The first text of an empty one has the attributes of text that was deleted. *)
BeginRevives(new) ==
    /\ units = <<>>
    /\ call' \in {[op |-> "setCodeUnits", new |-> new],
                   [op |-> "replace", start |-> 0, length |-> 0, new |-> new]}
    /\ units' = new
    /\ \E revived \in Attributes : LET all(i) == revived IN Become(all)

(* Where a removal ends between two paragraphs, the first one takes the        *)
(* paragraph attributes of the second.                                         *)
ReplaceSpreads(start, length, new) ==
    LET newUnits == Splice(units, start + 1, start + length, new)
        spliced == Inherit(start + 1, start + length, new, attributes[Donor(start, length)])
        joint == start + Len(new) + 1
        attributesAfter(i) ==
            IF SameParagraph(newUnits, i, joint - 1)
            THEN Over(OfParagraph(spliced[joint]), spliced[i]) ELSE spliced[i]
    IN  /\ length > 0 /\ joint \in 2..Len(newUnits) /\ newUnits[joint - 1]
        /\ call' = [op |-> "replace", start |-> start, length |-> length, new |-> new]
        /\ units' = newUnits
        /\ Become(attributesAfter)

(* A paragraph attribute is also taken from the units of a last paragraph that *)
(* goes on after the range, if it begins in the range.                         *)
RemoveFromPart(start, length, id) ==
    LET touched(i) == /\ i \in (start + 1)..(start + length)
                      /\ start > 0 => ~SameParagraph(units, start, i)
        attributesAfter(i) == IF touched(i) THEN Without(attributes[i], id)
                              ELSE attributes[i]
    IN  /\ id \in Paragraph
        /\ call' = [op |-> "remove", start |-> start, length |-> length, id |-> id]
        /\ UNCHANGED units
        /\ Become(attributesAfter)

Deviation ==
    \/ \E new \in NewUnits : SetKeepsFirst(new) \/ BeginRevives(new)
    \/ \E start \in 0..Len(units) : \E length \in 0..(Len(units) - start) :
          \/ \E new \in NewUnits : ReplaceSpreads(start, length, new)
          \/ \E id \in Paragraph : RemoveFromPart(start, length, id)

Spec == Init /\ [][Next \/ Deviation]_vars
==============================================================================
