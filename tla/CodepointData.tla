----------------------------- MODULE CodepointData ----------------------------
(* The properties of code points that lines and script runs depend on: the     *)
(* lookups of src/Source/Data, over a small alphabet. A code point is one unit, *)
(* or two, of which the second is Trailing.                                    *)
EXTENDS Integers, Sequences

CONSTANTS Codepoints,   \* for each code point of the alphabet its bidi type,
                        \* script, general category and mirror
          Trailing      \* the unit that continues a code point

NoMirror == "none"

LookupBidiType(c) == Codepoints[c].type
LookupScript(c) == Codepoints[c].script
LookupGeneralCategory(c) == Codepoints[c].category
LookupMirror(c) == Codepoints[c].mirror

(* On its own it is read as SBCodepointFaulty, which has no mirror.            *)
ASSUME TrailingAssumption ==
    Trailing \in DOMAIN Codepoints => LookupMirror(Trailing) = NoMirror

(* SBCodepointSequenceGetCodepointAt: where the code point at unit i, counted   *)
(* from 0, ends.                                                               *)
NextIndex(units, i) ==
    IF i + 2 <= Len(units) /\ units[i + 1] # Trailing /\ units[i + 2] = Trailing
    THEN i + 2 ELSE i + 1

(* Common and Inherited take the script of the text around them.               *)
IsCommonOrInherited(script) == script \in {"nil", "inherited", "common"}
==============================================================================
