---------------------------- MODULE SBMirrorLocator ---------------------------
(* The mirrored code points of a line: SBMirrorLocator.c.                      *)
(*                                                                             *)
(* A locator is [kind, line, runIndex, stringIndex, agent], where indices count from *)
(* 0; units are those of the whole text.                                       *)
EXTENDS CodepointData, SBLine

CONSTANT SBInvalidIndex         \* the largest SBUInteger

NoLine == [runs |-> <<>>]
NoMirrorAgent == [index |-> SBInvalidIndex, mirror |-> NoMirror]

KeepsStringIndex(locator) == [locator EXCEPT !.runIndex = 0, !.agent = NoMirrorAgent]

SBMirrorLocatorReset(locator) ==
    [locator EXCEPT !.runIndex = 0, !.stringIndex = SBInvalidIndex,
                    !.agent = NoMirrorAgent]

(* The locator retains the line and gives up the one that it had. The client    *)
(* passes the string that the line was made of: the line that the code refuses  *)
(* to load with another one is left out.                                        *)
SBMirrorLocatorLoadLine(line) ==
    [kind |-> "mirror", line |-> line, runIndex |-> 0, stringIndex |-> SBInvalidIndex, agent |-> NoMirrorAgent]

(* The next mirrored code point of the run at hand or of a later one.          *)
SBMirrorLocatorMoveNext(locator, units) ==
    LET runs == locator.line.runs
        from(k) == IF k = locator.runIndex /\ locator.stringIndex # SBInvalidIndex
                   THEN locator.stringIndex ELSE runs[k + 1].offset
        mirrored(k) == {i \in from(k)..(runs[k + 1].offset + runs[k + 1].length - 1) :
                          IsOdd(runs[k + 1].level) /\ LookupMirror(units[i + 1]) # NoMirror}
        candidates == {k \in locator.runIndex..(Len(runs) - 1) : mirrored(k) # {}}
        run == Min(candidates)
        index == Min(mirrored(run))
        codepoint == units[index + 1]
    IN  IF locator.line = NoLine
        THEN [locator |-> locator, found |-> FALSE]
        ELSE IF candidates = {}
        THEN [locator |-> SBMirrorLocatorReset(locator), found |-> FALSE]
        ELSE [locator |-> [locator EXCEPT !.runIndex = run, !.stringIndex = NextIndex(units, index),
                               !.agent = [index |-> index, codepoint |-> codepoint,
                                          mirror |-> LookupMirror(codepoint)]],
              found |-> TRUE]
==============================================================================
