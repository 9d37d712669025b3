-------------------------------- MODULE SBLine --------------------------------
(* A line of a paragraph: SBLine.c, rules L1 and L2 on whole runs.             *)
(*                                                                             *)
(* types and levels are those of the line's code units, counted from 1; a run  *)
(* is [offset, length, level] with the offset in the text, counted from 0.     *)
EXTENDS Integers, Sequences, SequencesExt, FiniteSetsExt

SBLevelInvalid == 255

Separators == {"B", "S"}
Ignored == {"LRE", "RLE", "LRO", "RLO", "PDF", "BN"}
Spaces == {"WS", "LRI", "RLI", "FSI", "PDI"}

IsOdd(level) == level % 2 = 1

CountsChanges(levels) ==
    [runCount |-> 1 + Cardinality({i \in 2..Len(levels) : levels[i] # levels[i - 1]}),
     maxLevel |-> Max({0} \cup {levels[i] : i \in DOMAIN levels})]

(* The last level that is compared with is never brought up to date: every     *)
(* unit counts as a run.                                                       *)
CopyLevels(levels) ==
    [runCount |-> Cardinality({i \in DOMAIN levels : levels[i] # SBLevelInvalid}),
     maxLevel |-> Max({0} \cup {levels[i] : i \in DOMAIN levels})]

SetNewLevel(levels, from, length, newLevel) ==
    [i \in DOMAIN levels |-> IF i \in from..(from + length - 1) THEN newLevel ELSE levels[i]]

(* Rule L1, one unit after the other: length is how many units after the one   *)
(* at hand are to be reset with it. A space that is not reset leaves it alone. *)
ResetUnit(s, type, i, baseLevel) ==
    LET setNew == [levels |-> SetNewLevel(s.levels, i, s.length + 1, baseLevel),
                   length |-> 0, reset |-> TRUE, added |-> s.added + 1]
    IN  IF type \in Separators THEN setNew
        ELSE IF type \in Ignored THEN [s EXCEPT !.length = s.length + 1]
        ELSE IF type \in Spaces THEN (IF s.reset THEN setNew ELSE s)
        ELSE [s EXCEPT !.length = 0, !.reset = FALSE]

(* From the end of the line.                                                   *)
ResetLevels(types, levels, baseLevel) ==
    LET last == Len(levels)
    IN  FoldLeft(LAMBDA s, k : ResetUnit(s, types[last + 1 - k], last + 1 - k, baseLevel),
                 [levels |-> levels, length |-> 0, reset |-> TRUE, added |-> 0],
                 [k \in DOMAIN levels |-> k])

(* Where the run that starts at i ends.                                        *)
RunLimit(levels, i) ==
    Min({Len(levels) + 1} \cup {j \in (i + 1)..Len(levels) : levels[j] # levels[i]})

(* The maximal runs of one level in logical order.                             *)
InitializeRuns(levels, lineOffset) ==
    LET runsFrom[i \in 1..(Len(levels) + 1)] ==
            IF i = Len(levels) + 1 THEN <<>>
            ELSE <<[offset |-> lineOffset + i - 1, length |-> RunLimit(levels, i) - i,
                    level |-> levels[i]]>> \o runsFrom[RunLimit(levels, i)]
    IN  runsFrom[1]

(* Each stretch of runs of at least newLevel is reversed.                      *)
ReverseAtLevel(runs, newLevel) ==
    LET isBelow(k) == runs[k].level < newLevel
        first(k) == 1 + Max({0} \cup {j \in 1..k : isBelow(j)})
        last(k) == Min({Len(runs) + 1} \cup {j \in k..Len(runs) : isBelow(j)}) - 1
    IN  [k \in DOMAIN runs |-> IF isBelow(k) THEN runs[k] ELSE runs[first(k) + last(k) - k]]

StopsAtTwo(runs, maxLevel) ==
    FoldLeft(LAMBDA r, k : ReverseAtLevel(r, maxLevel + 1 - k), runs,
             [k \in 1..(maxLevel - 1) |-> k])

(* Rule L2, from the highest level down to 1.                                  *)
ReorderRuns(runs, maxLevel) ==
    FoldLeft(LAMBDA r, k : ReverseAtLevel(r, maxLevel + 1 - k), runs,
             [k \in 1..maxLevel |-> k])

(* capacity is how many runs the array of the line was allocated for.          *)
SBLineCreate(types, levels, lineOffset, baseLevel) ==
    LET copied == CopyLevels(levels)
        reset == ResetLevels(types, levels, baseLevel)
    IN  [offset |-> lineOffset,
         length |-> Len(levels),
         runs |-> ReorderRuns(InitializeRuns(reset.levels, lineOffset), copied.maxLevel),
         capacity |-> copied.runCount + reset.added]
==============================================================================
