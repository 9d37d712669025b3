------------------------------ MODULE TextReading -----------------------------
(* A client that reads an analysed text: it creates an iterator of any kind,   *)
(* or a mirror locator, resets it to ranges, moves it on and releases it, or    *)
(* copies levels or scripts out, in any order. The text does not change meanwhile: SBTextIterators.h forbids it. *)
EXTENDS SBTextIterators

CONSTANTS Texts,        \* texts with their levels, as SBParagraph leaves them
          Lengths(_),   \* bound: the lengths of the ranges asked for, by that of the text
          MaxDropped    \* bound: lines that resets forget

SBLevels == 0..(SBLevelInvalid - 1)
BidiTypes == {LookupBidiType(c) : c \in DOMAIN Codepoints}

(* The paragraphs of an analysed text: not empty, one after the other from its *)
(* start to its end, with a bidi type and a level for every code unit, none    *)
(* below that of the paragraph.                                                *)
IsAnalysed(t) ==
    /\ t.units \in Seq(DOMAIN Codepoints)
    /\ Len(t.units) <= SBInvalidIndex
    /\ t.paragraphs \in Seq([index : Nat, length : Nat \ {0}, baseLevel : SBLevels,
                             types : Seq(BidiTypes), levels : Seq(SBLevels)])
    /\ t.paragraphs = <<>> => t.units = <<>>
    /\ \A k \in DOMAIN t.paragraphs :
          LET p == t.paragraphs[k]
          IN  /\ p.index = IF k = 1 THEN 0 ELSE ParagraphLimit(t.paragraphs[k - 1])
              /\ ParagraphLimit(p) <= Len(t.units)
              /\ k = Len(t.paragraphs) => ParagraphLimit(p) = Len(t.units)
              /\ Len(p.types) = p.length /\ Len(p.levels) = p.length
              /\ \A i \in 1..p.length : p.baseLevel <= p.levels[i]

ASSUME TextsAssumption == \A analysed \in Texts : IsAnalysed(analysed)
ASSUME LengthsAssumption == \A n \in 0..SBInvalidIndex : Lengths(n) \subseteq 0..SBInvalidIndex
ASSUME MaxDroppedAssumption == MaxDropped \in Nat

VARIABLES text,         \* the analysed SBText
          reader,       \* the iterator or the mirror locator
          lines,        \* how many line objects are alive
          seen          \* what the client saw since the last reset: the range that
                        \* it asked for, the runs, whether the end was reported; and
                        \* the lines that resets forgot. Only the bound on these
                        \* reads it.

vars == <<text, reader, lines, seen>>

NoReader == [kind |-> "none"]
IteratorKinds == {"paragraph", "logical", "script", "visual"}
CopyKinds == {"levels", "scripts"}

FreshlySeen(dropped) ==
    [index |-> 0, length |-> 0, given |-> <<>>, finished |-> FALSE, dropped |-> dropped]

Length == Len(text.units)

HoldsLine == IF reader.kind \in {"visual", "mirror"} THEN reader.line # NoLine ELSE FALSE

-------------------------------------------------------------------------------
(* The text's scripts are those that its script locator finds.                 *)
WithScripts(analysed) ==
    [units |-> analysed.units,
     paragraphs |-> [k \in DOMAIN analysed.paragraphs |->
        LET p == analysed.paragraphs[k]
        IN  [index |-> p.index, length |-> p.length, baseLevel |-> p.baseLevel,
             types |-> p.types, levels |-> p.levels,
             scripts |-> PopulateParagraphScripts(
                            SubSeq(analysed.units, p.index + 1, ParagraphLimit(p)))]]]

Init ==
    /\ \E analysed \in Texts : text = WithScripts(analysed)
    /\ reader = NoReader
    /\ lines = 0
    /\ seen = FreshlySeen(0)

(* SBTextCreateParagraphIterator and its like: the whole text is the range.    *)
CreateIterator(kind) ==
    /\ reader = NoReader
    /\ reader' = ResetIterator(text, kind, 0, Length)
    /\ seen' = [FreshlySeen(seen.dropped) EXCEPT !.length = Length]
    /\ UNCHANGED <<text, lines>>

Reset(index, length) ==
    /\ reader.kind \in IteratorKinds
    /\ HoldsLine => seen.dropped < MaxDropped
    /\ reader' = ResetIterator(text, reader.kind, index, length)
    /\ seen' = [FreshlySeen(IF HoldsLine THEN seen.dropped + 1 ELSE seen.dropped)
                  EXCEPT !.index = index, !.length = length]
    /\ UNCHANGED <<text, lines>>

(* A line of paragraph p is created, loaded into the mirror locator, which     *)
(* retains it and releases the one that it had, and given up by the client.    *)
LoadLine(p, index, length) ==
    /\ reader.kind \in {"none", "mirror"}
    /\ \E line \in {SBParagraphCreateLine(p, index, length)} :
          /\ reader' = SBMirrorLocatorLoadLine(line)
          /\ lines' = lines - (IF HoldsLine THEN 1 ELSE 0) + (IF line # NoLine THEN 1 ELSE 0)
    /\ seen' = [FreshlySeen(seen.dropped) EXCEPT !.index = index, !.length = length]
    /\ UNCHANGED text

ResetMirrors ==
    /\ reader.kind = "mirror"
    /\ reader' = SBMirrorLocatorReset(reader)
    /\ seen' = [seen EXCEPT !.given = <<>>, !.finished = FALSE]
    /\ UNCHANGED <<text, lines>>

(* The client has levels or scripts copied out; the code asserts that the range *)
(* is in the text.                                                              *)
GetRange(kind, index, length) ==
    LET buffer == IF kind = "levels" THEN SBTextGetResolvedLevels(text, index, length)
                  ELSE SBTextGetScripts(text, index, length)
    IN  /\ reader = NoReader
        /\ index < Length /\ index + length <= Length
        /\ reader' = [kind |-> kind]
        /\ seen' = [index |-> index, length |-> length, finished |-> TRUE,
                    dropped |-> seen.dropped,
                    given |-> [k \in DOMAIN buffer |->
                        [index |-> index + k - 1, length |-> 1, value |-> buffer[k]]]]
        /\ UNCHANGED <<text, lines>>

Moved ==
    CASE reader.kind = "paragraph" -> ParagraphMoveNext(text, reader)
      [] reader.kind = "logical" -> LogicalMoveNext(text, reader)
      [] reader.kind = "script" -> ScriptMoveNext(text, reader)

(* The runs seen so far with one more; a locator that came to its end begins   *)
(* again.                                                                      *)
SeenWith(run, found) ==
    IF ~found THEN [seen EXCEPT !.finished = TRUE]
    ELSE [seen EXCEPT !.given = Append(IF seen.finished THEN <<>> ELSE @, run),
                      !.finished = FALSE]

MoveNext ==
    /\ reader.kind \in {"paragraph", "logical", "script"}
    /\ \E moved \in {Moved} :
          /\ reader' = moved.iterator
          /\ seen' = SeenWith(moved.iterator.current, moved.found)
    /\ UNCHANGED <<text, lines>>

MoveNextVisual ==
    /\ reader.kind = "visual"
    /\ \E moved \in {VisualMoveNext(text, reader, lines)} :
          /\ reader' = moved.iterator
          /\ lines' = moved.lines
          /\ seen' = SeenWith(moved.iterator.current, moved.found)
    /\ UNCHANGED text

MoveNextMirror ==
    /\ reader.kind = "mirror"
    /\ \E moved \in {SBMirrorLocatorMoveNext(reader, text.units)} :
          /\ reader' = moved.locator
          /\ seen' = SeenWith(moved.locator.agent, moved.found)
    /\ UNCHANGED <<text, lines>>

KeepsTheLine ==
    /\ reader # NoReader
    /\ reader' = NoReader
    /\ seen' = FreshlySeen(seen.dropped)
    /\ UNCHANGED <<text, lines>>

(* An iterator or a locator that is released releases the line that it holds.  *)
Release ==
    /\ reader # NoReader
    /\ reader' = NoReader
    /\ lines' = IF HoldsLine THEN lines - 1 ELSE lines
    /\ seen' = FreshlySeen(seen.dropped)
    /\ UNCHANGED text

Next ==
    \/ \E kind \in IteratorKinds : CreateIterator(kind)
    \/ \E index \in 0..Length, length \in Lengths(Length) : Reset(index, length)
    \/ \E k \in DOMAIN text.paragraphs, index \in 0..Length, length \in Lengths(Length) :
          LoadLine(text.paragraphs[k], index, length)
    \/ \E kind \in CopyKinds, index \in 0..Length, length \in Lengths(Length) :
          GetRange(kind, index, length)
    \/ ResetMirrors
    \/ MoveNext
    \/ MoveNextVisual
    \/ MoveNextMirror
    \/ Release

Spec == Init /\ [][Next]_vars

-------------------------------------------------------------------------------
(* What the readers promise, position by position *)

ParagraphOf(i) == CHOOSE p \in {text.paragraphs[k] : k \in DOMAIN text.paragraphs} :
                    i \in p.index..(ParagraphLimit(p) - 1)
OfUnit(s, i) == s[i - ParagraphOf(i).index + 1]

(* The units of the range that was asked for which are in the text.            *)
AskedEnd == Min({Length, seen.index + seen.length})
Asked == seen.index..(AskedEnd - 1)

(* The maximal runs of one value within a paragraph, cut to the range; the      *)
(* single units for what is copied out. ruled[i] are the runs from unit i on.   *)
RuledRuns(Value(_)) ==
    LET begins(i) == \/ reader.kind \in CopyKinds
                     \/ ParagraphOf(i) # ParagraphOf(i - 1)
                     \/ Value(i) # Value(i - 1)
        end(i) == Min({AskedEnd} \cup {j \in Asked : i < j /\ begins(j)})
        ruled[i \in seen.index..AskedEnd] ==
            IF i = AskedEnd THEN <<>>
            ELSE <<<<i, end(i) - i, Value(i)>>>> \o ruled[end(i)]
    IN  ruled[seen.index]

RuledValue(i) ==
    CASE reader.kind = "paragraph" -> ParagraphOf(i).baseLevel
      [] reader.kind \in {"logical", "levels"} -> OfUnit(ParagraphOf(i).levels, i)
      [] reader.kind \in {"script", "scripts"} -> OfUnit(ParagraphOf(i).scripts, i)

(* A range of a script run iterator that starts inside a paragraph.            *)
StartsInside ==
    reader.kind = "script" /\ Asked # {} /\ ParagraphOf(seen.index).index # seen.index

(* Rule L1 on the units of the line that starts at `start` and ends before      *)
(* `end`. An ignored unit goes with the one before it.                          *)
IsReset(types, start, end, i) ==
    LET isSpace(k) == types[k] \in Spaces \cup Ignored
        before == {k \in start..(i - 1) : types[k] \notin Ignored}
        resets(k) == \/ types[k] \in Separators
                     \/ /\ types[k] \in Spaces
                        /\ \E j \in (k + 1)..end :
                              /\ \A m \in (k + 1)..(j - 1) : isSpace(m)
                              /\ j = end \/ types[j] \in Separators
    IN  IF types[i] \in Ignored THEN before # {} /\ resets(Max(before)) ELSE resets(i)

(* A separator, a space and an ignored unit in this order, with nothing else    *)
(* between them, and the space is not reset.                                    *)
ResetsTooMuch(types, start, end) ==
    \E i, j, k \in start..(end - 1) :
        /\ i < j /\ j < k
        /\ types[i] \in Separators /\ types[j] \in Spaces /\ types[k] \in Ignored
        /\ \A m \in (i + 1)..k : types[m] \in Spaces \cup Ignored
        /\ ~IsReset(types, start, end, j)

(* The part of paragraph p that was asked for, as positions in p.              *)
PartStart(p) == Max({p.index, seen.index}) - p.index + 1
PartEnd(p) == Min({ParagraphLimit(p), AskedEnd}) - p.index + 1

RuledLevel(i) ==
    LET p == ParagraphOf(i)
    IN  IF IsReset(p.types, PartStart(p), PartEnd(p), i - p.index + 1)
        THEN p.baseLevel ELSE OfUnit(p.levels, i)

(* Rule L2 for two units of one line: what lies between them is reversed as     *)
(* often as their lowest level says.                                            *)
DisplayedBefore(i, j) ==
    LET lowest == Min({RuledLevel(k) : k \in Min({i, j})..Max({i, j})})
    IN  IF IsOdd(lowest) THEN i > j ELSE i < j

AsksForRuledLines ==
    \A i \in Asked : LET p == ParagraphOf(i)
                     IN  ~ResetsTooMuch(p.types, PartStart(p), PartEnd(p))

(* The units of a visual run in the order of display.                          *)
Displayed(run) ==
    LET upwards == [k \in 1..run.length |-> run.index + k - 1]
    IN  IF IsOdd(run.value) THEN Reverse(upwards) ELSE upwards

-------------------------------------------------------------------------------
(* Properties *)

(* The readers stay in the text: indices that the code uses as such are inside  *)
(* its arrays, and what the client is given are units of the text.              *)
TypeOK ==
    /\ lines \in Nat
    /\ seen.finished \in BOOLEAN /\ seen.dropped \in 0..MaxDropped
    /\ \A k \in DOMAIN seen.given : seen.given[k].index \in 0..(Length - 1)
    /\ reader.kind \in IteratorKinds =>
          /\ reader.parent.startIndex \in 0..Length \cup {SBInvalidIndex}
          /\ reader.parent.endIndex \in 0..Length \cup {SBInvalidIndex}
          /\ reader.parent.startIndex # reader.parent.endIndex =>
                reader.parent.paragraphIndex + 1 \in DOMAIN text.paragraphs
          /\ HoldsLine => reader.index + 1 \in DOMAIN reader.line.runs
    /\ reader.kind = "mirror" /\ HoldsLine => reader.runIndex + 1 \in DOMAIN reader.line.runs

(* Whatever range a client asks for, also one that ends beyond the text or near *)
(* the largest integer, the paragraph, logical run and script run iterators     *)
(* give it the maximal runs of the range in order, each once, and then the end; *)
(* and the copies of levels and scripts have those of each unit. Of a range     *)
(* that starts inside a paragraph the script runs do not.                       *)
RunsAsPromised ==
    reader.kind \in {"paragraph", "logical", "script"} \cup CopyKinds /\ ~StartsInside =>
        LET given == [k \in DOMAIN seen.given |->
                <<seen.given[k].index, seen.given[k].length,
                  IF reader.kind = "paragraph" THEN seen.given[k].baseLevel
                  ELSE seen.given[k].value>>]
            ruled == RuledRuns(RuledValue)
        IN  /\ IsPrefix(given, ruled)
            /\ seen.finished => given = ruled

(* Every code point has the script of the text around it: its own, that of the  *)
(* punctuation that it closes, or the one before it, and at the start of a      *)
(* paragraph the one after it. Runs, ring and sealing of pairs are not seen.    *)
ScriptsAsRuled ==
    LET ruled(p) ==
            LET at(i) == text.units[p.index + i]
                outer == 1..p.length
                latest(s) == IF Len(s) > ScriptStackCapacity THEN Tail(s) ELSE s
                pairs[i \in 0..p.length] ==    \* the openings that are open after i
                    LET open == pairs[i - 1]
                        matches == {k \in DOMAIN open : LookupMirror(at(open[k])) = at(i)}
                    IN  IF i = 0 THEN <<>>
                        ELSE IF IsPaired(at(i), "Ps") THEN latest(Append(open, i))
                        ELSE IF ~IsPaired(at(i), "Pe") THEN open
                        ELSE IF matches = {} THEN <<>>
                        ELSE SubSeq(open, 1, Max(matches) - 1)
                opening(i) == {pairs[i - 1][k] : k \in (Len(pairs[i]) + 1)..Len(pairs[i - 1])}
                closes(i) == /\ IsPaired(at(i), "Pe")
                             /\ \E j \in opening(i) : LookupMirror(at(j)) = at(i)
                opener(i) == Max({j \in opening(i) : LookupMirror(at(j)) = at(i)})
                own[i \in outer] ==
                    LET around == {k \in 1..(i - 1) : ~IsCommonOrInherited(own[k])}
                        before == {k \in around : k <= opener(i)}
                    IN  IF ~closes(i) THEN LookupScript(at(i))
                        ELSE IF before # {} THEN own[Max(before)]
                        ELSE IF around # {} THEN own[Min(around)]
                        ELSE "common"
                concrete == {k \in outer : ~IsCommonOrInherited(own[k])}
            IN  [i \in outer |->
                    LET before == {k \in concrete : k <= i}
                    IN  IF before # {} THEN own[Max(before)]
                        ELSE IF concrete # {} THEN own[Min(concrete)]
                        ELSE "common"]
    IN  \A k \in DOMAIN text.paragraphs : text.paragraphs[k].scripts = ruled(text.paragraphs[k])

(* A visual run iterator gives every unit of the range once, in the order that  *)
(* rules L1 and L2 state for the lines that the range cuts from the paragraphs, *)
(* from the last paragraph to the first one if the first one is right to left;  *)
(* and no two of its runs could be one. Ranges with a line that ResetsTooMuch   *)
(* are excepted: there the code sets levels back that rule L1 does not name.    *)
VisualRunsAsRuled ==
    reader.kind = "visual" /\ seen.finished /\ AsksForRuledLines =>
        LET given == seen.given
            units == FlattenSeq([k \in DOMAIN given |-> Displayed(given[k])])
            rightwards == ~IsOdd(ParagraphOf(seen.index).baseLevel)
            before(i, j) == IF ParagraphOf(i) = ParagraphOf(j) THEN DisplayedBefore(i, j)
                            ELSE rightwards = (i < j)
        IN  /\ Len(units) = Cardinality(Asked)
            /\ ToSet(units) = Asked
            /\ \A m, n \in DOMAIN units : m < n => before(units[m], units[n])
            /\ \A k \in DOMAIN given : \A i \in ToSet(Displayed(given[k])) :
                  given[k].value = RuledLevel(i)
            /\ \A k, m \in DOMAIN given :
                  given[k].index + given[k].length = given[m].index =>
                    \/ given[k].value # given[m].value
                    \/ ParagraphOf(given[k].index) # ParagraphOf(given[m].index)

(* A mirror locator that reports the end has reported every code point of the   *)
(* line that is mirrored and displayed from right to left, each once, run after *)
(* run in the order of display, and upwards within a run; also the second time. *)
(* As above, a line that ResetsTooMuch is excepted.                             *)
MirrorsAsRuled ==
    reader.kind = "mirror" /\ HoldsLine /\ seen.finished /\ AsksForRuledLines =>
        LET mirrored == {i \in Asked : IsOdd(RuledLevel(i))
                                       /\ LookupMirror(text.units[i + 1]) # NoMirror}
            inOneRun(i, j) == \A k \in i..j : RuledLevel(k) = RuledLevel(i)
            before(i, j) == IF inOneRun(Min({i, j}), Max({i, j})) THEN i < j
                            ELSE DisplayedBefore(i, j)
            given == seen.given
        IN  /\ {given[k].index : k \in DOMAIN given} = mirrored
            /\ \A k, m \in DOMAIN given : k < m => before(given[k].index, given[m].index)
            /\ \A k \in DOMAIN given :
                  given[k].mirror = LookupMirror(text.units[given[k].index + 1])

(* The array of a line is allocated before its levels are reset, by a count of  *)
(* level changes and resets: no line has more runs than that.                   *)
RunsFit == HoldsLine => Len(reader.line.runs) \in 1..reader.line.capacity

(* However a client resets, moves and releases, the only lines alive are the    *)
(* one that its reader holds and those that resets of a visual run iterator     *)
(* have forgotten.                                                              *)
LinesReleased == lines = (IF HoldsLine THEN 1 ELSE 0) + seen.dropped
==============================================================================
