---------------------------- MODULE SBTextIterators ---------------------------
(* The iterators over an analysed text: SBTextIterators.c without attributes,  *)
(* which AttributeManager has.                                                 *)
(*                                                                             *)
(* A text is [units, paragraphs]; a paragraph is [index, length,               *)
(* baseLevel, types, levels, scripts], with the analyses that it was given     *)
(* last. An iterator is [kind, parent, index, current, line]: parent is its    *)
(* TextIterator, index its levelIndex, scriptIndex or runIndex. Indices count  *)
(* from 0.                                                                     *)
EXTENDS SBMirrorLocator, SBScriptLocator

ASSUME SBInvalidIndexAssumption == SBInvalidIndex \in Nat \ {0}

NoRun == [index |-> SBInvalidIndex, length |-> 0]

LetsWrap(actualLength, index, length) ==
    LET limit == (index + length) % (SBInvalidIndex + 1)
    IN  IF index >= actualLength THEN [index |-> SBInvalidIndex, length |-> 0]
        ELSE IF limit <= actualLength
        THEN [index |-> index, length |-> length]
        ELSE [index |-> index, length |-> actualLength - index]

(* SBUIntegerNormalizeRange; the sum may wrap around.                          *)
SBUIntegerNormalizeRange(actualLength, index, length) ==
    LET limit == (index + length) % (SBInvalidIndex + 1)
    IN  IF index >= actualLength THEN [index |-> SBInvalidIndex, length |-> 0]
        ELSE IF index <= limit /\ limit <= actualLength
        THEN [index |-> index, length |-> length]
        ELSE [index |-> index, length |-> actualLength - index]

ParagraphLimit(p) == p.index + p.length

(* SBTextGetCodeUnitParagraphIndex *)
CodeUnitParagraphIndex(text, i) ==
    (CHOOSE k \in DOMAIN text.paragraphs :
        i \in text.paragraphs[k].index..(ParagraphLimit(text.paragraphs[k]) - 1)) - 1

(* In the visual mode the first paragraph decides for all where to begin.      *)
ResetTextIterator(text, visualDirectionMode, index, length) ==
    LET range == SBUIntegerNormalizeRange(Len(text.units), index, length)
        end == (range.index + range.length) % (SBInvalidIndex + 1)
        first == CodeUnitParagraphIndex(text, range.index)
        paragraph == text.paragraphs[first + 1]
        forwardMode == range.length = 0 \/ ~visualDirectionMode \/ ~IsOdd(paragraph.baseLevel)
    IN  [visualDirectionMode |-> visualDirectionMode,
         forwardMode |-> forwardMode,
         startIndex |-> range.index,
         endIndex |-> end,
         paragraphIndex |-> IF range.length = 0 THEN SBInvalidIndex
                            ELSE IF ~forwardMode /\ ParagraphLimit(paragraph) < end
                            THEN CodeUnitParagraphIndex(text, end - 1)
                            ELSE first,
         paragraph |-> SBInvalidIndex,
         paragraphStart |-> SBInvalidIndex,
         paragraphEnd |-> SBInvalidIndex]

IgnoresEnd(text, parent) ==
    LET paragraph == text.paragraphs[parent.paragraphIndex + 1]
        start == Max({paragraph.index, parent.startIndex})
        end == ParagraphLimit(paragraph)
        current == [parent EXCEPT !.paragraph = parent.paragraphIndex,
                                  !.paragraphStart = start, !.paragraphEnd = end]
    IN  IF parent.endIndex = parent.startIndex
        THEN [parent |-> parent, advanced |-> FALSE]
        ELSE [parent |-> [current EXCEPT !.startIndex = end, !.paragraphIndex = @ + 1],
              advanced |-> TRUE]

(* The next paragraph, cut to the range; paragraph is its position in the list. *)
AdvanceTextIterator(text, parent) ==
    LET paragraph == text.paragraphs[parent.paragraphIndex + 1]
        start == Max({paragraph.index, parent.startIndex})
        end == Min({ParagraphLimit(paragraph), parent.endIndex})
        current == [parent EXCEPT !.paragraph = parent.paragraphIndex,
                                  !.paragraphStart = start, !.paragraphEnd = end]
    IN  IF parent.endIndex = parent.startIndex
        THEN [parent |-> parent, advanced |-> FALSE]
        ELSE IF parent.forwardMode
        THEN [parent |-> [current EXCEPT !.startIndex = end, !.paragraphIndex = @ + 1],
              advanced |-> TRUE]
        ELSE [parent |-> [current EXCEPT !.endIndex = start,
                              !.paragraphIndex = IF @ = 0 THEN SBInvalidIndex ELSE @ - 1],
              advanced |-> TRUE]

(* The reset of each iterator; of a visual one, the line that it held is        *)
(* forgotten and not released.                                                  *)
ResetIterator(text, kind, index, length) ==
    [kind |-> kind,
     parent |-> ResetTextIterator(text, kind = "visual", index, length),
     index |-> SBInvalidIndex, current |-> NoRun, line |-> NoLine]

CurrentParagraph(text, parent) == text.paragraphs[parent.paragraph + 1]

(* SBParagraphIteratorMoveNext *)
ParagraphMoveNext(text, iterator) ==
    LET next == AdvanceTextIterator(text, iterator.parent)
        parent == next.parent
    IN  IF ~next.advanced THEN [iterator |-> iterator, found |-> FALSE]
        ELSE [iterator |-> [iterator EXCEPT
                !.parent = parent,
                !.current = [index |-> parent.paragraphStart,
                             length |-> parent.paragraphEnd - parent.paragraphStart,
                             baseLevel |-> CurrentParagraph(text, parent).baseLevel]],
              found |-> TRUE]

(* SBLogicalRunIteratorMoveNext and SBScriptRunIteratorMoveNext, which differ in *)
(* the value of the unit at a position.                                         *)
RunMoveNext(text, iterator, ValueAt(_, _)) ==
    LET loads == iterator.index = SBInvalidIndex
        next == AdvanceTextIterator(text, iterator.parent)
        parent == IF loads THEN next.parent ELSE iterator.parent
        from == IF loads THEN 0 ELSE iterator.index
        start == IF loads THEN iterator.parent.startIndex
                 ELSE iterator.current.index + iterator.current.length
        length == parent.paragraphEnd - parent.paragraphStart
        value == ValueAt(parent, from)
        end == Min({length} \cup {k \in (from + 1)..(length - 1) :
                                     ValueAt(parent, k) # value})
    IN  IF loads /\ ~next.advanced
        THEN [iterator |-> [iterator EXCEPT !.current = NoRun], found |-> FALSE]
        ELSE [iterator |-> [iterator EXCEPT
                !.parent = parent,
                !.index = IF end = length THEN SBInvalidIndex ELSE end,
                !.current = [index |-> start, length |-> end - from, value |-> value]],
              found |-> TRUE]

(* The level of the unit at a position of the part of the paragraph at hand.   *)
(* The code subtracts the offset that the SBParagraph remembers: it is the      *)
(* index of the paragraph as long as no edit shifted the paragraph without      *)
(* analysing it again (SBText.LevelsAddressed), and texts here are fresh.       *)
LevelAt(text, parent, k) ==
    LET p == CurrentParagraph(text, parent)
    IN  p.levels[parent.paragraphStart - p.index + k + 1]

(* Of the scripts, the position is taken as one of the whole paragraph.        *)
ScriptAt(text, parent, k) == CurrentParagraph(text, parent).scripts[k + 1]

LogicalMoveNext(text, iterator) ==
    RunMoveNext(text, iterator, LAMBDA parent, k : LevelAt(text, parent, k))

ScriptMoveNext(text, iterator) ==
    RunMoveNext(text, iterator, LAMBDA parent, k : ScriptAt(text, parent, k))

(* SBTextGetResolvedLevels and SBTextGetScripts: the parts of the paragraphs'    *)
(* arrays that the range meets, one after the other.                            *)
CopyRange(text, index, length, ArrayOf(_)) ==
    LET end == index + length
        first == CodeUnitParagraphIndex(text, index) + 1
        copy(s, p) ==
            LET copyStart == Max({p.index, s.rangeStart})
                copyEnd == Min({ParagraphLimit(p), end})
            IN  IF s.rangeStart >= end THEN s
                ELSE [rangeStart |-> copyEnd,
                      buffer |-> s.buffer \o SubSeq(ArrayOf(p), copyStart - p.index + 1,
                                                    copyEnd - p.index)]
    IN  FoldLeft(copy, [rangeStart |-> index, buffer |-> <<>>],
                 SubSeq(text.paragraphs, first, Len(text.paragraphs))).buffer

SBTextGetResolvedLevels(text, index, length) ==
    CopyRange(text, index, length, LAMBDA p : p.levels)

SBTextGetScripts(text, index, length) ==
    CopyRange(text, index, length, LAMBDA p : p.scripts)

(* SBParagraphCreateLine: none where the range is not inside the paragraph.    *)
SBParagraphCreateLine(p, offset, length) ==
    LET limit == offset + length
        part(s) == SubSeq(s, offset - p.index + 1, limit - p.index)
    IN  IF offset < limit /\ offset >= p.index /\ limit <= ParagraphLimit(p)
        THEN SBLineCreate(part(p.types), part(p.levels), offset, p.baseLevel)
        ELSE NoLine

(* The next run of the line at hand; with its last run the line is released.   *)
VisualRun(iterator, parent, line, runIndex, lines) ==
    LET run == line.runs[runIndex + 1]
        isLast == runIndex + 1 = Len(line.runs)
    IN  [iterator |-> [iterator EXCEPT
            !.parent = parent,
            !.index = runIndex + 1,
            !.line = IF isLast THEN NoLine ELSE line,
            !.current = [index |-> run.offset, length |-> run.length, value |-> run.level]],
         found |-> TRUE,
         lines |-> IF isLast THEN lines - 1 ELSE lines]

(* The first run of the line that the part of the next paragraph makes.        *)
FirstVisualRun(text, iterator, next, lines) ==
    LET parent == next.parent
        line == SBParagraphCreateLine(CurrentParagraph(text, parent), parent.paragraphStart,
                                      parent.paragraphEnd - parent.paragraphStart)
    IN  IF next.advanced
        THEN VisualRun(iterator, parent, line, 0, lines + 1)
        ELSE [iterator |-> [iterator EXCEPT !.current = NoRun], found |-> FALSE,
              lines |-> lines]

(* SBVisualRunIteratorMoveNext; lines is how many lines are alive.             *)
VisualMoveNext(text, iterator, lines) ==
    IF iterator.line # NoLine
    THEN VisualRun(iterator, iterator.parent, iterator.line, iterator.index, lines)
    ELSE FirstVisualRun(text, iterator, AdvanceTextIterator(text, iterator.parent), lines)
==============================================================================
