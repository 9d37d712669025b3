------------------------------- MODULE SBText -------------------------------
(***************************************************************************)
(* The text object of Source/API/SBText.c: code units, the bidi type of    *)
(* every code unit, and the list of paragraphs with what was analysed for  *)
(* each of them.  Editing calls update the three lists incrementally and   *)
(* analyse the dirty paragraphs, at once or when a batch ends.             *)
(*                                                                         *)
(* Code units are abstracted to the classes this code tells apart.  "lead" *)
(* followed by "trail" is one code point of two code units: a surrogate    *)
(* pair of UTF-16, or U+0085 of UTF-8, which is a paragraph separator.     *)
(* Each of them alone is a faulty code point of one code unit.  Indices    *)
(* are those of the code, from 0; TLA+ sequences count from 1.             *)
(***************************************************************************)
EXTENDS Integers, Sequences, SequencesExt, FiniteSets

CONSTANTS
  Encodings,    (* encodings a text is created with                       *)
  Chunks,       (* what a client passes as codeUnitBuffer                 *)
  MaxLength     (* bound: code units in the text                          *)

CodeUnits == {"letter", "CR", "LF", "lead", "trail"}

BidiTypes == {"B", "L", "ON", "BN"}

ASSUME ConstantsAssumption ==
  /\ Encodings \subseteq {"UTF8", "UTF16"}
  /\ Chunks \subseteq Seq(CodeUnits)
  /\ MaxLength \in Nat

VARIABLES
  encoding,     (* text->encoding                                         *)
  codeUnits,    (* text->codeUnits                                        *)
  bidiTypes,    (* text->bidiTypes                                        *)
  paragraphs,   (* text->paragraphs, a sequence of TextParagraph records  *)
  isEditing,    (* text->isEditing                                        *)
  isMutable     (* text->isMutable                                        *)

vars == <<encoding, codeUnits, bidiTypes, paragraphs, isEditing, isMutable>>

(* A reserved, not yet written element of a list.                          *)
Garbage == "garbage"

(* A paragraph that was never analysed: bidiParagraph is NULL.             *)
NotAnalysed == [offset |-> -1, content |-> <<>>]

AtLeastZero(n) == IF n >= 0 THEN n ELSE 0

AtMost(n, limit) == IF n <= limit THEN n ELSE limit

(* The elements at the indices from..(to - 1).                             *)
Slice(seq, from, to) == SubSeq(seq, from + 1, to)

(* seq with the elements at index..(index + removed - 1) replaced.         *)
Splice(seq, index, removed, new) ==
  [k \in 1..(Len(seq) - removed + Len(new)) |->
     IF k <= index THEN seq[k]
     ELSE IF k <= index + Len(new) THEN new[k - index]
     ELSE seq[k - Len(new) + removed]]

-----------------------------------------------------------------------------
(* Code points and their bidi types.                                       *)

(* Code units i and i + 1 form one code point.                             *)
IsPairAt(units, i) ==
  /\ i >= 0 /\ i + 1 < Len(units)
  /\ units[i + 1] = "lead" /\ units[i + 2] = "trail"

PairType(enc) == IF enc = "UTF8" THEN "B" ELSE "L"

(* The first unit of a code point carries its type, the others are BN.     *)
DetermineBidiTypes(enc, units) ==
  [k \in 1..Len(units) |->
    CASE units[k] \in {"CR", "LF"} -> "B"
      [] units[k] = "letter"       -> "L"
      [] IsPairAt(units, k - 1)    -> PairType(enc)
      [] IsPairAt(units, k - 2)    -> "BN"
      [] OTHER                     -> "ON"]

(* A code point is one separator; so are CR and LF in sequence.            *)
GetSeparatorLength(units, i) ==
  IF \/ IsPairAt(units, i)
     \/ i + 1 < Len(units) /\ units[i + 1] = "CR" /\ units[i + 2] = "LF"
  THEN 2 ELSE 1

(* The paragraph that starts at offset: it ends with its separator, found  *)
(* by the recorded types, or with the text.                                *)
GetParagraphBoundary(units, types, offset) ==
  LET at == SelectInSubSeq(types, offset + 1, Len(units), LAMBDA t : t = "B") - 1
      separator == IF at < 0 THEN 0 ELSE GetSeparatorLength(units, at)
  IN  [separatorLength |-> separator,
       length |-> IF at < 0 THEN Len(units) - offset ELSE at + separator - offset]

-----------------------------------------------------------------------------
(* Incremental classification: only a window around an edit is redone.     *)

NoSurround(enc) == 0

GetMaxCodeUnitsPerCodepoint(enc) == IF enc = "UTF8" THEN 4 ELSE 2

(* First code unit of the code point that contains i.                      *)
SkipToStart(units, i) == IF IsPairAt(units, i - 1) THEN i - 1 ELSE i

(* One past the code point that contains i.                                *)
SkipToEnd(units, i) == IF IsPairAt(units, i) THEN i + 2 ELSE i + 1

DetermineChunkBidiTypes(enc, units, types, index, length) ==
  LET surround == GetMaxCodeUnitsPerCodepoint(enc)
      start == SkipToStart(units, AtLeastZero(index - surround))
      end   == SkipToEnd(units, AtMost(index + length + surround, Len(units)) - 1)
  IN  IF units = <<>> THEN types
      ELSE Splice(types, start, end - start,
                  DetermineBidiTypes(enc, Slice(units, start, end)))

GrowsOnly(enc, units, types, index, oldLength, newLength) ==
  DetermineChunkBidiTypes(enc, units,
    Splice(types, index, 0, [k \in 1..AtLeastZero(newLength - oldLength) |-> Garbage]),
    index, newLength)

(* The list is first resized at index, then the window is classified.      *)
ReplaceBidiTypes(enc, units, types, index, oldLength, newLength) ==
  DetermineChunkBidiTypes(enc, units,
    IF newLength > oldLength
    THEN Splice(types, index, 0, [k \in 1..(newLength - oldLength) |-> Garbage])
    ELSE Splice(types, index, oldLength - newLength, <<>>),
    index, newLength)

-----------------------------------------------------------------------------
(* The paragraph list.                                                     *)

ParagraphEnd(p) == p.index + p.length

EmptyParagraph ==
  [index |-> 0, length |-> 0, needsReanalysis |-> TRUE, analysis |-> NotAnalysed]

(* Position in paras, from 1, of the paragraph that contains code unit i;  *)
(* 0 stands for SBInvalidIndex.                                            *)
GetCodeUnitParagraphIndex(paras, i) ==
  SelectInSeq(paras, LAMBDA p : p.index <= i /\ i < ParagraphEnd(p))

(* A slot of the edited range may be reused; one beyond it is kept.        *)
TouchedStrictly(p, oldEnd) == p.index < oldEnd

IsTouched(p, oldEnd) == p.index <= oldEnd

Unmarked(p, index, length) == [p EXCEPT !.index = index, !.length = length]

(* The earlier analysis of a dirty paragraph stays allocated until it is   *)
(* replaced, but nothing reads it any more: it is forgotten here.          *)
MarkForReanalysis(p, index, length) ==
  [p EXCEPT !.index = index, !.length = length, !.needsReanalysis = TRUE,
            !.analysis = NotAnalysed]

(* One turn of the scan: scan is scanIndex, slot is paragraphIndex from 1, *)
(* newEnd is the code unit that the scan must reach.                       *)
ScanParagraph(st, units, types, replaceStart, oldLength, newLength) ==
  LET oldEnd   == replaceStart + oldLength
      boundary == GetParagraphBoundary(units, types, st.scan)
      reuse    == st.slot <= Len(st.paras) /\ IsTouched(st.paras[st.slot], oldEnd)
      splits   == /\ reuse
                  /\ ParagraphEnd(st.paras[st.slot]) > oldEnd
                  /\ boundary.separatorLength > 0
      slots    == IF reuse THEN st.paras ELSE InsertAt(st.paras, st.slot, EmptyParagraph)
      scan     == st.scan + boundary.length
      newEnd   == IF splits THEN ParagraphEnd(st.paras[st.slot]) + newLength - oldLength
                            ELSE st.newEnd
  IN  [scan   |-> scan,
       slot   |-> st.slot + 1,
       newEnd |-> newEnd,
       paras  |-> [slots EXCEPT
                     ![st.slot] = MarkForReanalysis(@, st.scan, boundary.length)],
       done   |-> scan > replaceStart /\ scan >= newEnd]

(* Rescan from the first affected paragraph, drop the touched slots that   *)
(* were not reused, and shift the paragraphs after them.                   *)
UpdateParagraphsForTextReplacement(paras, units, types, replaceStart, oldLength, newLength) ==
  LET found == GetCodeUnitParagraphIndex(paras, AtLeastZero(replaceStart - 1))
      first == [scan   |-> IF found = 0 THEN replaceStart ELSE paras[found].index,
                slot   |-> IF found = 0 THEN Len(paras) + 1 ELSE found,
                newEnd |-> replaceStart + newLength,
                paras  |-> paras,
                done   |-> FALSE]
      Turn(st, n) ==
        IF st.done \/ st.scan >= Len(units) THEN st
        ELSE ScanParagraph(st, units, types, replaceStart, oldLength, newLength)
      last  == FoldLeft(Turn, first, units)    \* a turn consumes at least one code unit
      kept  == SelectInSubSeq(last.paras, last.slot, Len(last.paras),
                              LAMBDA p : ~IsTouched(p, replaceStart + oldLength))
      after == IF kept = 0 THEN <<>> ELSE SubSeq(last.paras, kept, Len(last.paras))
  IN  SubSeq(last.paras, 1, last.slot - 1)
        \o [k \in 1..Len(after) |-> [after[k] EXCEPT !.index = @ + newLength - oldLength]]

(* The length of the paragraph that is analysed: up to the first separator *)
(* in the suggested length, and with all of it.                            *)
DetermineBoundary(units, types, offset, suggestedLength) ==
  LET boundary == GetParagraphBoundary(units, types, offset)
      found    == boundary.separatorLength > 0
                  /\ boundary.length - boundary.separatorLength < suggestedLength
  IN  IF found THEN boundary.length ELSE suggestedLength

(* GenerateBidiParagraph and PopulateParagraphScripts: the code units the  *)
(* levels and scripts were computed from, and the offset that the          *)
(* SBParagraph remembers.                                                  *)
Analyse(units, types, p) ==
  LET length == DetermineBoundary(units, types, p.index, p.length)
  IN  [p EXCEPT !.needsReanalysis = FALSE,
                !.analysis = [offset  |-> p.index,
                              content |-> Slice(units, p.index, p.index + length)]]

AnalyzeDirtyParagraphs(units, types, paras) ==
  [k \in 1..Len(paras) |->
    IF paras[k].needsReanalysis THEN Analyse(units, types, paras[k]) ELSE paras[k]]

-----------------------------------------------------------------------------
(* Client operations.                                                      *)

(* SBTextReplaceCodeUnits.  SBTextInsertCodeUnits and AppendCodeUnits are  *)
(* oldLength = 0, SBTextDeleteCodeUnits is chunk = <<>> and                *)
(* SBTextSetCodeUnits replaces everything: they make the same calls.       *)
ReplaceCodeUnits(index, oldLength, chunk) ==
  LET units == Splice(codeUnits, index, oldLength, chunk)
      types == ReplaceBidiTypes(encoding, units, bidiTypes, index, oldLength, Len(chunk))
      paras == UpdateParagraphsForTextReplacement(paragraphs, units, types,
                                                  index, oldLength, Len(chunk))
  IN  /\ isMutable
      /\ oldLength > 0 \/ chunk # <<>>
      /\ codeUnits' = units
      /\ bidiTypes' = types
      /\ paragraphs' = IF isEditing THEN paras ELSE AnalyzeDirtyParagraphs(units, types, paras)
      /\ UNCHANGED <<encoding, isEditing, isMutable>>

BeginEditing ==
  /\ isMutable
  /\ isEditing' = TRUE
  /\ UNCHANGED <<encoding, codeUnits, bidiTypes, paragraphs, isMutable>>

EndsWithoutAnalysis ==
  /\ isMutable
  /\ isEditing' = FALSE
  /\ UNCHANGED <<encoding, codeUnits, bidiTypes, paragraphs, isMutable>>

EndEditing ==
  /\ isMutable
  /\ paragraphs' = AnalyzeDirtyParagraphs(codeUnits, bidiTypes, paragraphs)
  /\ isEditing' = FALSE
  /\ UNCHANGED <<encoding, codeUnits, bidiTypes, isMutable>>

(* The client goes on with a copy: SBTextCreateMutableCopy if mutable,     *)
(* SBTextCreateCopy otherwise.  A clean paragraph shares the analysis of   *)
(* its source; the dirty ones are analysed, and no batch is open.          *)
CreateCopy(mutable) ==
  /\ paragraphs' = AnalyzeDirtyParagraphs(codeUnits, bidiTypes, paragraphs)
  /\ isEditing' = FALSE
  /\ isMutable' = mutable
  /\ UNCHANGED <<encoding, codeUnits, bidiTypes>>

Init ==
  /\ encoding \in Encodings
  /\ codeUnits = <<>>
  /\ bidiTypes = <<>>
  /\ paragraphs = <<>>
  /\ isEditing = FALSE
  /\ isMutable = TRUE

(* The edits whose range is valid and whose result stays in the bound.     *)
IsEdit(index, oldLength, chunk) ==
  /\ index + oldLength <= Len(codeUnits)
  /\ Len(codeUnits) - oldLength + Len(chunk) <= MaxLength

Edit ==
  \E index, oldLength \in 0..Len(codeUnits), chunk \in Chunks :
    IsEdit(index, oldLength, chunk) /\ ReplaceCodeUnits(index, oldLength, chunk)

Batch == BeginEditing \/ EndEditing

Next == Edit \/ Batch \/ (\E mutable \in BOOLEAN : CreateCopy(mutable))

Spec == Init /\ [][Next]_vars

-----------------------------------------------------------------------------
(* The segmentation of a text into paragraphs, by rule P1 of UAX #9: the   *)
(* reference that the incremental update is compared with.                 *)

IsParagraphEnd(units, i) ==
  \/ i = Len(units)
  \/ units[i] = "LF"
  \/ units[i] = "CR" /\ units[i + 1] # "LF"
  \/ PairType(encoding) = "B" /\ IsPairAt(units, i - 2)

Ends(units) == {i \in 1..Len(units) : IsParagraphEnd(units, i)}

(* Where the paragraph that holds the code unit before index starts.       *)
AffectedStart(index) ==
  LET before == {e \in Ends(codeUnits) : e < index}
  IN  IF before = {} THEN 0 ELSE Max(before)

(* UpdateParagraphsForTextReplacement stops at the end of the new text     *)
(* when a paragraph ends there, and then drops every slot that starts at   *)
(* or before the end of the old text.  KeepsTail holds of the edits for    *)
(* which the text that follows had its slot reused by then.                *)
KeepsTail(index, oldLength, chunk) ==
  LET units  == Splice(codeUnits, index, oldLength, chunk)
      newEnd == index + Len(chunk)
      Between(ends, last) == {e \in ends : AffectedStart(index) < e /\ e <= last}
  IN  (chunk # <<>> /\ newEnd < Len(units) /\ newEnd \in Ends(units)) =>
        Cardinality(Between(Ends(units), newEnd)) >
        Cardinality(Between(Ends(codeUnits), index + oldLength))

(* Where the edit ends, the removed text does not cut a separator of two   *)
(* code units and the new text does not make one.                          *)
KeepsSeparator(index, oldLength, chunk) ==
  PairType(encoding) = "B" =>
    /\ ~IsPairAt(codeUnits, index + oldLength - 1)
    /\ ~IsPairAt(Splice(codeUnits, index, oldLength, chunk), index + Len(chunk) - 1)

TailKeepingEdit ==
  \E index, oldLength \in 0..Len(codeUnits), chunk \in Chunks :
    /\ IsEdit(index, oldLength, chunk)
    /\ KeepsTail(index, oldLength, chunk)
    /\ KeepsSeparator(index, oldLength, chunk)
    /\ ReplaceCodeUnits(index, oldLength, chunk)

TailKeepingNext ==
  TailKeepingEdit \/ Batch \/ (\E mutable \in BOOLEAN : CreateCopy(mutable))

TailKeepingSpec == Init /\ [][TailKeepingNext]_vars

-----------------------------------------------------------------------------
(* Properties.                                                             *)

(* The lists have the shapes the code relies on; bidiTypes has one element *)
(* per code unit and none of them was left unwritten by a resize.          *)
TypeOK ==
  /\ encoding \in Encodings
  /\ codeUnits \in Seq(CodeUnits)
  /\ bidiTypes \in Seq(BidiTypes)
  /\ Len(bidiTypes) = Len(codeUnits)
  /\ isEditing \in BOOLEAN /\ isMutable \in BOOLEAN

(* Classifying only a window around each edit leaves every code unit with  *)
(* the type that classifying the whole text would give it, even when edits *)
(* tear code points apart or join their halves (DetermineChunkBidiTypes).  *)
BidiTypesCurrent == bidiTypes = DetermineBidiTypes(encoding, codeUnits)

(* The paragraph list tiles the text exactly as rule P1 segments it, after *)
(* any sequence of edits (UpdateParagraphsForTextReplacement).             *)
Segmented ==
  /\ {ParagraphEnd(paragraphs[k]) : k \in 1..Len(paragraphs)} = Ends(codeUnits)
  /\ Len(paragraphs) = Cardinality(Ends(codeUnits))
  /\ \A k \in 1..Len(paragraphs) :
       paragraphs[k].index = IF k = 1 THEN 0 ELSE ParagraphEnd(paragraphs[k - 1])

(* A paragraph that is not marked dirty was analysed from exactly the code *)
(* units it holds now: no edit changes a paragraph without marking it.     *)
CleanIsCurrent ==
  \A k \in 1..Len(paragraphs) : ~paragraphs[k].needsReanalysis =>
    paragraphs[k].analysis.content =
      Slice(codeUnits, paragraphs[k].index, ParagraphEnd(paragraphs[k]))

(* Outside a batch nothing is left to analyse: the queries that assert     *)
(* !isEditing always find the result of an analysis.                       *)
AnalysedOutsideBatch ==
  ~isEditing => \A k \in 1..Len(paragraphs) : ~paragraphs[k].needsReanalysis

(* What SBTextGetResolvedLevels, the logical run iterator and             *)
(* SBParagraphCreateLine read for code unit i of a paragraph: the entry at *)
(* i - bidiParagraph->offset of the levels of its analysis.                *)
ResolvedLevelIndex(p, i) == i - p.analysis.offset

(* Every resolved level is read at the entry of its own code unit.         *)
LevelsAddressed ==
  ~isEditing => \A k \in 1..Len(paragraphs) :
    LET p == paragraphs[k] IN
    \A i \in p.index..(ParagraphEnd(p) - 1) :
      ResolvedLevelIndex(p, i) = i - p.index
=============================================================================
