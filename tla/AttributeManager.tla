-------------------------- MODULE AttributeManager ---------------------------
(* The attributes of an SBText: AttributeManager.c, driven by the edits and    *)
(* the attribute calls of SBText.c and read by the attribute run iterator of   *)
(* SBTextIterators.c.                                                          *)
(*                                                                             *)
(* The manager keeps a list of entries: an entry covers the code units from    *)
(* its index to the index of the next one. Code units count from 0, as in the  *)
(* code; entries count from 1. Of a code unit only one thing matters here,     *)
(* whether it ends a paragraph. SBText brings its paragraphs up to date before *)
(* it calls the manager (SBText.Segmented), so that they are derived here from *)
(* the units. The separators of this module always separate: a CR that is      *)
(* joined by a LF is the matter of SBText.                                     *)
EXTENDS AttributeDictionary, FiniteSetsExt

CONSTANTS MaxLength,      \* bound: code units of a text
          MaxInsert,      \* bound: code units that one edit brings in
          SBInvalidIndex  \* the largest SBUInteger, which no index reaches

ASSUME BoundsAssumption == MaxLength \in Nat /\ MaxInsert \in Nat
ASSUME SBInvalidIndexAssumption == SBInvalidIndex \in Nat /\ SBInvalidIndex > MaxLength

VARIABLES units,        \* for every code unit, whether it ends a paragraph
          manager,      \* the AttributeManager of the text
          attributes,   \* derived from the entries after each step: for every code
                        \* unit a function from attribute to value
          call          \* the last call with its arguments, which no action reads

vars == <<units, manager, attributes, call>>

ParagraphStart(u, i) == Max({0} \cup {k \in 1..i : u[k]})
ParagraphEnd(u, i) == Min({Len(u)} \cup {k \in (i + 1)..Len(u) : u[k]})

-------------------------------------------------------------------------------
(* The dictionary cache and the entries *)

(* A dictionary is taken from the cache, or created where that is empty.       *)
Acquire(m) ==
    IF m.cached = 0 THEN [m EXCEPT !.created = @ + 1] ELSE [m EXCEPT !.cached = @ - 1]

(* A dictionary is cleared and kept for later.                                 *)
Store(m, dict) == [m EXCEPT !.cached = @ + 1, !.refs = ReleaseAll(@, dict)]

(* A dictionary from the cache becomes a copy of dict.                         *)
AcquireCopy(m, dict) == [Acquire(m) EXCEPT !.refs = RefsAfterSet(@, <<>>, dict)]

EntryEnd(m, e) ==
    IF e < Len(m.entries) THEN m.entries[e + 1].index ELSE m.length

(* The binary search for the entry that covers unit i; 0 where there is none.  *)
FindEntry(m, i) ==
    LET search[range \in (1..(Len(m.entries) + 1)) \X (0..Len(m.entries))] ==
            LET low == range[1]
                high == range[2]
                mid == low + ((high - low) \div 2)
            IN  IF low > high THEN 0
                ELSE IF i < m.entries[mid].index THEN search[<<low, mid - 1>>]
                ELSE IF i >= EntryEnd(m, mid) THEN search[<<mid + 1, high>>]
                ELSE mid
    IN  search[<<1, Len(m.entries)>>]

DropsDictionaries(m, from, count) ==
    [m EXCEPT !.entries = SubSeq(@, 1, from - 1) \o SubSeq(@, from + count, Len(@)),
              !.refs = FoldLeft(LAMBDA r, entry : ReleaseAll(r, entry.attributes), @,
                                SubSeq(m.entries, from, from + count - 1))]

RemoveEntries(m, from, count) ==
    LET removed == SubSeq(m.entries, from, from + count - 1)
        stored == FoldLeft(LAMBDA s, entry : Store(s, entry.attributes), m, removed)
    IN  [stored EXCEPT !.entries = SubSeq(@, 1, from - 1) \o SubSeq(@, from + count, Len(@))]

ShiftEntries(m, from, delta) ==
    [m EXCEPT !.entries = [e \in DOMAIN m.entries |->
        [m.entries[e] EXCEPT !.index = IF e < from THEN @ ELSE @ + delta]]]

-------------------------------------------------------------------------------
(* Setting and removing over a range *)

Apply(dict) == [type |-> "apply", attributes |-> dict]
Removal(id) == [type |-> "remove", id |-> id]

Operate(dict, refs, operation) ==
    IF operation.type = "apply"
    THEN Merge(dict, refs, operation.attributes)
    ELSE RemoveItem(dict, refs, operation.id)

OperateOnEntry(m, e, operation) ==
    LET result == Operate(m.entries[e].attributes, m.refs, operation)
    IN  [m EXCEPT !.entries[e].attributes = result.dict, !.refs = result.refs]

(* What the operation makes of a copy of dict, and the manager with that copy.  *)
OperateOnCopy(m, dict, operation) ==
    LET copied == AcquireCopy(m, dict)
        result == Operate(dict, copied.refs, operation)
    IN  [manager |-> [copied EXCEPT !.refs = result.refs],
         dict |-> result.dict, unchanged |-> result.unchanged]

(* An entry is split where the operation changes its attributes; the side that *)
(* the operation is for gets the changed copy.                                 *)
SplitBy(m, e, at, side, changed) ==
    LET original == m.entries[e].attributes
        left == IF side = "left" THEN changed.dict ELSE original
        right == IF side = "right" THEN changed.dict ELSE original
    IN  IF changed.unchanged
        THEN [manager |-> Store(changed.manager, changed.dict), split |-> FALSE]
        ELSE [manager |-> [changed.manager EXCEPT !.entries =
                             InsertAt([@ EXCEPT ![e].attributes = left], e + 1,
                                      [index |-> at, attributes |-> right])],
              split |-> TRUE]

Split(m, e, at, operation, side) ==
    IF at <= m.entries[e].index \/ at >= EntryEnd(m, e)
    THEN [manager |-> m, split |-> FALSE]
    ELSE SplitBy(m, e, at, side, OperateOnCopy(m, m.entries[e].attributes, operation))

(* The range lies inside entry e and ends before it on both sides.             *)
OperateInsideBy(e, start, end, original, changed) ==
    IF changed.unchanged
    THEN Store(changed.manager, changed.dict)
    ELSE [AcquireCopy(changed.manager, original) EXCEPT !.entries =
            SubSeq(@, 1, e) \o <<[index |-> start, attributes |-> changed.dict],
                                 [index |-> end, attributes |-> original]>>
              \o SubSeq(@, e + 1, Len(@))]

OperateInside(m, e, start, end, operation) ==
    OperateInsideBy(e, start, end, m.entries[e].attributes,
                    OperateOnCopy(m, m.entries[e].attributes, operation))

(* The entries from `from` on which the range meets are changed as they are,   *)
(* but the first one if its split did that, and the last one is split.         *)
OperateOnward(atStart, from, end, operation) ==
    LET step(s, k) ==
            LET entryEnd == EntryEnd(s.manager, k)
            IN  IF s.over THEN s
                ELSE IF entryEnd > end
                THEN [s EXCEPT !.manager = Split(@, k, end, operation, "left").manager,
                               !.over = TRUE]
                ELSE [manager |-> IF s.processed THEN s.manager
                                  ELSE OperateOnEntry(s.manager, k, operation),
                      processed |-> FALSE,
                      over |-> entryEnd >= end]
        entries == [k \in 1..(Len(atStart.manager.entries) - from + 1) |-> from + k - 1]
    IN  FoldLeft(step, [manager |-> atStart.manager, processed |-> atStart.split,
                        over |-> FALSE], entries).manager

(* The range spans entries: it is split at its start and at its end.           *)
OperateAcross(m, e, start, end, operation) ==
    LET atStart == Split(m, e, start, operation, "right")
    IN  OperateOnward(atStart, IF atStart.split THEN e + 1 ELSE e, end, operation)

TakesInsideForAcross(m, start, end, operation) ==
    LET e == FindEntry(m, start)
    IN  IF start = m.entries[e].index /\ end = EntryEnd(m, e)
        THEN OperateOnEntry(m, e, operation)
        ELSE OperateAcross(m, e, start, end, operation)

ApplyOperationOverRange(m, start, end, operation) ==
    LET e == FindEntry(m, start)
        entry == m.entries[e]
    IN  IF start = entry.index /\ end = EntryEnd(m, e)
        THEN OperateOnEntry(m, e, operation)
        ELSE IF start > entry.index /\ end < EntryEnd(m, e)
        THEN OperateInside(m, e, start, end, operation)
        ELSE OperateAcross(m, e, start, end, operation)

-------------------------------------------------------------------------------
(* Edits of the text *)

LeavesMerged(m, u, joint) == m

(* The paragraph of the unit before `joint`, where a removal ended: its        *)
(* paragraph attributes are given to the units of it after the joint, and what *)
(* the unit after the joint has then to the units before it. The code asks for *)
(* the paragraphs of the range of that one unit, which is always one, so that  *)
(* it takes every removal for one that joined two paragraphs.                  *)
AdjustParagraphAttributesAfterMerge(m, u, joint) ==
    LET start == ParagraphStart(u, joint - 1)
        end == ParagraphEnd(u, joint - 1)
        spread(n, range) ==
            LET dict == n.entries[FindEntry(n, range.of)].attributes
                paragraphAttributes == Filter(dict, "paragraph", GroupNone)
            IN  IF paragraphAttributes = <<>> THEN n
                ELSE ApplyOperationOverRange(n, range.from, range.to,
                                             Apply(paragraphAttributes))
    IN  IF joint > 0 /\ joint < m.length
        THEN FoldLeft(spread, m, <<[of |-> joint - 1, from |-> joint, to |-> end],
                                   [of |-> joint, from |-> start, to |-> joint]>>)
        ELSE m

(* The entries after `first` that the replaced range covers are removed, and   *)
(* the one that it covers in part starts where the range ends.                 *)
RemoveCoveredEntries(m, first, end) ==
    LET covered == {e \in (first + 1)..Len(m.entries) : EntryEnd(m, e) <= end}
        next == first + Cardinality(covered) + 1
        clipped == IF next <= Len(m.entries) THEN [m EXCEPT !.entries[next].index = end] ELSE m
    IN  IF EntryEnd(m, first) < end
        THEN RemoveEntries(clipped, first + 1, Cardinality(covered)) ELSE m

KeepsDeletedEntry(m, first, start, end) == m

(* A pure deletion of all units of an entry removes it, unless it is the last: *)
(* then it is emptied for the empty text.                                      *)
DropDeletedEntry(m, first, start, end) ==
    LET entry == m.entries[first]
    IN  IF entry.index # start \/ EntryEnd(m, first) # end THEN m
        ELSE IF Len(m.entries) > 1 THEN RemoveEntries(m, first, 1)
        ELSE [m EXCEPT !.entries[first] = [index |-> 0, attributes |-> <<>>],
                       !.refs = ReleaseAll(@, entry.attributes)]

(* The later entries move; the joint is looked after if units were removed.    *)
ShiftAndAdjust(before, m, u, first, start, oldLength, newLength) ==
    LET delta == newLength - oldLength
        shiftStart == IF Len(m.entries) < Len(before.entries) THEN first ELSE first + 1
        shifted == [ShiftEntries(m, shiftStart, delta) EXCEPT !.length = @ + delta]
    IN  IF newLength = 0 \/ oldLength > 0
        THEN AdjustParagraphAttributesAfterMerge(shifted, u, start + newLength)
        ELSE shifted

(* AttributeManagerReplaceRange, where u is the text after the edit.           *)
ReplaceRange(m, u, start, oldLength, newLength) ==
    LET end == start + oldLength
        donor == IF oldLength = 0 /\ start > 0 THEN start - 1 ELSE start
        first == FindEntry(m, donor)
        uncovered == RemoveCoveredEntries(m, first, end)
        kept == IF newLength = 0 THEN DropDeletedEntry(uncovered, first, start, end)
                ELSE uncovered
    IN  IF start = m.length \/ Len(m.entries) = 1
        THEN [m EXCEPT !.length = @ + newLength - oldLength]
        ELSE ShiftAndAdjust(uncovered, kept, u, first, start, oldLength, newLength)

-------------------------------------------------------------------------------
(* Runs of equal attributes *)

(* The end of the run that starts at unit start: the entries after the first   *)
(* are taken in while they are agreeing and the range goes on. A range that    *)
(* goes on after the last entry is read from beyond the list: what comes of it *)
(* is undefined, for which SBInvalidIndex stands.                              *)
OnwardRunEnd(m, start, rangeEnd, agreeing) ==
    LET differing == ((FindEntry(m, start) + 1)..Len(m.entries)) \ agreeing
    IN  IF rangeEnd > m.length /\ differing = {} THEN SBInvalidIndex
        ELSE Min({rangeEnd} \cup {m.entries[e].index : e \in differing})

OnwardRunByFilteringID(m, start, rangeEnd, id) ==
    LET initial == FindValue(m.entries[FindEntry(m, start)].attributes, id)
        agrees(dict) ==
            LET subsequent == FindValue(dict, id)
            IN  IF initial = {} THEN subsequent = {}
                ELSE \E v \in initial, w \in subsequent : IsEqualAttribute(v, w)
        agreeing == {e \in DOMAIN m.entries : agrees(m.entries[e].attributes)}
    IN  [end |-> OnwardRunEnd(m, start, rangeEnd, agreeing),
         output |-> IF initial = {} THEN <<>>
                    ELSE <<[id |-> id, value |-> CHOOSE v \in initial : TRUE]>>]

OnwardRunByFilteringCollection(m, start, rangeEnd, scope, group) ==
    LET output == Filter(m.entries[FindEntry(m, start)].attributes, scope, group)
        agrees(dict) == IF output = <<>> THEN ~MatchAny(dict, scope, group)
                        ELSE MatchAll(dict, output, scope, group)
        agreeing == {e \in DOMAIN m.entries : agrees(m.entries[e].attributes)}
    IN  [end |-> OnwardRunEnd(m, start, rangeEnd, agreeing), output |-> output]

(* SBAttributeRunIteratorReset: the range is taken as it is given, and its end  *)
(* wraps.                                                                       *)
IterationEnd(index, length) == (index + length) % (SBInvalidIndex + 1)

(* What SBAttributeRunIteratorMoveNext brings, call by call: the runs that have *)
(* attributes; the others are skipped. A run without a defined end is the last  *)
(* one that can be said anything of; from a unit that no entry covers even the  *)
(* entry is a null pointer.                                                     *)
AttributeRuns(m, start, rangeEnd, filter) ==
    LET onward(i) == IF FindEntry(m, i) = 0 THEN [end |-> SBInvalidIndex, output |-> <<>>]
                     ELSE IF filter.by = "id"
                     THEN OnwardRunByFilteringID(m, i, rangeEnd, filter.id)
                     ELSE OnwardRunByFilteringCollection(m, i, rangeEnd, filter.scope,
                                                         filter.group)
        runs[i \in {start} \cup (start..rangeEnd)] ==
            LET brought(run) ==
                    LET found == <<[index |-> i, end |-> run.end, attributes |-> run.output]>>
                    IN  IF run.end = SBInvalidIndex THEN found
                        ELSE (IF run.output = <<>> THEN <<>> ELSE found) \o runs[run.end]
            IN  IF i >= rangeEnd THEN <<>> ELSE brought(onward(i))
    IN  runs[start]

-------------------------------------------------------------------------------
(* The text's operations *)

Initialized ==
    [entries |-> <<[index |-> 0, attributes |-> <<>>]>>, length |-> 0,
     cached |-> 0, created |-> 1, refs |-> NoneRetained]

(* The attributes that the entries give to each code unit.                     *)
UnitAttributes(m) ==
    LET asFunction(dict) ==
            FoldLeft(LAMBDA f, item : (item.id :> item.value) @@ f, <<>>, dict)
        covered(e) == [i \in 1..(EntryEnd(m, e) - m.entries[e].index) |->
                          asFunction(m.entries[e].attributes)]
    IN  FoldLeftDomain(LAMBDA done, e : done \o covered(e), <<>>, m.entries)

Init ==
    /\ units = <<>> /\ manager = Initialized
    /\ attributes = <<>> /\ call = [op |-> "create"]

(* The code units of a range are replaced.                                     *)
ReplaceCodeUnits(start, oldLength, new) ==
    /\ oldLength > 0 \/ new # <<>>
    /\ Len(units) - oldLength + Len(new) <= MaxLength
    /\ units' = SubSeq(units, 1, start) \o new \o SubSeq(units, start + oldLength + 1, Len(units))
    /\ manager' = ReplaceRange(manager, units', start, oldLength, Len(new))
    /\ attributes' = UnitAttributes(manager')

(* SBTextInsertCodeUnits, SBTextDeleteCodeUnits and SBTextReplaceCodeUnits.    *)
ReplaceText(start, oldLength, new) ==
    /\ ReplaceCodeUnits(start, oldLength, new)
    /\ call' = [op |-> "replace", start |-> start, length |-> oldLength, new |-> new]

(* SBTextSetCodeUnits.                                                         *)
SetCodeUnits(new) ==
    /\ ReplaceCodeUnits(0, Len(units), new)
    /\ call' = [op |-> "setCodeUnits", new |-> new]

(* SBTextSetAttribute: a paragraph attribute is set on whole paragraphs.       *)
SetAttribute(start, length, id, v) ==
    LET isParagraph == Infos[id].scope = "paragraph"
        end == start + length
    IN  /\ length > 0
        /\ manager' = ApplyOperationOverRange(manager,
                         IF isParagraph THEN ParagraphStart(units, start) ELSE start,
                         IF isParagraph THEN ParagraphEnd(units, end - 1) ELSE end,
                         Apply(Put(<<>>, NoRegistry, id, v).dict))
        /\ attributes' = UnitAttributes(manager')
        /\ call' = [op |-> "set", start |-> start, length |-> length, id |-> id, value |-> v]
        /\ UNCHANGED units

(* The range without a first paragraph that it covers in part.                 *)
ShrunkStart(start, end) ==
    IF start > ParagraphStart(units, start)
    THEN Min({ParagraphEnd(units, start), end}) ELSE start

(* The range without a last paragraph that ends before the range does.         *)
ShrunkEnd(start, end) ==
    IF ParagraphEnd(units, end - 1) < end
    THEN Max({ParagraphStart(units, end - 1), start}) ELSE end

(* SBTextRemoveAttribute.                                                      *)
RemoveAttribute(start, length, id) ==
    LET isParagraph == Infos[id].scope = "paragraph"
        end == start + length
        from == IF isParagraph THEN ShrunkStart(start, end) ELSE start
        to == IF isParagraph /\ end > from THEN ShrunkEnd(from, end) ELSE end
    IN  /\ length > 0
        /\ manager' = IF to > from THEN ApplyOperationOverRange(manager, from, to, Removal(id))
                      ELSE manager
        /\ attributes' = UnitAttributes(manager')
        /\ call' = [op |-> "remove", start |-> start, length |-> length, id |-> id]
        /\ UNCHANGED units

(* AttributeManagerCopyAttributes into a manager that has just been initialised. *)
CopyAttributes(source, refs) ==
    LET emptied == RemoveEntries([Initialized EXCEPT !.refs = refs], 1, 1)
        copied == FoldLeft(LAMBDA m, entry : AcquireCopy(m, entry.attributes),
                           emptied, source.entries)
    IN  [copied EXCEPT !.entries = source.entries, !.length = source.length]

(* AttributeManagerFinalize: what is left of the references.                   *)
RefsAfterFinalize(m, refs) ==
    FoldLeft(LAMBDA r, entry : ReleaseAll(r, entry.attributes), refs, m.entries)

(* SBTextCreateMutableCopy, and the text that it was made from is released.    *)
CopyText ==
    LET copy == CopyAttributes(manager, manager.refs)
    IN  /\ manager' = [copy EXCEPT !.refs = RefsAfterFinalize(manager, @)]
        /\ attributes' = UnitAttributes(manager')
        /\ call' = [op |-> "copy"]
        /\ UNCHANGED units

(* The ranges of the text: SBText.c asserts that a range lies inside it.       *)
Ranges == {r \in (0..MaxLength) \X (0..MaxLength) : r[1] + r[2] <= Len(units)}

Next ==
    \/ \E r \in Ranges, n \in 0..MaxInsert : \E new \in [1..n -> BOOLEAN] :
          ReplaceText(r[1], r[2], new)
    \/ \E n \in 0..MaxInsert : \E new \in [1..n -> BOOLEAN] : SetCodeUnits(new)
    \/ \E r \in Ranges, id \in AttributeIDs, v \in Values : SetAttribute(r[1], r[2], id, v)
    \/ \E r \in Ranges, id \in AttributeIDs : RemoveAttribute(r[1], r[2], id)
    \/ CopyText

Spec == Init /\ [][Next]_vars

-------------------------------------------------------------------------------
(* Properties *)

(* The manager's record has its shape: entries with sorted dictionaries over    *)
(* the registered attributes.                                                   *)
TypeOK ==
    /\ units \in Seq(BOOLEAN)
    /\ manager.length \in 0..MaxLength
    /\ manager.cached \in Nat /\ manager.created \in Nat
    /\ manager.refs \in [Values -> Nat]
    /\ \A e \in DOMAIN manager.entries :
          LET dict == manager.entries[e].attributes
          IN  /\ manager.entries[e].index \in 0..MaxLength
              /\ \A k \in DOMAIN dict :
                    /\ dict[k].id \in AttributeIDs /\ dict[k].value \in Values
                    /\ k > 1 => dict[k - 1].id < dict[k].id

(* The binary search of FindEntry, the splits and the shifts all assume it: the *)
(* entries cut the text into pieces that are not empty, in order, from unit 0   *)
(* to the manager's own string length, which is the length of the text.         *)
EntriesPartitionText ==
    /\ manager.length = Len(units)
    /\ manager.entries # <<>>
    /\ manager.entries[1].index = 0
    /\ \A e \in DOMAIN manager.entries :
          manager.entries[e].index < EntryEnd(manager, e) \/ units = <<>>
    /\ units = <<>> => Len(manager.entries) = 1

(* Every retained value is released once: after each operation a value is       *)
(* retained exactly as often as the entries hold it, so that none of the copies, *)
(* splits, merges and removals of dictionaries leaks one or releases it twice.  *)
ValuesAccounted ==
    LET held(v) == {p \in (DOMAIN manager.entries) \X AttributeIDs :
                        FindValue(manager.entries[p[1]].attributes, p[2]) = {v}}
    IN  \A v \in Values : manager.refs[v] = Cardinality(held(v))

(* A dictionary that an entry gave up is in the cache, and none is in two       *)
(* places: all that were ever created are in an entry or in the cache.          *)
DictionariesAccounted == manager.created = Len(manager.entries) + manager.cached

Filters ==
    [by : {"id"}, id : AttributeIDs]
        \cup [by : {"collection"}, scope : {"character", "paragraph"},
              group : {GroupNone} \cup {Infos[id].group : id \in AttributeIDs}]

Passes(id, filter) ==
    IF filter.by = "id" THEN id = filter.id
    ELSE /\ Infos[id].scope = filter.scope
         /\ filter.group \in {GroupNone, Infos[id].group}

(* The attributes of unit i that pass the filter.                               *)
Matching(i, filter) ==
    LET f == attributes[i + 1]
    IN  {<<id, f[id]>> : id \in {k \in DOMAIN f : Passes(k, filter)}}

(* An attribute run iterator over any range inside the text and with any filter *)
(* brings each unit of the range that has a matching attribute in one run and   *)
(* no other unit, every unit of a run has just the matching attributes of the   *)
(* run, and two runs that touch differ, however the edits have cut the entries. *)
(* Of a range that goes beyond the text this is not promised: the code does not *)
(* normalise it, and reads what is not in the list.                             *)
AttributeRunsAreExact ==
    LET items(run) == {<<run.attributes[k].id, run.attributes[k].value>> :
                          k \in DOMAIN run.attributes}
        areExact(runs, from, to, filter) ==
            /\ \A k \in DOMAIN runs :
                  /\ from <= runs[k].index /\ runs[k].index < runs[k].end
                  /\ runs[k].end <= to
                  /\ \A i \in runs[k].index..(runs[k].end - 1) :
                        Matching(i, filter) = items(runs[k]) /\ items(runs[k]) # {}
                  /\ k > 1 => \/ runs[k - 1].end < runs[k].index
                              \/ /\ runs[k - 1].end = runs[k].index
                                 /\ items(runs[k - 1]) # items(runs[k])
            /\ \A i \in from..(to - 1) :
                  \/ Matching(i, filter) = {}
                  \/ \E k \in DOMAIN runs : i \in runs[k].index..(runs[k].end - 1)
    IN  \A filter \in Filters, range \in Ranges :
          LET to == IterationEnd(range[1], range[2])
          IN  areExact(AttributeRuns(manager, range[1], to, filter), range[1], to, filter)

(* Two units of one paragraph have the same paragraph attributes: they change  *)
(* from an entry to the next one only where a paragraph ends.                   *)
ParagraphsUniform ==
    LET ofParagraph(e) == Filter(manager.entries[e].attributes, "paragraph", GroupNone)
    IN  \A e \in 2..Len(manager.entries) :
          units[manager.entries[e].index] \/ ofParagraph(e - 1) = ofParagraph(e)

(* Text that is inserted at the start of a paragraph, after another one.        *)
InsertsAtParagraphStart ==
    /\ call'.op = "replace" /\ call'.length = 0
    /\ call'.start \in 1..(Len(units) - 1) /\ units[call'.start]

(* A paragraph attribute that is removed from the first units of a paragraph.   *)
RemovesFromPartOfParagraph ==
    /\ call'.op = "remove" /\ Infos[call'.id].scope = "paragraph"
    /\ call'.start + call'.length < ParagraphEnd(units, call'.start + call'.length - 1)

(* A paragraph attribute belongs to whole paragraphs: setting one, joining      *)
(* paragraphs by a deletion or a replacement, dividing one by an insertion and  *)
(* copying the text keep it so. The two operations named above do not.          *)
ParagraphsStayUniform ==
    [][ParagraphsUniform => \/ ParagraphsUniform'
                            \/ InsertsAtParagraphStart
                            \/ RemovesFromPartOfParagraph]_vars

(* However the entries are split, merged and shifted, each call does to every    *)
(* code unit what the per-unit specification of that call promises, or one of   *)
(* the deviations that it names.                                                *)
PerUnit == INSTANCE AttributedText WITH
    Paragraph <- {id \in AttributeIDs : Infos[id].scope = "paragraph"},
    Character <- {id \in AttributeIDs : Infos[id].scope = "character"}

ImplementsAttributedText == PerUnit!Spec
==============================================================================
