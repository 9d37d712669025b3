# SheenBidi in TLA+

SheenBidi implements the Unicode Bidirectional Algorithm (UAX #9) in C. It has
two layers. The lower one takes a string and gives levels: `SBAlgorithm` →
`SBParagraph` → `SBLine`. The upper one keeps an editable text: `SBText`
re-analyses the paragraphs that an edit touched, and iterators walk them. Below
both are a memory allocator that threads share and a few containers.

This directory models the parts whose correctness depends on order, on history
or on interleaving, checks them with TLC, and proves some of the properties for
every value of the constants with TLAPS. Paths below are those of the repository.

## Components

| component | source | state | operations | model |
|---|---|---|---|---|
| `SBText` | `Source/API/SBText.c` | code units, bidi types, paragraphs with their analysis, `isEditing`, `isMutable` | insert, append, delete, set, replace, begin and end editing, copy, getters | `SBText` |
| code points | `SBCodepoint.c`, `SBCodepointSequence.c` | none | decode, skip to a boundary, classify, find a paragraph's end | operators of `SBText` |
| `Once` | `Source/Core/Once.c` | `executed`, `flag` | `OnceTryExecute` | `Once` |
| scratch memory | `Source/API/SBAllocator.c` | buffer pool, `BufferStack`, a buffer per thread | allocate, reset | `ScratchPool`, abstractly `BufferPool` |
| status stack | `Source/UBA/StatusStack.c` | chain of lists, top, count | push, pop, empty, read the top | `StatusStack`, abstractly `Stack` |
| explicit levels | `SBParagraph.c`, `BidiChain.c`, `LevelRun.c`, `RunQueue.c` | bidi chain, status stack, overflow counters, level runs | the loop of `DetermineLevels`, `ProcessRun` | `ParagraphLevels` |
| isolating runs | `IsolatingRun.c`, `BracketQueue.c` | relinked chain, bracket queue | rules W, N and I | `IsolatingRun` |
| `SBLine` | `SBLine.c` | levels, runs | create: rules L1 and L2 | `SBLine` |
| attributes | `Source/Text/*.c`, `SBAttributeList.c`, `SBAttributeRegistry.c` | entries with their dictionaries, cache, reference counts of values | set, remove, insert, delete, replace, copy, onward runs | `AttributeDictionary`, `AttributeManager`, abstractly `AttributedText` |
| iterators | `SBTextIterators.c`, range of `SBBase.c` | range, paragraph at hand, position, current run, line | create, reset, move next, release | `SBTextIterators`, driven by `TextReading` |
| scripts | `SBScriptLocator.c`, `ScriptStack.c` | ring of open pairs, agent | load, reset, move next | `SBScriptLocator` |
| mirrors | `SBMirrorLocator.c` | line, run, position, agent | load a line, reset, move next | `SBMirrorLocator` |
| data tables | `Source/Data` | none | lookups | `CodepointData`, over an alphabet |
| `Object`, `Memory`, `List` | `Source/Core` | reference count, block list, items | retain, release, allocate, resize | list operations in `SBText` |
| the rest | log, configurations, generator, parser, tests | | | not modelled |

How they interact. A thread that creates a paragraph allocates scratch memory,
through `Memory`, from its own buffer; the first use initialises two things by
`Once`. `DetermineLevels` pushes to and pops from the status stack, removes
links from the chain it walks, and hands level runs to the queue, from which
`IsolatingRunResolve` takes whole sequences. `SBText` updates three lists in
step on each edit and creates one paragraph per dirty entry; `SBParagraph`
objects are immutable and shared between a text and its copies. Each edit also
tells the attribute manager, which asks the text for the paragraphs around a range.
Iterators read the paragraph list, the levels and the scripts of a text; the visual
one creates a line per paragraph, holds it, and releases it with its last run.

What is hard here: races in the allocator; a stack and a queue that pair
isolates by two different means; links removed during the walk;
incremental updates whose result has to equal that of starting afresh; entries
that split, merge and share values over a long sequence of edits; and cursors that
a client resets, abandons and moves on at will, over ranges that end anywhere.
`PROJECT.json` lists each such place, with the properties that cover it.

## Modules

**`SBText`.** Variables are the fields of the C structure. A code unit is one of
five classes, enough to tell one- and two-unit code points, CR LF and the
separator U+0085 of UTF-8 apart. `ReplaceCodeUnits` is a whole editing call:
the units, the window of bidi types (`ReplaceBidiTypes`), the paragraph list
(`UpdateParagraphsForTextReplacement`, a fold over `ScanParagraph`) and, outside a
batch, the analysis. Insert, append, delete and set make the same calls with an
empty side. An analysis records the offset and the content it was made from.
Memory is assumed to suffice: the code ignores the failures of its lists.

**`Once`** and **`ScratchPool`** take one step per access to shared memory.
Threads run between steps in any order, and memory is sequentially consistent
but for one race the code has: `once->executed` is a plain field, so a thread
that reads it as true has not synchronised and may load the `NULL` that
`BufferStack` held at first (`synced`). `ScratchPool` carries both `Once` of the
allocator and is shown to refine `Once` twice and `BufferPool` once.

**`StatusStack`** has the lists as sequences, unwritten elements holding any value,
and an allocation that may fail. It refines `Stack`, the stack of the caller.

**`ParagraphLevels`** has an action per case of the loop of `DetermineLevels`, each
including the end of the iteration (`ContinueRun`): a link is merged, abandoned,
or ends the current run. A chain is the set of its links, since links ascend
(`NextLink`). Runs that the queue attaches refer to the next one by position.
The status stack is a sequence, as `StatusStack` implements it. AL, numbers,
separators of segments and white space behave as L, R or ON do here and are left out.
`Fail` is an allocation that fails. The second half of the module is a reference:
levels and isolating run sequences as UAX #9 defines them, by positions (BD9, BD11,
BD13, X1 to X10), with no stack, chain or queue. One difference is deliberate:
an isolate under an override has a strong type, and the code no longer takes it
for an initiator; the sequence ends there, which no rule can observe.

**`IsolatingRun`** resolves one isolating run sequence, given with its level, sos and
eos (`IsSequence` says which ones `ParagraphLevels` can hand over; texts under an
override, whose types are strong already, are left out). A link is a position, and
`links`, `types`, `levels` and `single` are the arrays of the chain; `link`, `priorLink`,
`prior` and the rest are local variables of the C functions. Each iteration of a
walk is one action, so that what a rule reads is what earlier iterations wrote and
merged. The elements of the bracket queue are one sequence, over a chain of lists
like that of `StatusStack`. "X" is a code unit of another sequence, which has to come
out untouched; "BN" stands for all that rule X9 removes, "WS" for white space and
separators, "RLI" for all initiators. The reference states the rules one after the
other on characters, with no links, walks or queue.

**`AttributeDictionary`**, **`AttributeManager`** and **`AttributedText`**. A dictionary
is a sequence of items ordered by attribute, with the binary search of the code;
values are counted, as the registry's `retain` and `release` callbacks would. The
manager's state is the list of entries `[index, attributes]`, the dictionary kept
for reuse, and the text as far as it matters: which units are separators. Each
public call is one action with all that it does: `ReplaceText` (insert, delete and
replace) and `SetCodeUnits` replace the range of
entries, shift the later ones, join the paragraphs and let the inserted units
inherit; `SetAttribute` and `RemoveAttribute` widen or narrow the range to paragraphs
first. Two operations over a range that share the code of
`ApplyOperationOverRange` differ by an operator argument. What a run iterator brings
is the operator `AttributeRuns`, for any range: the end of the range may wrap, or lie beyond
the text, where the code reads what is not in the list; the model then stops with a
run of no defined end (`SBInvalidIndex`). A separator is one unit: an edit that
joins CR and LF is left out.

`AttributedText` is what a client may think of: a sequence with a set of attributes per
code unit. Its operations (`Next`) are the documented rules, from `SBText.h` and the
comments of `AttributeManager.c`. Where the code does otherwise, an action of
`Deviation` says what it does instead, per unit: `SetKeepsFirst`, `BeginRevives`,
`ReplaceSpreads` and `RemoveFromPart`, one for each of the cases in item 6 below. The
manager implements the two together, and not the first alone: without any one of
the deviations `attributes` fails.

**`SBLine`**, **`SBScriptLocator`**, **`SBMirrorLocator`** and **`SBTextIterators`** are
operators, one per C function, on records that are the structures; **`CodepointData`**
gives them an alphabet. **`TextReading`** is the client: its variables are the text, the
reader that it has (an iterator of one of four kinds, or a mirror locator, or a copy of
levels or scripts), the number of lines alive, and the history of what it saw. It
creates, resets, moves and releases in any order, and gives up a line once the
locator has it. Scripts are those that the locator finds; levels are given with the
text, as the earlier modules show how they come about. Each text is freshly analysed: the
offset of a paragraph's analysis is the paragraph's index, and the stale offsets of item 2
do not occur. The check of `SBMirrorLocatorLoadLine` that the string is the line's own is left
out, as the client always passes that one. Integers wrap at
`SBInvalidIndex`, so that a length meaning "to the end" does. The references
(`RuledRuns`, `IsReset`, `DisplayedBefore` and the body of `ScriptsAsRuled`) speak of
positions: rule L2, for instance, says that of two units of a line the later one
comes first if the lowest level from one to the other is odd.

## Runs

| run | instance | result |
|---|---|---|
| `text_editing` | UTF-8 and UTF-16, 7 buffers, 4 code units | the five invariants hold |
| `text_dropped_tail` | all edits | `Segmented` is violated |
| `text_stale_levels` | edits that keep the tail | `LevelsAddressed` is violated |
| `scratch_pool` | 2 threads, 2 buffers of 2 words | holds, with liveness and both refinements |
| `scratch_pool_three_threads` | 3 threads, 2 buffers | `ExclusiveBuffers` is violated |
| `status_stack` | 2 elements, first list of 1, 7 pushes | holds; lists of 1, 1, 2 and 4 |
| `explicit_levels` | 13 types up to length 3, 6 nesting ones up to 5, `MaxLevel` 3, base level 0 or found | holds |
| `sequence_end` | the same with length 2 and 5 | `SequenceEndsAsRuled` is violated |
| `isolating_run` | 17 units up to length 3, 5 of each rule group up to 4 or 5, two families of 6 and 7; 2 open pairs | the five invariants hold |
| `bracket_context` | the family of 7 | `BracketsSeeContext` is violated |
| `attributes` | a character and a paragraph attribute, two values; texts up to 3 units, inserts up to 2; every range in the text | holds, with the refinement of `AttributedText` |
| `text_reading` | 15 code points, two of them of two units: the texts of 5 and length 3 at two base levels, 23 longer ones; a ring of 2; integers up to 15 | the seven invariants hold |

*Bounds.* Four code units hold two code points of two units, or a pair between
two separators, so edits can cut and join both at either end of a paragraph; the
window of classification, up to 4 units on each side, then covers the text, and
that a smaller one would be wrong is left to the proof, which has no bound. With
one element in the first list, seven pushes cross three boundaries. With
`MaxLevel` 3 an odd and an even level fit above the paragraph and a third one
overflows; five code units nest two isolates and close them, or overflow one and
use the level again.

Of the rules on a sequence none looks past a run of equal types,
a mark or a pair of brackets: separators between two numbers need four units,
with one merged link; two nested or crossing pairs with context five or six; the
limit of open pairs is 2 in place of 63, and three openings exceed it.

*What `isolating_run` leaves to `bracket_context`.* `LevelsAreRuled` excepts sequences in
which sos is not the embedding direction and two pairs open before anything strong
(`LosesContext`): the family of 7 units has some. Everything else must match.

*The restriction of `text_editing`.* `UpdateParagraphsForTextReplacement` loses the
paragraph after an edit whose text ends where a paragraph ends, unless enough
slots were reused (`KeepsTail`). Where the edit ends it does not look beyond the end
that the paragraph had: it leaves one separator too many when the end of the removed
range cuts a two-unit separator, and one too few when the new text makes one there
(`KeepsSeparator`). `text_dropped_tail`
shows the first; `text_editing` takes the edits that do neither, which leaves those
that open, split, merge and shift paragraphs.

*Two and three threads.* `ImplementsPool` holds for two threads and not for
more: to fool the exchange of `DetachBuffer` a thread needs another one to hold
the second buffer while a third recycles the first, or one to do all of that
with two buffers, which a thread never has. No theorem claims it for all.

*Fairness.* `FairSpec` assumes that a thread inside a call keeps taking steps: the
scheduler of the operating system gives it time. No thread has to begin a call,
and nothing is assumed of the order of threads. So `EndsAlone` promises only what
a lock-free stack can: a call ends once the others stop calling. The other
modules have no liveness: they are sequential, and their loops end by counting.

*Bounds of `text_reading`.* Three units hold a separator, a space and an ignored unit;
the longer texts have three levels, up to three paragraphs in both directions,
mirrored signs on odd levels, and brackets that nest, cross and exceed the ring.
Every start and every length up to the text's own is asked for, and the largest
integer, which wraps for every start but 0. One forgotten line (`MaxDropped`) is
enough to count it.

*What `text_reading` excepts.* Script runs of a range that starts inside a paragraph
(`StartsInside`), and lines with a separator, a space and an ignored unit in this
order in the midst of text (`ResetsTooMuch`): items 7 and 8 below. `LinesReleased`
counts the lines that a reset forgets, item 9.

*What `attributes` excepts.* `AttributeRunsAreExact` takes the ranges in the text, `start` and
`length` being any: outside of it the code reads past its list (item 6). `ParagraphsStayUniform`
names two operations that leave a paragraph divided (`InsertsAtParagraphStart`,
`RemovesFromPartOfParagraph`).

## Disagreements between code and documentation

1. *A dropped paragraph* (`text_dropped_tail`): the scan of the paragraphs stops at the
   end of the new text, and the loop at `SBText.c:594` then removes the slot of the
   paragraph behind it too, which the edit did not touch, if it begins exactly
   where the replaced text ended. Its text belongs to no paragraph any more.
2. *Levels at an old offset* (`text_stale_levels`): an edit shifts later paragraphs
   but not the offset in their analysis, which `SBTextGetResolvedLevels` subtracts.
3. *ABA* (`scratch_pool_three_threads`): two threads come to share a scratch buffer.
4. *eos* (`sequence_end`): a sequence of several runs whose last one ends with an
   open isolate takes eos from that run in place of the paragraph level.
5. *Context of brackets* (`bracket_context`): a pair with no strong character before it
   takes sos for its context, though brackets before it were resolved otherwise.
   In RLE א PDF `((א)a)` at base level 0 the inner brackets come out at level 1.

The first five are runs. The models of attributes and of reading do what the code
does in the other cases too; where a property leaves one of them out, it does so by
a name of its own, and `AttributedText` has its deviations apart from its rules:

6. *Attributes*, in five places:
   - (`SetKeepsFirst`) setting the text keeps the attributes of its first unit for the new
     text, which `SBText.h:392` says are removed (`SBText.c:894`);
   - (`ReplaceSpreads`) the test whether an edit joined two paragraphs is always
     true (`AttributeManager.c:518`). An edit up to the end of a paragraph gives that
     paragraph the attributes of the next one, which the comment at line 501 reserves for a
     merge;
   - (`RemoveFromPart`) a range that covers its last paragraph in part is not shrunk
     (`:221`), as the comment at line 203 says it is;
   - the reset of a run iterator does not normalise its range
     (`SBTextIterators.c:728`), as its header says: a length that says "to the end"
     wraps and brings nothing, and an end beyond the text reads past the entries;
   - a new iterator brings character attributes only
     (`SBTextIterators.c:688`), not all as `SBText.h:244` says.

   Not disagreements, as nothing is promised, but surprises: text inserted at the start
   of a paragraph inherits from the one before, and deleting everything keeps the
   attributes of a text of one entry, to be revived by the next insertion, but not
   of several (`:721`).
7. *Rule L1 goes too far* (`SBLine.c:169`): units that are ignored before a space that is
   not reset stay counted, and are reset with the separator in front of that space.
   Of the types R S WS BN R at base level 0 the space gets level 0 in place of 1.
8. *Scripts of a part of a paragraph* (`SBTextIterators.c:535`): the script run iterator
   reads from the start of the paragraph's scripts though the range starts later.
   `SBTextGetScripts` and the logical run iterator do not.
9. *A forgotten line* (`SBTextIterators.c:849`): the reset of a visual run iterator that
   holds a line does not release it.
10. *The current element after the end*: `SBTextIterators.h:99` says that it becomes
   invalid; the paragraph iterator keeps the last one.
11. *Too many runs allocated* (`SBLine.c:113`): `CopyLevels` compares each level with an
   invalid one. That waste is what makes the array suffice: with the comparison
   repaired and nothing else, resets within a run overrun it (the mutant of `RunsFit`).

## Proofs

Everything is in the `*_proofs` modules and `FoldTheorems`; each theorem holds for all values of the
constants that satisfy the module's assumptions.

- `FoldTheorems` holds the lemmas `FoldLeftInvariant` and `FoldLeftSteps`. The loops of the model are
  folds, which `SequencesExt` defines by a recursive function on sets of positions.
  Induction comes from the fact that a set of natural numbers has a least element:
  it shows that such a function exists, and that what a base has and each step
  keeps, the result has. A module about a loop instantiates this one with the step
  and with the invariant of the loop.
- `SBText_proofs`, of the types: `SpecTypeOK`, `SpecBidiTypesCurrent`. The invariant is
  that of types together with `BidiTypesCurrent` itself. The argument: the type of a unit
  depends on its neighbours only; the ends of the window are aligned to code
  points of the new text; outside it the neighbours are those of the old text.
  So splicing the classified window equals classifying everything.
- `SBText_proofs`, of the paragraphs: `SpecSegmented`, `SpecCleanIsCurrent` and
  `SpecAnalysedOutsideBatch`, for `TailKeepingSpec`. The invariant says in its own terms
  that the paragraphs go from one end of the text to the next (`IsSegmentation`), that
  a clean one was analysed from its present content, and the invariant of the types.
  An edit changes which units end a paragraph only between its limits, which is what
  `KeepsSeparator` is needed for. The invariant of the scan (`ScanInv`) says that the
  slots before the one at hand go from end to end of the new text, the others are
  those of the old list, and the scan has not passed the end of the last paragraph
  that the edit touches (`Goal`). `KeepsTail` compares ends with slots, by which the
  slots run out exactly there. The old paragraphs after it, shifted, complete the
  tiling; those that are not rewritten keep their content, so they may stay clean.
- `ScratchPool_proofs`: `SpecTypeOK`, `SpecHolderIsServed`, and `SpecImplementsOnce` for both
  initialisations. A thread with a buffer has seen `executed` set, and it is never reset.
- `ScratchPool_proofs`, of the initialisations: `SpecInitialisedOnce` and `SpecOneRunner`. The
  invariant (`Winner`) is one of `Once`, and the refinement carries it over to each of them:
  some thread runs the function exactly when the flag is set and nothing completed.
- `ScratchPool_proofs`, of the stack, if no three threads allocate (`AtMostTwo`; the run
  with three shows what happens then): `SpecStackedAreEmpty`, `SpecExclusiveBuffers`,
  and `SpecImplementsPool`, the refinement of `BufferPool`. The invariant says that the
  links from `BufferStack` go through the buffers that nobody has, once each
  (`LinksFree`). A pop is right although it read the link of a buffer that the other
  thread may have by now: that thread is then the only one that changes the stack, so
  what lies there is what the buffer links to, and links to again when it is pushed
  (`Overtaken`). A pool of any size is filled, popped and pushed as a sequence is.
- `StatusStack_proofs`: `SpecTypeOK`, `SpecTopIsLast`, `SpecImplementsStack`. The invariant
  ties each list's length to the number of elements before it, so that a position
  in the stack is in exactly one list; each operation is then one of `Stack`.
- `ParagraphLevels_proofs`: `SpecTypeOK`, `SpecStackAccounts`, `SpecPriorPrecedes`, for any
  set of texts and `SBLevelMax` in 2..252. The invariant has two parts. For the walk:
  no link lies between the prior link and the one at hand, the links from there on
  have the types they were populated with, and the last one stays in the chain; each
  iteration either removes the link at hand or makes it the prior one. For the stack:
  the k-th entry has at least level k - 1, by which the level bounds the height, and
  `validIsolate` is the number of isolates; the base is no isolate, so the cut of rule
  X6a keeps it.
- `ParagraphLevels_proofs`, of rules X1 to X8: `SpecExplicitInv` and `SpecLevelsAreExplicit`, for
  paragraphs of any length. A second invariant (`ExplicitInv`), relative to the first, says that the
  links ahead are as they were populated (`AgreesFrom`), that the status stack and the overflow
  counters are those of what is open after the positions passed (`Tracked`), and that these have
  got their level (`LevelledTo`). The entries of the stack are the scopes that are open and do not
  overflow, in order; the counters are the ones that do, embeddings only up to the first isolate
  among them. From below:
  - *Counts*: the reference matches openers and closers by counting from the opener; as the
    count moves by one at a time (`Tally`), what is open after a position follows from what was
    open before it and the type there (`After`): a PDI closes the last open isolate and
    all that is in it, a PDF the last embedding if it is innermost.
  - *Scopes*: the table of the reference is a recursive function of positions, which exists, and
    only once, as a scope lies in an earlier one (`ScopesExist`, `ScopesAgree`).
  - *Links*: a group of code units opens and closes nothing but at its first unit, so the
    level of a link is that of all of its positions (`ExplicitBetween`); the search for the
    direction of an FSI, which skips isolates by links, finds the first strong position of the reference.
- `ParagraphLevels_proofs`, of the run queue: `SpecQueueInv` and `SpecAttachesAlike`. A third
  invariant (`QueueInv`), relative to the two, pairs the queue with the status stack. Of the
  isolates on the stack, those with no override around them wait for their PDI (`Waiting`); the
  partial runs of the queue are theirs, in the same order and each of the level around its isolate
  (`PairsUp`), except that an isolate has no run of its own yet while its initiator is the prior link
  (`JustOpened`), and that the run at hand takes the last partial run if it began with a PDI. Levels
  grow along the stack, so the last partial run is the one of that level (`TakenIs`). An isolate
  that overflows pushes nothing and has the level of the run that it is in, so no run ends at it;
  one under an override is not waiting, and its PDI, which the override makes strong too,
  takes no run.
- `AttributeManager_proofs`: `SpecTypeOK`, `SpecEntriesPartitionText`,
  `SpecValuesAccounted`, `SpecDictionariesAccounted`, for any `MaxLength` and `MaxInsert`,
  and any registered attributes and values. The invariant (`IInv`) says that the
  dictionaries are sorted, that the entries cut the text or the text is empty
  (`WellCut`), and that two accounts are even: `Spare`, dictionaries created
  less those in entries and in the cache, and `Owes`, references of a value less the
  entries that hold it. The functions of `AttributeManager.c` call one another where
  this does not hold, so the lemmas say by how much each of them changes an account
  from any state; the calls of the text add that up to zero. From below:
  - *Dictionaries*: the binary search finds the place of an attribute; putting,
    removing, merging and filtering keep the order, and the references follow (`IsPaid`).
  - *Entries*: an operation on an entry splits it in up to three that are not empty, or
    returns what it borrowed; the loop over a range keeps the accounts and the cuts
    (`Carries`), and `FindEntry` finds the entry that covers a unit.
  - *Edits*: `IsUncovered` and `IsMoved` say which cuts are left when a replaced range
    is uncovered and the later entries move, from which the new cuts ascend. The
    attributes of a paragraph, spread over a joint, are an operation like the others.
- `IsolatingRun_proofs`: `SpecTypeOK`, `SpecQueueAccounts`, `SpecNoNeutralLeft`, for any set
  of sequences that DetermineLevels can hand over and any limit of open pairs. The
  invariant (`IInv`) says that the links go up and through links of the sequence
  (`ChainInv`), which types each walk has left behind its link and which are still to come
  (`TypesInv`), and that the open and the closed elements of the queue are as many as its
  counters say. `Chain` is defined by a recursive function, of which `FromExists` shows
  that there is one, since links go up, and `SpannedIsReached` that it is the set that the
  links go through.
- `IsolatingRun_proofs`, of the other sequences: `SpecOthersAreKept` and `SpecSavedFromOwn`, the
  part of `LevelsAreRuled` that says whose link each level comes from. A second invariant
  (`KInv`), relative to the first, says that merges spare the links that level runs begin with
  (`Ends`): such a link follows an isolate, or begins one, or is the first of all. Two
  isolates would have to follow one another with the same type, but the terminator comes behind
  its initiator. So all that `AttachOriginalLinks` needs is there: where each level run begins,
  and the last link of all, which takes the place of links that were merged into it.
- `TextReading_proofs`, of lines: `RunsReorderedAsRuled` and `LineAsRuled`, for a line of any
  length, types and levels. Rule L2: the invariant of the reversals (`IsReordered`) gives every
  run a position, and says that of two runs the order is the one that reversing from the highest
  level down to `level` makes; a reversal moves a run only across runs that are not below its
  level. Rule L1 goes from the end of the line; the invariant (`IsResetFrom`) is that the units
  from i on are as ruled for a line that begins at i, and that the units that wait are
  ignored ones, unless the line `ResetsTooMuch`. That case apart nothing is excepted, and the
  runs fit in that case too: `CopyLevels` counts every unit (item 11).
- `TextReading_proofs`, of readers: `SpecTypeOK`, `SpecRunsFit` and `SpecLinesReleased`, for any
  analysed texts (`TextsAssumption` says what `SBParagraph` leaves: paragraphs that tile the text,
  a type and a level for every unit, none below that of the paragraph) and any range with
  integers up to the largest one. The invariant (`IInv`) says that an iterator is before its first part,
  within a part of the range that lies in one paragraph, or at the end; that a visual
  run iterator and a mirror locator hold a line of a part, with the next run inside
  it; and that the lines alive are the one held and the ones that resets forgot. Each reader's call is
  first stated for itself (`IsRunMove`, `IsParagraphMove`, `IsVisualMove`, `IsMirrorMove`, `IsCopied`).
- `TextReading_proofs`, of runs: `SpecRunsAsPromised`. The runs of a range are a recursive function
  of the unit that they begin at; it exists by induction from the end of the range (`ChainExists`).
  The second invariant (`IsReading`), relative to the first, says that what the client was given,
  followed by the runs from the iterator's place on (`Cursor`), are the runs of the range. So a
  move has to give the run that begins at that place: it ends where the value changes, or with the
  part, and where a part ends before the range does, another paragraph begins (`PartRun`).
  Of a script run iterator that starts inside a paragraph only the place is followed (item 8).
- `TextReading_proofs`, of mirrors: `SpecMirrorsAsRuled`. The second invariant here (`MirrorsInv`) says
  that what the client was given are the mirrored code points of odd level that the locator is past, in
  the order of its runs and upwards in a run (`AreReported`), also after it began again in the
  midst of a line. At the end that is all of the line; by `LineAsRuled` its runs are in the order
  of display and have the ruled levels. A unit that continues a code point could only be decoded
  by itself if a line began with it: it is then no code point, and has no mirror
  (`TrailingAssumption`). In a text of as many units as the largest integer the locator would
  take the end for the beginning and never finish (`RepeatsLast`).

Only model-checked:

- liveness (`EndsAlone`), which the prover does not do;
- what relates the runs of `ParagraphLevels` to its reference (`RunsFormSequences`,
  `RunEndsAsRuled`): `SpecAttachesAlike` says that the runs the queue ties together belong together
  as far as their levels and types tell, not yet that these are all that BD13 ties;
- which attributes a unit has (`AttributeRunsAreExact`, `ParagraphsStayUniform`,
  `ImplementsAttributedText`): the theorems say that entries are well formed and paid
  for, not what clients read from them;
- the types and levels that `IsolatingRun` gives to characters (`WeakTypesAreRuled`,
  `LevelsAreRuled`): the pairs of the reference are defined by recursion;
- the scripts and visual runs of `TextReading` (`ScriptsAsRuled`, `VisualRunsAsRuled`).
  `LineAsRuled` is the part of the latter that concerns one line; that the
  runs of all lines, in the order in which the iterator comes to them, are those of the range
  is left to TLC.

## Not modelled

- *Allocator objects, `SBAlgorithm`, `SBTextConfig`, `SBLog`*: dispatch through
  pointers, constructors, setters and output, without a protocol of their own.
- *The pool of lists of `RunQueue` and `BracketQueue`*: modelled as the sequences they
  implement. `StatusStack` shows that construction in full; the run queue is filled
  before it is emptied, so its reuse of lists is not reached.
- *Reference counts of `Object` and the block list of `Memory`*: one atomic
  decrement whose result decides, and a list that is freed as a whole.
- *Decoding*: pure functions without state, which the tests compare with the
  standard's data. Code units are of classes in `SBText`, and of a code point or its
  continuation in `TextReading`; ill-formed text is left out.
- *Failed allocations* outside `ScratchPool`, `StatusStack`, `ParagraphLevels` and the
  bracket queue: the text layer ignores them and goes on through null pointers.
- *Constructors, getters, retain and release* of the public objects: a field read, or a
  field set once. `LinesReleased` follows the one reference that changes hands later,
  that of a visual run iterator to its line.
- *Generated tables, generator, parser, tests, build.* With the public headers these
  are more than half of the lines of the repository's code, and hold no state that a step changes:
  the lookups are modelled, over an alphabet.

## Plan

1. The modules above are the whole plan for modelling.
2. A proof that would still be worth its effort: that the runs of all lines of a range,
   one after the other, are `VisualRunsAsRuled`. It needs an induction over the runs
   that the client was given, on top of `LineAsRuled`.
