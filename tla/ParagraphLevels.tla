--------------------------- MODULE ParagraphLevels ---------------------------
(***************************************************************************)
(* Source/API/SBParagraph.c from PopulateBidiChain to ProcessRun: rules P2 *)
(* and P3, X1 to X10 of UAX #9.  DetermineLevels walks the links of a bidi *)
(* chain, one link per group of code units of one type, keeps the          *)
(* directional status stack, drops the links of explicit formatting, and   *)
(* cuts the chain into level runs; the run queue ties the runs to isolating*)
(* run sequences.                                                          *)
(*                                                                         *)
(* A link is the position of its first code unit, from 1; 0 is the roller  *)
(* of the chain and Len(text) + 1 the link of type Nil that ends it.       *)
(***************************************************************************)
EXTENDS Integers, Sequences, FiniteSets, FiniteSetsExt

CONSTANTS
  Texts,        (* the bidi types of paragraphs                            *)
  MaxLevel,     (* SBLevelMax                                              *)
  BaseLevels    (* the base levels that clients ask for                    *)

SBLevelDefaultLTR == 254
SBLevelDefaultRTL == 253

Embeddings == {"LRE", "RLE", "LRO", "RLO"}
Initiators == {"LRI", "RLI", "FSI"}
BidiTypes  == Embeddings \cup Initiators \cup {"L", "R", "ON", "PDF", "PDI", "BN", "B"}

ASSUME LevelsAssumption ==
  /\ MaxLevel \in 2..(SBLevelDefaultRTL - 1)
  /\ BaseLevels \subseteq 0..255

(* DetermineBoundary ends a paragraph with its separator.                  *)
ASSUME TextsAssumption ==
  \A text \in Texts :
    /\ text \in Seq(BidiTypes)
    /\ \A i \in 1..Len(text) : text[i] = "B" => i = Len(text)

VARIABLES
  text,           (* the bidi types of the paragraph                       *)
  baseLevel,      (* the resolved paragraph level                          *)
  chain,          (* the links that are in the chain; their order is that  *)
                  (* of the positions                                      *)
  types,          (* chain->types                                          *)
  levels,         (* chain->levels                                         *)
  link,           (* the local variables of DetermineLevels                *)
  priorLink,
  firstLink,
  priorLevel,
  sor,
  overIsolate,
  overEmbedding,
  validIsolate,
  stack,          (* the status stack, its top last: see StatusStack       *)
  runs,           (* the level runs of the run queue                       *)
  front,          (* the run at its front, a position in runs              *)
  sequences,      (* the isolating runs that were resolved                 *)
  status

paragraphVars == <<text, baseLevel>>
stackVars == <<overIsolate, overEmbedding, validIsolate, stack>>
runVars == <<firstLink, priorLevel, sor, runs>>
vars == <<text, baseLevel, chain, types, levels, link, priorLink, firstLink, priorLevel, sor,
          overIsolate, overEmbedding, validIsolate, stack, runs, front, sequences, status>>

None == 0
InvalidLevel == -1
Larger(m, n) == IF m >= n THEN m ELSE n

(* SBLevelAsNormalBidiType                                                 *)
Direction(level) == IF level % 2 = 1 THEN "R" ELSE "L"

NextLink(links, l) ==
  LET after == {m \in links : m > l} IN IF after = {} THEN 0 ELSE Min(after)

-----------------------------------------------------------------------------
(* The chain and the paragraph level.                                      *)

SingleTypes == (BidiTypes \ {"L", "R", "BN"})

(* PopulateBidiChain: neutrals and formatting have a link each; other code *)
(* units of one type in a row share one.                                   *)
Populated(txt) ==
  {i \in 1..Len(txt) : txt[i] \in SingleTypes \/ i = 1 \/ txt[i] # txt[i - 1]}
    \cup {Len(txt) + 1}

(* The first link after l that closes as many isolates as were opened.     *)
SkipIsolatingRun(links, typeOf, l) ==
  LET Count(m, which) == Cardinality({k \in links : l <= k /\ k <= m /\ typeOf[k] \in which})
      closing == {m \in links : l < m /\ Count(m, Initiators) = Count(m, {"PDI"})}
  IN  IF closing = {} THEN None ELSE Min(closing)

(* The level by the first strong link after skipLink that is in no isolate;*)
(* an isolate that nothing closes, or the PDI of this one, ends the search.*)
DetermineBaseLevel(links, typeOf, skipLink, defaultLevel, isIsolate) ==
  LET IsClosedBefore(i, m) == SkipIsolatingRun(links, typeOf, i) \in 1..(m - 1)
      reached == {m \in links : m > skipLink /\
                    \A i \in links : skipLink < i /\ i < m /\ typeOf[i] \in Initiators =>
                      IsClosedBefore(i, m)}
      ending  == {m \in reached : typeOf[m] \in {"L", "R"} \/ (typeOf[m] = "PDI" /\ isIsolate)}
  IN  CASE ending # {} /\ typeOf[Min(ending)] = "L" -> 0
        [] ending # {} /\ typeOf[Min(ending)] = "R" -> 1
        [] OTHER -> defaultLevel

TypesOf(txt) == [l \in 0..(Len(txt) + 1) |-> IF l \in 1..Len(txt) THEN txt[l] ELSE "Nil"]

DetermineParagraphLevel(txt, request) ==
  IF request >= MaxLevel
  THEN DetermineBaseLevel(Populated(txt), TypesOf(txt), 0,
                          IF request = SBLevelDefaultRTL THEN 1 ELSE 0, FALSE)
  ELSE request

Status(level, override, isolate) ==
  [level |-> level, override |-> override, isolate |-> isolate]

(* Rule X1.                                                                *)
Init ==
  /\ text \in Texts
  /\ \E request \in BaseLevels : baseLevel = DetermineParagraphLevel(text, request)
  /\ chain = Populated(text)
  /\ types = TypesOf(text)
  /\ levels = [l \in 0..(Len(text) + 1) |-> InvalidLevel]
  /\ link = 1
  /\ priorLink = 0
  /\ firstLink = None
  /\ priorLevel = baseLevel
  /\ sor = "Nil"
  /\ overIsolate = 0
  /\ overEmbedding = 0
  /\ validIsolate = 0
  /\ stack = <<Status(baseLevel, "ON", FALSE)>>
  /\ runs = <<>>
  /\ front = 1
  /\ sequences = <<>>
  /\ status = "scanning"

-----------------------------------------------------------------------------
(* Level runs.                                                             *)

(* LevelRunInitialize: the kind of a run is told by its end links.         *)
LevelRun(first, last, leading, trailing) ==
  [first |-> first, last |-> last, sor |-> leading, eor |-> trailing, level |-> levels[first],
   partial |-> types[last] \in Initiators, terminating |-> types[first] = "PDI",
   attached |-> FALSE, next |-> None]

FirstPartialRun ==
  LET partial == {k \in 1..Len(runs) : runs[k].partial}
  IN  IF partial = {} THEN None ELSE Min(partial)

(* queue->_lastPartialRun: the last isolating run that is not attached yet.*)
LastPartialRun ==
  LET partial == {k \in 1..Len(runs) : runs[k].partial}
  IN  IF partial = {} THEN None ELSE Max(partial)

KeepsPartial(run) ==
  IF LastPartialRun # None /\ run.terminating
  THEN Append([runs EXCEPT ![LastPartialRun].next = Len(runs) + 1],
              [run EXCEPT !.attached = TRUE])
  ELSE Append(runs, run)

(* RunQueueEnqueue: a run that starts with a PDI completes the last partial*)
(* run.                                                                    *)
Enqueue(run) ==
  IF LastPartialRun # None /\ run.terminating
  THEN Append([runs EXCEPT ![LastPartialRun].next = Len(runs) + 1,
                           ![LastPartialRun].partial = FALSE],
              [run EXCEPT !.attached = TRUE])
  ELSE Append(runs, run)

(* The end of an iteration that keeps its link: a run ends at the prior    *)
(* link where the level changes, and with the paragraph.                   *)
ContinueRun(level, forceFinish) ==
  LET eor == Direction(Larger(priorLevel, level)) IN
  /\ priorLink' = link
  /\ \/ /\ sor = "Nil"
        /\ sor' = Direction(Larger(baseLevel, level))
        /\ firstLink' = link
        /\ priorLevel' = level
        /\ UNCHANGED runs
     \/ /\ sor # "Nil" /\ (priorLevel # level \/ forceFinish)
        /\ runs' = Enqueue(LevelRun(firstLink, priorLink, sor, eor))
        /\ sor' = eor
        /\ firstLink' = link
        /\ priorLevel' = level
     \/ /\ sor # "Nil" /\ priorLevel = level /\ ~forceFinish
        /\ UNCHANGED runVars

RemovesAndAdvances ==
  /\ chain' = chain \ {NextLink(chain, priorLink)}
  /\ priorLink' = link
  /\ UNCHANGED runVars

(* BidiChainAbandonNext and BidiChainAbsorbNext: the link after the prior  *)
(* one leaves the chain.                                                   *)
RemoveLink ==
  /\ chain' = chain \ {NextLink(chain, priorLink)}
  /\ UNCHANGED <<priorLink, runVars>>

-----------------------------------------------------------------------------
(* The iterations of DetermineLevels, by the type of the link.             *)

At(which) ==
  /\ status = "scanning"
  /\ types[link] \in which
  /\ link' = NextLink(chain, link)
  /\ UNCHANGED <<paragraphVars, front, sequences>>

Top == stack[Len(stack)]

(* How the cases of rules X5a to X6a end: give the link a level and what   *)
(* the override makes of its type, and merge it if then it is like the     *)
(* prior link (MergeLinkIfNeeded).                                         *)
Settle(level, override) ==
  LET type == IF override = "ON" THEN types[link] ELSE override
      merges == override # "ON" /\ types[priorLink] = type /\ levels[priorLink] = level
  IN  /\ levels' = [levels EXCEPT ![link] = level]
      /\ types' = [types EXCEPT ![link] = type]
      /\ \/ merges /\ RemoveLink
         \/ ~merges /\ ContinueRun(level, FALSE) /\ UNCHANGED chain
      /\ UNCHANGED status

(* Rule X9.                                                                *)
Abandon == RemoveLink /\ UNCHANGED <<types, levels, status>>

(* LeastGreaterOddLevel and LeastGreaterEvenLevel                          *)
LeastGreater(isRTL) ==
  CHOOSE level \in {Top.level + 1, Top.level + 2} : (level % 2 = 1) = isRTL

PushesTooDeep(level) == level <= MaxLevel + 1 /\ overIsolate = 0 /\ overEmbedding = 0

CanPush(level) == level <= MaxLevel /\ overIsolate = 0 /\ overEmbedding = 0

(* Rules X2 to X5.                                                         *)
Embed ==
  /\ At(Embeddings)
  /\ LET isRTL    == types[link] \in {"RLE", "RLO"}
         override == IF types[link] = "RLO" THEN "R"
                     ELSE IF types[link] = "LRO" THEN "L" ELSE "ON"
         level    == LeastGreater(isRTL)
     IN  \/ /\ CanPush(level)
            /\ stack' = Append(stack, Status(level, override, FALSE))
            /\ UNCHANGED overEmbedding
         \/ /\ ~CanPush(level)
            /\ overEmbedding' = IF overIsolate = 0 THEN overEmbedding + 1 ELSE overEmbedding
            /\ UNCHANGED stack
  /\ UNCHANGED <<overIsolate, validIsolate>>
  /\ Abandon

(* Rules X5a to X5c.                                                       *)
Isolate ==
  /\ At(Initiators)
  /\ LET isRTL == \/ types[link] = "RLI"
                  \/ types[link] = "FSI" /\ DetermineBaseLevel(chain, types, link, 0, TRUE) = 1
         level == LeastGreater(isRTL)
     IN  \/ /\ CanPush(level)
            /\ validIsolate' = validIsolate + 1
            /\ stack' = Append(stack, Status(level, "ON", TRUE))
            /\ UNCHANGED overIsolate
         \/ /\ ~CanPush(level)
            /\ overIsolate' = overIsolate + 1
            /\ UNCHANGED <<validIsolate, stack>>
  /\ UNCHANGED overEmbedding
  /\ Settle(Top.level, Top.override)

KeepsOverEmbedding ==
  /\ At({"PDI"})
  /\ \/ /\ overIsolate # 0
        /\ overIsolate' = overIsolate - 1
        /\ UNCHANGED <<overEmbedding, validIsolate, stack>>
     \/ /\ overIsolate = 0 /\ validIsolate = 0
        /\ UNCHANGED stackVars
     \/ /\ overIsolate = 0 /\ validIsolate # 0
        /\ validIsolate' = validIsolate - 1
        /\ stack' = SubSeq(stack, 1, Max({k \in 1..Len(stack) : stack[k].isolate}) - 1)
        /\ UNCHANGED <<overIsolate, overEmbedding>>
  /\ Settle(stack'[Len(stack')].level, stack'[Len(stack')].override)

(* Rule X6a: the pops go down to the last isolate, and take it too.        *)
CloseIsolate ==
  /\ At({"PDI"})
  /\ \/ /\ overIsolate # 0
        /\ overIsolate' = overIsolate - 1
        /\ UNCHANGED <<overEmbedding, validIsolate, stack>>
     \/ /\ overIsolate = 0 /\ validIsolate = 0
        /\ UNCHANGED stackVars
     \/ /\ overIsolate = 0 /\ validIsolate # 0
        /\ overEmbedding' = 0
        /\ validIsolate' = validIsolate - 1
        /\ stack' = SubSeq(stack, 1, Max({k \in 1..Len(stack) : stack[k].isolate}) - 1)
        /\ UNCHANGED overIsolate
  /\ Settle(stack'[Len(stack')].level, stack'[Len(stack')].override)

PopsIsolate ==
  /\ At({"PDF"})
  /\ \/ /\ overIsolate = 0 /\ overEmbedding # 0
        /\ overEmbedding' = overEmbedding - 1
        /\ UNCHANGED stack
     \/ /\ overIsolate = 0 /\ overEmbedding = 0 /\ Len(stack) >= 2
        /\ stack' = SubSeq(stack, 1, Len(stack) - 1)
        /\ UNCHANGED overEmbedding
     \/ /\ overIsolate # 0 \/ (overEmbedding = 0 /\ Len(stack) < 2)
        /\ UNCHANGED <<overEmbedding, stack>>
  /\ UNCHANGED <<overIsolate, validIsolate>>
  /\ Abandon

(* Rule X7.                                                                *)
CloseEmbedding ==
  /\ At({"PDF"})
  /\ \/ /\ overIsolate = 0 /\ overEmbedding # 0
        /\ overEmbedding' = overEmbedding - 1
        /\ UNCHANGED stack
     \/ /\ overIsolate = 0 /\ overEmbedding = 0 /\ ~Top.isolate /\ Len(stack) >= 2
        /\ stack' = SubSeq(stack, 1, Len(stack) - 1)
        /\ UNCHANGED overEmbedding
     \/ /\ overIsolate # 0 \/ (overEmbedding = 0 /\ (Top.isolate \/ Len(stack) < 2))
        /\ UNCHANGED <<overEmbedding, stack>>
  /\ UNCHANGED <<overIsolate, validIsolate>>
  /\ Abandon

(* Rule X8.                                                                *)
Separate ==
  /\ At({"B"})
  /\ stack' = <<Status(baseLevel, "ON", FALSE)>>
  /\ overIsolate' = 0 /\ overEmbedding' = 0 /\ validIsolate' = 0
  /\ Settle(baseLevel, "ON")

Drop == At({"BN"}) /\ Abandon /\ UNCHANGED stackVars

(* Rule X6.                                                                *)
Assign ==
  /\ At({"L", "R", "ON"})
  /\ Settle(Top.level, Top.override)
  /\ UNCHANGED stackVars

(* The link of type Nil.                                                   *)
Finish ==
  /\ At({"Nil"})
  /\ levels' = [levels EXCEPT ![link] = baseLevel]
  /\ ContinueRun(baseLevel, TRUE)
  /\ status' = "resolving"
  /\ UNCHANGED <<chain, types, stackVars>>

-----------------------------------------------------------------------------
(* Rule X10, by ProcessRun.                                                *)

RunsFrom(k) ==
  LET from[n \in 1..Len(runs)] ==
        IF runs[n].next = None THEN {n} ELSE {n} \cup from[runs[n].next]
  IN  from[k]

IgnoresParagraph(k) == runs[Max(RunsFrom(k))].eor

(* AttachLevelRunLinks: the end of the sequence that starts with run k.    *)
EndOfSequence(k) ==
  IF runs[k].partial THEN Direction(Larger(runs[k].level, baseLevel))
  ELSE runs[Max(RunsFrom(k))].eor

(* The loop over the run queue.  IsolatingRunResolve goes on from here.    *)
Resolve ==
  /\ status = "resolving" /\ front <= Len(runs)
  /\ front' = front + 1
  /\ sequences' = IF runs[front].attached THEN sequences
                  ELSE Append(sequences, [runs |-> RunsFrom(front),
                                          sos  |-> runs[front].sor,
                                          eos  |-> EndOfSequence(front)])
  /\ UNCHANGED <<paragraphVars, chain, types, levels, link, priorLink, runVars, stackVars, status>>

Complete ==
  /\ status = "resolving" /\ front > Len(runs)
  /\ status' = "resolved"
  /\ UNCHANGED <<paragraphVars, chain, types, levels, link, priorLink, runVars, stackVars,
                 front, sequences>>

(* A push, an enqueue or a resolution finds no memory; the paragraph is    *)
(* not created.                                                            *)
Fail ==
  /\ status \in {"scanning", "resolving"}
  /\ status' = "failed"
  /\ UNCHANGED <<paragraphVars, chain, types, levels, link, priorLink, runVars, stackVars,
                 front, sequences>>

Returned == status \in {"resolved", "failed"} /\ UNCHANGED vars

Next ==
  \/ Embed \/ Isolate \/ CloseIsolate \/ CloseEmbedding
  \/ Separate \/ Drop \/ Assign \/ Finish
  \/ Resolve \/ Complete \/ Fail \/ Returned

Spec == Init /\ [][Next]_vars

(* SaveLevels, before rules I1 and I2: a link gives its level to all of the*)
(* positions up to the next link.                                          *)
SavedLevel(i) ==
  LET before == {l \in chain : l <= i}
  IN  IF before = {} THEN baseLevel ELSE levels[Max(before)]

-----------------------------------------------------------------------------
(* The reference: definitions BD9, BD11 and BD13 and rules X1 to X10 of    *)
(* UAX #9 as properties of positions, without a stack, a chain or a queue. *)

Positions == 1..Len(text)
Past == Len(text) + 1

CountIn(i, j, which) == Cardinality({k \in i..j : text[k] \in which})

(* BD9: the PDI that closes an isolate, or past the end.                   *)
MatchingPDI(i) ==
  Min({Past} \cup {j \in (i + 1)..Len(text) :
                     CountIn(i, j, Initiators) = CountIn(i, j, {"PDI"})})

IsolatesAround(i) ==
  {j \in 1..(i - 1) : text[j] \in Initiators /\ i < MatchingPDI(j)}

(* BD11: the PDF in the same isolate that closes an embedding, or where    *)
(* that isolate ends.                                                      *)
EmbeddingEnd(i) ==
  LET Inside(j, which) ==
        {k \in i..j : text[k] \in which /\ IsolatesAround(k) = IsolatesAround(i)}
  IN  Min({Past} \cup {j \in (i + 1)..Len(text) :
             \/ ~(IsolatesAround(i) \subseteq IsolatesAround(j))
             \/ Cardinality(Inside(j, Embeddings)) = Cardinality(Inside(j, {"PDF"}))})

(* The innermost embedding or isolate around a position, or none.          *)
Parent(i) ==
  Max({None} \cup IsolatesAround(i)
             \cup {j \in 1..(i - 1) : text[j] \in Embeddings /\ i < EmbeddingEnd(j)})

(* Rule X5c: P2 and P3 between an FSI and its PDI.                         *)
IsRTLIsolate(i) ==
  LET strong == {k \in (i + 1)..(MatchingPDI(i) - 1) :
                   text[k] \in {"L", "R"} /\ IsolatesAround(k) = IsolatesAround(i) \cup {i}}
  IN  strong # {} /\ text[Min(strong)] = "R"

(* What each embedding or isolate gives to the text in it: 0 is the        *)
(* paragraph.  One that exceeds the depth, or is in one that does, gives   *)
(* what is given to itself.                                                *)
Scopes ==
  LET scope[i \in 0..Len(text)] ==
        IF i = 0 THEN [level |-> baseLevel, override |-> "ON", overflows |-> FALSE]
        ELSE LET outer == scope[Parent(i)]
                 isRTL == \/ text[i] \in {"RLE", "RLO", "RLI"}
                          \/ text[i] = "FSI" /\ IsRTLIsolate(i)
                 level == CHOOSE n \in {outer.level + 1, outer.level + 2} : (n % 2 = 1) = isRTL
             IN  IF outer.overflows \/ level > MaxLevel THEN [outer EXCEPT !.overflows = TRUE]
                 ELSE [level |-> level, overflows |-> FALSE,
                       override |-> CASE text[i] = "LRO" -> "L"
                                      [] text[i] = "RLO" -> "R"
                                      [] OTHER -> "ON"]
  IN  scope

ExplicitLevels ==
  LET scopes == Scopes
  IN  [i \in Positions |-> IF text[i] = "B" THEN baseLevel ELSE scopes[Parent(i)].level]

(* Rule X9.                                                                *)
Visible == {i \in Positions : text[i] \notin Embeddings \cup {"PDF", "BN"}}

NextVisible(i) == Min({Past} \cup {j \in Visible : j > i})
LevelAt(explicit, i) == IF i \in Positions THEN explicit[i] ELSE baseLevel

(* An initiator under an override was given a strong type, by which the    *)
(* code no longer takes it for one; so its run never needs the PDI.        *)
IsInitiator(i) == text[i] \in Initiators /\ Scopes[Parent(i)].override = "ON"

(* BD13: the next position in the isolating run sequence.                  *)
NextInSequence(explicit, i) ==
  IF NextVisible(i) # Past /\ explicit[NextVisible(i)] = explicit[i] THEN NextVisible(i)
  ELSE IF IsInitiator(i) THEN MatchingPDI(i) ELSE Past

SequencesOf(explicit) ==
  LET follow == [i \in Visible |-> NextInSequence(explicit, i)]
      from[i \in Positions] == {i} \cup IF follow[i] = Past THEN {} ELSE from[follow[i]]
  IN  {from[i] : i \in {j \in Visible : \A k \in Visible : follow[k] # j}}

(* Rule X10: sos and eos.                                                  *)
StartOfSequence(explicit, positions) ==
  LET first == Min(positions)
  IN  Direction(Larger(explicit[first],
                       LevelAt(explicit, Max({0} \cup {j \in Visible : j < first}))))

IsOpen(i) == text[i] \in Initiators /\ MatchingPDI(i) = Past

EndLevel(explicit, positions) ==
  LET last == Max(positions)
  IN  Larger(explicit[last],
             IF IsOpen(last) THEN baseLevel ELSE LevelAt(explicit, NextVisible(last)))

-----------------------------------------------------------------------------
(* Properties.                                                             *)

TypeOK ==
  /\ text \in Texts /\ baseLevel \in 0..(MaxLevel - 1)
  /\ chain \subseteq 1..Past /\ link \in 0..Past /\ priorLink \in 0..Past
  /\ types \in [0..Past -> BidiTypes \cup {"Nil"}]
  /\ levels \in [0..Past -> InvalidLevel..MaxLevel]
  /\ firstLink \in 0..Past /\ priorLevel \in 0..MaxLevel /\ sor \in {"L", "R", "Nil"}
  /\ overIsolate \in Nat /\ overEmbedding \in Nat /\ validIsolate \in Nat
  /\ status \in {"scanning", "resolving", "resolved", "failed"}

(* StatusStackPush asserts that the stack has at most 127 elements, and    *)
(* StatusStackPop and the getters need one below the popped ones: the      *)
(* levels grow towards the top, the base stays, and validIsolate counts the*)
(* isolates on the stack, so that the loop of rule X6a finds one.          *)
StackAccounts ==
  /\ Len(stack) \in 1..(MaxLevel + 1)
  /\ stack[1] = Status(baseLevel, "ON", FALSE)
  /\ \A k \in 1..Len(stack) :
       stack[k].level <= MaxLevel /\ (k > 1 => stack[k - 1].level < stack[k].level)
  /\ validIsolate = Cardinality({k \in 1..Len(stack) : stack[k].isolate})

(* The link that an abandon or a merge removes, the one after the prior    *)
(* link, is always the link at hand; and the prior link is in the chain, so*)
(* that it is the one to be linked to the rest (BidiChainAbandonNext).     *)
PriorPrecedes ==
  status = "scanning" => priorLink \in chain \cup {0} /\ NextLink(chain, priorLink) = link

(* Every position that rule X9 keeps gets the level that rules X1 to X8    *)
(* give it, whatever was merged or abandoned, closed by nothing or too     *)
(* deep (DetermineLevels).                                                 *)
LevelsAreExplicit ==
  status = "resolved" =>
    LET explicit == ExplicitLevels IN \A i \in Visible : SavedLevel(i) = explicit[i]

(* The assertions of LevelRunAttach: a run that the queue completes goes on*)
(* with a run of the same level that starts with a PDI, which is attached  *)
(* to no other one; so the pairing by the queue agrees with that by the    *)
(* status stack.                                                           *)
AttachesAlike ==
  \A k \in {m \in 1..Len(runs) : runs[m].next # None} :
    LET follower == runs[runs[k].next] IN
    /\ follower.level = runs[k].level
    /\ follower.terminating /\ follower.attached
    /\ \A m \in 1..Len(runs) : runs[m].next = runs[k].next => m = k

PositionsOf(sequence) ==
  {i \in Visible : \E k \in sequence.runs :
     LET l == Max({m \in chain : m <= i}) IN runs[k].first <= l /\ l <= runs[k].last}

(* The run queue ties the level runs to exactly the isolating run sequences*)
(* of BD13, each resolved once and from its sos (RunQueueEnqueue).         *)
RunsFormSequences ==
  status = "resolved" =>
    LET explicit == ExplicitLevels
        expected == SequencesOf(explicit)
    IN  /\ {[positions |-> PositionsOf(sequences[k]), sos |-> sequences[k].sos] :
               k \in 1..Len(sequences)}
             = {[positions |-> p, sos |-> StartOfSequence(explicit, p)] : p \in expected}
        /\ Len(sequences) = Cardinality(expected)

EndsAsRuled(sequence) ==
  sequence.eos = Direction(EndLevel(ExplicitLevels, PositionsOf(sequence)))

(* A sequence of one level run ends as rule X10 says, and so does every    *)
(* other one that does not end with an isolate left open.  Under an        *)
(* override the last position is strong, and nothing reads eos.            *)
RunEndsAsRuled ==
  status = "resolved" => \A k \in 1..Len(sequences) :
    LET last == Max(PositionsOf(sequences[k])) IN
    \/ IsOpen(last) /\ (~IsInitiator(last) \/ Cardinality(sequences[k].runs) > 1)
    \/ EndsAsRuled(sequences[k])

(* Every sequence ends as rule X10 says, the one with several runs that    *)
(* ends with an open isolate too (AttachLevelRunLinks).                    *)
SequenceEndsAsRuled ==
  status = "resolved" => \A k \in 1..Len(sequences) :
    \/ EndsAsRuled(sequences[k])
    \/ ~IsInitiator(Max(PositionsOf(sequences[k])))
=============================================================================
