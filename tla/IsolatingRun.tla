---------------------------- MODULE IsolatingRun ----------------------------
(***************************************************************************)
(* Source/UBA/IsolatingRun.c and BracketQueue.c: rules W1 to W7, N0 to N2, *)
(* I1 and I2 of UAX #9 on one isolating run sequence.  The links of its    *)
(* level runs are tied together, each rule group walks them and merges     *)
(* those that have become alike, and then the links are tied back into the *)
(* chain of the paragraph.                                                 *)
(*                                                                         *)
(* A link is the position of its first code unit, from 1; 0 is the roller, *)
(* and Len(text) + 1 the link of type Nil that ends the chain.             *)
(***************************************************************************)
EXTENDS Integers, Sequences, FiniteSets, FiniteSetsExt

CONSTANTS
  Inputs,          (* the sequences to resolve                             *)
  MaxOpenPairs     (* BracketQueueMaxOpenPairs                             *)

Openings == {"(", "["}
Closings == {")", "]"}
Brackets == Openings \cup Closings

Isolates == {"RLI", "PDI"}

(* "X" is a code unit of another sequence: it is before this one, behind   *)
(* it, or in an isolate of it.  "BN" stands for all that rule X9 removes.  *)
Units == {"L", "R", "AL", "EN", "AN", "ES", "ET", "CS", "NSM", "BN", "WS", "ON", "X"}
           \cup Brackets \cup Isolates

Direction(level) == IF level % 2 = 1 THEN "R" ELSE "L"
Opposite(level)  == IF level % 2 = 1 THEN "L" ELSE "R"

VisibleIn(txt) == {i \in 1..Len(txt) : txt[i] # "BN"}

(* The elements of a set of positions next to one, or 0 or past the end.   *)
Before(positions, i) == Max({0} \cup {j \in positions : j < i})
After(positions, i, past) == Min({past} \cup {j \in positions : j > i})

(* What DetermineLevels hands over.  Units of other sequences are inside an*)
(* isolate, or at an end; only those give sos or eos another direction than*)
(* the level of the sequence has.                                          *)
IsSequence(input) ==
  LET txt  == input.text
      seen == VisibleIn(txt)
      own  == {i \in seen : txt[i] # "X"}
  IN  /\ txt \in Seq(Units) /\ own # {}
      /\ input.level \in Nat /\ input.sos \in {"L", "R"} /\ input.eos \in {"L", "R"}
      /\ \A i \in seen : txt[i] = "X" =>
           LET from == Before(own, i)
               to   == After(own, i, Len(txt) + 1)
           IN  from = 0 \/ to > Len(txt) \/ (txt[from] = "RLI" /\ txt[to] = "PDI")
      /\ \A i \in own : txt[i] = "RLI" =>
           After(seen, i, Len(txt) + 1) \in {Len(txt) + 1} \cup {j \in seen : txt[j] \in {"X", "PDI"}}
      /\ input.sos # Direction(input.level) => txt[Min(seen)] = "X"
      /\ input.eos # Direction(input.level) => txt[Max(seen)] = "X" /\ txt[Max(own)] # "RLI"

ASSUME InputsAssumption ==
  /\ MaxOpenPairs \in Nat \ {0}
  /\ \A input \in Inputs : IsSequence(input)

VARIABLES
  run,              (* the isolating run: its text, level, sos and eos     *)
  links,            (* chain->links                                        *)
  types,            (* chain->types                                        *)
  single,           (* the links with BidiFlagSingle                       *)
  levels,           (* chain->levels                                       *)
  link,             (* the local variables of the functions                *)
  priorLink,
  prior,            (* the types that the next link depends on             *)
  neutralLink,
  lastLink,
  priorStrongLink,
  queue,            (* the bracket queue: its elements                     *)
  firstOpenPair,    (* positions in it                                     *)
  front,
  actualCount,
  pairCount,
  phase

chainVars == <<links, types, single, levels>>
queueVars == <<queue, firstOpenPair, front, actualCount, pairCount, priorStrongLink>>
vars == <<run, links, types, single, levels, link, priorLink, prior, neutralLink, lastLink,
          priorStrongLink, queue, firstOpenPair, front, actualCount, pairCount, phase>>

None == 0

Text == run.text
Past == Len(Text) + 1
Embedding == Direction(run.level)

(* Deeper, or higher, than any level of the sequence.                      *)
OtherLevel == 9

-----------------------------------------------------------------------------
(* The chain as DetermineLevels leaves it.                                 *)

TypeOf(unit) == IF unit \in Brackets THEN "ON" ELSE unit

SingleTypes == {"ON", "RLI", "PDI", "X"}

(* PopulateBidiChain                                                       *)
StartsLink(txt, i) ==
  \/ i = 1 \/ i > Len(txt)
  \/ TypeOf(txt[i]) \in SingleTypes \/ TypeOf(txt[i]) # TypeOf(txt[i - 1])

(* Rule X9 removes links from the chain.                                   *)
Populated(txt) == {i \in VisibleIn(txt) : StartsLink(txt, i)} \cup {Len(txt) + 1}

NextIn(positions, l) ==
  LET after == {m \in positions : m > l} IN IF after = {} THEN 0 ELSE Min(after)

Own == {l \in Populated(Text) : l < Past /\ Text[l] # "X"}

FirstLinks == {l \in Own : Before(Populated(Text), l) \notin Own}
LastLinks  == {l \in Own : NextIn(Populated(Text), l) \notin Own}

Init ==
  /\ run \in Inputs
  /\ links = [l \in 0..Past |-> NextIn(Populated(Text), l)]
  /\ types = [l \in 0..Past |-> IF l \in 1..Len(Text) THEN TypeOf(Text[l]) ELSE "Nil"]
  /\ single = {l \in Populated(Text) : l < Past /\ StartsLink(Text, l + 1)}
  /\ levels = [l \in 0..Past |-> IF l \in Own THEN run.level ELSE OtherLevel]
  /\ link = 0 /\ priorLink = 0 /\ neutralLink = None /\ lastLink = 0
  /\ prior = [w1 |-> "Nil", w2 |-> "Nil", w4 |-> "Nil", w5 |-> "Nil", w7 |-> "Nil", strong |-> "Nil"]
  /\ priorStrongLink = None /\ queue = <<>> /\ firstOpenPair = None /\ front = None
  /\ actualCount = 0 /\ pairCount = 0
  /\ phase = "attach"

(* The links that a walk from the roller meets.                            *)
Chain ==
  LET from[l \in 0..Past] == IF l = 0 THEN {} ELSE {l} \cup from[links[l]]
  IN  from[links[0]]

At(which) ==
  /\ phase = which /\ link # 0
  /\ UNCHANGED <<run, phase>>

(* BidiChainForEach has come back to the roller, and the next walk begins. *)
Walked(which, next) ==
  /\ phase = which /\ link = 0
  /\ phase' = next
  /\ link' = links[0]
  /\ UNCHANGED <<run, chainVars>>

-----------------------------------------------------------------------------
(* AttachLevelRunLinks, and the start of ResolveWeakTypes.                 *)

Attached ==
  [l \in 0..Past |-> IF l \in LastLinks \cup {0} THEN NextIn(FirstLinks, l) ELSE links[l]]

Attach ==
  /\ phase = "attach"
  /\ links' = Attached
  /\ link' = Attached[0]
  /\ priorLink' = 0
  /\ prior' = [prior EXCEPT !.w1 = run.sos, !.w2 = run.sos]
  /\ phase' = "weak"
  /\ UNCHANGED <<run, types, single, levels, neutralLink, lastLink, queueVars>>

(* BidiChainAbsorbNext, or the link becomes the prior one.                 *)
MergeOrGoOn(type, forceMerge) ==
  /\ \/ /\ (type # "ON" /\ types[priorLink] = type) \/ forceMerge
        /\ links' = [links EXCEPT ![priorLink] = links[links[priorLink]]]
        /\ single' = single \ {priorLink}
        /\ UNCHANGED priorLink
     \/ /\ ~((type # "ON" /\ types[priorLink] = type) \/ forceMerge)
        /\ priorLink' = link
        /\ UNCHANGED <<links, single>>
  /\ link' = links[link]
  /\ UNCHANGED <<levels, neutralLink, lastLink, queueVars>>

(* Rules W1 to W3.                                                         *)
ResolveMarks ==
  /\ At("weak")
  /\ LET isMark  == types[link] = "NSM"
         type    == IF ~isMark THEN types[link]
                    ELSE IF prior.w1 \in Isolates THEN "ON" ELSE prior.w1
         written == CASE type = "EN" /\ prior.w2 = "AL" -> "AN"
                      [] type = "AL" -> "R"
                      [] OTHER -> type
     IN  /\ types' = [types EXCEPT ![link] = written]
         /\ prior' = [prior EXCEPT !.w1 = type,
                                   !.w2 = IF type \in {"L", "R", "AL"} THEN type ELSE @]
         /\ MergeOrGoOn(type, isMark /\ prior.w1 = "ON")

BeginNumbers ==
  /\ Walked("weak", "numbers")
  /\ priorLink' = 0
  /\ prior' = [prior EXCEPT !.w4 = run.sos, !.w5 = run.sos, !.w7 = run.sos]
  /\ UNCHANGED <<neutralLink, lastLink, queueVars>>

JoinsNumbersManifold(own, next) ==
  /\ own \in {"ES", "CS"} /\ prior.w4 \in {"EN", "AN"} /\ prior.w4 = next
  /\ prior.w4 = "EN" \/ own = "CS"

(* The link is one separator between two numbers of one kind.              *)
JoinsNumbers(own, next) ==
  /\ link \in single /\ own \in {"ES", "CS"}
  /\ prior.w4 \in {"EN", "AN"} /\ prior.w4 = next
  /\ prior.w4 = "EN" \/ own = "CS"

(* Rules W4 to W7.                                                         *)
ResolveNumbers ==
  /\ At("numbers")
  /\ LET own  == types[link]
         next == types[links[link]]
         fourth  == IF JoinsNumbers(own, next) THEN prior.w4 ELSE own
         fifth   == IF fourth = "ET" /\ (prior.w5 = "EN" \/ next = "EN") THEN "EN" ELSE fourth
         written == CASE fifth \in {"ET", "CS", "ES"} -> "ON"
                      [] fifth = "EN" /\ prior.w7 = "L" -> "L"
                      [] OTHER -> fifth
     IN  /\ types' = [types EXCEPT ![link] = written]
         /\ prior' = [prior EXCEPT !.w4 = fourth, !.w5 = fifth,
                                   !.w7 = IF fifth \in {"L", "R"} THEN fifth ELSE @]
         /\ MergeOrGoOn(fifth, FALSE)

(* BracketQueueReset                                                       *)
BeginBrackets ==
  /\ Walked("numbers", "brackets")
  /\ lastLink' = priorLink
  /\ queue' = <<>> /\ firstOpenPair' = None /\ front' = None
  /\ actualCount' = 0 /\ pairCount' = 0 /\ priorStrongLink' = None
  /\ UNCHANGED <<priorLink, prior, neutralLink>>

-----------------------------------------------------------------------------
(* Rule N0.  The lists of the queue are one sequence here, as those of the *)
(* status stack are shown to be.                                           *)

(* LookupBracketPair and SBCodepointIsCanonicalEquivalentBracket           *)
Closes(closing, opening) == <<opening, closing>> \in {<<"(", ")">>, <<"[", "]">>}

(* BracketQueueGetOpenPairCount                                            *)
OpenPairCount == actualCount - pairCount

Element(opening) ==
  [priorStrong |-> priorStrongLink, opening |-> opening, closing |-> None,
   bracket |-> Text[opening], inner |-> "Nil"]

IsOpen(e) == e.opening # None /\ e.closing = None
IsPair(e) == e.opening # None /\ e.closing # None

InBrackets(unit) ==
  /\ At("brackets")
  /\ types[link] = "ON" /\ Text[link] \in unit
  /\ link' = links[link]

BracketsKeep == UNCHANGED <<run, chainVars, priorLink, prior, neutralLink, lastLink>>

(* BracketQueueEnqueue                                                     *)
OpenPair ==
  /\ InBrackets(Openings)
  /\ OpenPairCount < MaxOpenPairs
  /\ queue' = Append(queue, Element(link))
  /\ actualCount' = actualCount + 1
  /\ firstOpenPair' = IF firstOpenPair = None THEN Len(queue) + 1 ELSE firstOpenPair
  /\ BracketsKeep /\ UNCHANGED <<front, pairCount, priorStrongLink>>

(* No room for a pair ends rule N0; then ResolveNeutrals begins.           *)
TooManyPairs ==
  /\ phase = "brackets" /\ link # 0
  /\ types[link] = "ON" /\ Text[link] \in Openings
  /\ OpenPairCount >= MaxOpenPairs
  /\ phase' = "neutrals"
  /\ link' = links[0]
  /\ prior' = [prior EXCEPT !.strong = run.sos]
  /\ UNCHANGED <<run, chainVars, priorLink, neutralLink, lastLink, queueVars>>

(* An enqueue finds no memory.                                             *)
Fail ==
  /\ phase = "brackets" /\ link # 0
  /\ types[link] = "ON" /\ Text[link] \in Openings
  /\ OpenPairCount < MaxOpenPairs
  /\ phase' = "failed"
  /\ UNCHANGED <<run, chainVars, link, priorLink, prior, neutralLink, lastLink, queueVars>>

Matching ==
  IF firstOpenPair = None THEN {}
  ELSE {k \in firstOpenPair..Len(queue) :
          IsOpen(queue[k]) /\ Closes(Text[link], queue[k].bracket)}

CountsInvalidated(invalid) == actualCount

(* InvalidateOpenPairs                                                     *)
CountWithout(invalid) == actualCount - Cardinality(invalid)

(* BracketQueueClosePair: the pairs that were opened inside the closed one *)
(* are open no more.                                                       *)
ClosePair ==
  /\ InBrackets(Closings)
  /\ \/ /\ Matching # {}
        /\ LET closed  == Max(Matching)
               invalid == {k \in (closed + 1)..Len(queue) : IsOpen(queue[k])}
           IN  /\ queue' = [k \in 1..Len(queue) |->
                              IF k = closed THEN [queue[k] EXCEPT !.closing = link]
                              ELSE IF k \in invalid THEN [queue[k] EXCEPT !.opening = None]
                              ELSE queue[k]]
               /\ actualCount' = CountWithout(invalid)
               /\ firstOpenPair' = IF closed = firstOpenPair THEN None ELSE firstOpenPair
        /\ pairCount' = pairCount + 1
     \/ /\ Matching = {}
        /\ UNCHANGED <<queue, actualCount, firstOpenPair, pairCount>>
  /\ BracketsKeep /\ UNCHANGED <<front, priorStrongLink>>

(* BracketQueueAssignInnerStrongType                                       *)
AssignInnerStrongType ==
  /\ At("brackets")
  /\ types[link] \in {"L", "R", "EN", "AN"}
  /\ link' = links[link]
  /\ LET type == IF types[link] = "L" THEN "L" ELSE "R"
         Takes(k) == /\ firstOpenPair # None /\ k >= firstOpenPair
                     /\ queue[k].closing = None /\ queue[k].inner # Embedding
     IN  queue' = [k \in 1..Len(queue) |->
                     IF Takes(k) THEN [queue[k] EXCEPT !.inner = type] ELSE queue[k]]
  /\ priorStrongLink' = link
  /\ BracketsKeep /\ UNCHANGED <<firstOpenPair, front, actualCount, pairCount>>

SkipOther ==
  /\ At("brackets")
  /\ types[link] \notin {"L", "R", "EN", "AN"}
  /\ types[link] = "ON" => Text[link] \notin Brackets
  /\ link' = links[link]
  /\ BracketsKeep /\ UNCHANGED queueVars

PairFrom(k) == NextIn({m \in 1..Len(queue) : IsPair(queue[m])}, k)

(* BracketQueueMarkPopulated                                               *)
MarkPopulated ==
  /\ phase = "brackets" /\ link = 0
  /\ phase' = "pairs"
  /\ front' = IF pairCount > 0 THEN PairFrom(0) ELSE None
  /\ actualCount' = 0
  /\ BracketsKeep /\ UNCHANGED <<link, queue, firstOpenPair, pairCount, priorStrongLink>>

(* The strong type before a pair, the one that a pair before it was given  *)
(* included.                                                               *)
StrongBefore(element) ==
  LET given == {l \in Chain : /\ element.priorStrong < l /\ l < element.opening
                              /\ types[l] \in {"L", "R"}}
  IN  IF element.priorStrong = None THEN run.sos
      ELSE IF given # {} THEN types[Max(given)]
      ELSE IF types[element.priorStrong] = "L" THEN "L" ELSE "R"

SubstitutesNil(pair) ==
  CASE pair.inner = Opposite(run.level) -> StrongBefore(pair) [] OTHER -> pair.inner

(* Rules N0.b to N0.d; a pair without a strong type inside keeps its own.  *)
PairType(pair) ==
  CASE pair.inner = Embedding -> Embedding
    [] pair.inner = Opposite(run.level) -> StrongBefore(pair)
    [] OTHER -> "ON"

(* One round of ResolveAvailableBracketPairs.                              *)
ResolvePair ==
  /\ phase = "pairs" /\ pairCount > 0
  /\ LET pair == queue[front]
     IN  types' = [types EXCEPT ![pair.opening] = PairType(pair), ![pair.closing] = PairType(pair)]
  /\ pairCount' = pairCount - 1
  /\ front' = PairFrom(front)
  /\ UNCHANGED <<run, links, single, levels, link, priorLink, prior, neutralLink, lastLink,
                 queue, firstOpenPair, actualCount, priorStrongLink, phase>>

BeginNeutrals ==
  /\ phase = "pairs" /\ pairCount = 0
  /\ phase' = "neutrals"
  /\ link' = links[0]
  /\ prior' = [prior EXCEPT !.strong = run.sos]
  /\ UNCHANGED <<run, chainVars, priorLink, neutralLink, lastLink, queueVars>>

-----------------------------------------------------------------------------
(* Rules N1, N2, I1 and I2.                                                *)

Neutrals == {"WS", "ON"} \cup Isolates

PassStrong ==
  /\ At("neutrals")
  /\ types[link] \notin Neutrals
  /\ link' = links[link]
  /\ prior' = [prior EXCEPT !.strong = IF types[link] = "L" THEN "L" ELSE "R"]
  /\ UNCHANGED <<chainVars, priorLink, neutralLink, lastLink, queueVars>>

IgnoresEnd(after) == IF after \in {"EN", "AN"} THEN "R" ELSE after

(* A number counts as R, and the end of the sequence as eos.               *)
NextType(after) ==
  CASE after \in {"EN", "AN"} -> "R" [] after = "Nil" -> run.eos [] OTHER -> after

ResolveNeutrals ==
  /\ At("neutrals")
  /\ types[link] \in Neutrals
  /\ LET first == IF neutralLink = None THEN link ELSE neutralLink
         next  == NextType(types[links[link]])
         group == {l \in Chain : first <= l /\ l <= link}
     IN  \/ /\ next \in {"L", "R"}
            /\ types' = [l \in 0..Past |-> IF l \notin group THEN types[l]
                                           ELSE IF prior.strong = next THEN next ELSE Embedding]
            /\ neutralLink' = None
         \/ /\ next \notin {"L", "R"}
            /\ neutralLink' = first
            /\ UNCHANGED types
  /\ link' = links[link]
  /\ UNCHANGED <<links, single, levels, priorLink, prior, lastLink, queueVars>>

BeginImplicit ==
  /\ Walked("neutrals", "implicit")
  /\ UNCHANGED <<priorLink, prior, neutralLink, lastLink, queueVars>>

(* Rule I1 at even levels, I2 at odd ones.                                 *)
Raised(level, type) ==
  IF run.level % 2 = 0
  THEN CASE type = "R" -> level + 1 [] type = "L" -> level [] OTHER -> level + 2
  ELSE IF type = "R" THEN level ELSE level + 1

ResolveImplicitLevels ==
  /\ At("implicit")
  /\ levels' = [levels EXCEPT ![link] = Raised(@, types[link])]
  /\ link' = links[link]
  /\ UNCHANGED <<links, types, single, priorLink, prior, neutralLink, lastLink, queueVars>>

(* AttachOriginalLinks: the roller and the last link of each level run get *)
(* back the links that they had.                                           *)
Original(l) == NextIn(Populated(Text), l)

ForgetsLastLink(l) == IF l \in LastLinks \cup {0} THEN Original(l) ELSE links[l]

(* The last link of all may be one that took in the last one of its run.   *)
Reattached(l) ==
  IF l = lastLink THEN Original(Max(LastLinks))
  ELSE IF l \in LastLinks \cup {0} THEN Original(l) ELSE links[l]

AttachOriginal ==
  /\ phase = "implicit" /\ link = 0
  /\ links' = [l \in 0..Past |-> Reattached(l)]
  /\ phase' = "resolved"
  /\ UNCHANGED <<run, types, single, levels, link, priorLink, prior, neutralLink, lastLink, queueVars>>

Returned == phase \in {"resolved", "failed"} /\ UNCHANGED vars

Next ==
  \/ Attach \/ ResolveMarks \/ BeginNumbers \/ ResolveNumbers
  \/ BeginBrackets \/ OpenPair \/ TooManyPairs \/ Fail \/ ClosePair
  \/ AssignInnerStrongType \/ SkipOther \/ MarkPopulated \/ ResolvePair \/ BeginNeutrals
  \/ PassStrong \/ ResolveNeutrals \/ BeginImplicit \/ ResolveImplicitLevels
  \/ AttachOriginal \/ Returned

Spec == Init /\ [][Next]_vars

-----------------------------------------------------------------------------
(* The reference: the rules of UAX #9 one after the other, on characters.  *)

IsCharacter(unit) == unit \notin {"X", "BN"}
Characters == SelectSeq(Text, IsCharacter)

(* The sequence itself; written so, TLC computes its elements once.        *)
Tabulated(sequence) == sequence \o <<>>

(* The last type of some that comes before a character, or sos.            *)
LastOf(typeOf, i, which) ==
  LET found == {j \in 1..(i - 1) : typeOf[j] \in which}
  IN  IF found = {} THEN run.sos ELSE typeOf[Max(found)]

Between(i, j) == (i + 1)..(j - 1) \cup (j + 1)..(i - 1)

WeakTypes(chars) ==
  LET all == 1..Len(chars)
      w1 == Tabulated([i \in all |->
               LET bases == {j \in 1..i : chars[j] # "NSM"}
                   base  == TypeOf(chars[Max(bases)])
               IN  IF bases = {} THEN run.sos
                   ELSE IF chars[i] = "NSM" /\ base \in Isolates THEN "ON" ELSE base])
      w2 == Tabulated([i \in all |->
               IF w1[i] = "EN" /\ LastOf(w1, i, {"L", "R", "AL"}) = "AL" THEN "AN" ELSE w1[i]])
      w3 == Tabulated([i \in all |-> IF w2[i] = "AL" THEN "R" ELSE w2[i]])
      Surrounded(i, type) == i > 1 /\ i < Len(chars) /\ w3[i - 1] = type /\ w3[i + 1] = type
      w4 == Tabulated([i \in all |->
               IF w3[i] \in {"ES", "CS"} /\ Surrounded(i, "EN") THEN "EN"
               ELSE IF w3[i] = "CS" /\ Surrounded(i, "AN") THEN "AN" ELSE w3[i]])
      w5 == Tabulated([i \in all |->
               IF w4[i] = "ET" /\ \E j \in all : w4[j] = "EN" /\ \A k \in Between(i, j) : w4[k] = "ET"
               THEN "EN" ELSE w4[i]])
      w6 == Tabulated([i \in all |-> IF w5[i] \in {"ES", "ET", "CS"} THEN "ON" ELSE w5[i]])
  IN  Tabulated([i \in all |-> IF w6[i] = "EN" /\ LastOf(w6, i, {"L", "R"}) = "L" THEN "L" ELSE w6[i]])

(* BD16 without a stack: an opening is open until a pair closes that began *)
(* at it or before it.  One opening too many leaves no pair at all, as in  *)
(* the reference of Tests/BracketQueueTests.cpp.                           *)
BracketPairs(chars, typeOf) ==
  LET Is(i, which) == typeOf[i] = "ON" /\ chars[i] \in which
      Open(pairs, i) == {j \in 1..(i - 1) : /\ Is(j, Openings)
                                            /\ \A p \in pairs : ~(p[1] <= j /\ j < p[2])}
      upTo[i \in 0..Len(chars)] ==
        IF i = 0 THEN {}
        ELSE LET pairs == upTo[i - 1]
                 match == {j \in Open(pairs, i) : Closes(chars[i], chars[j])}
             IN  IF Is(i, Closings) /\ match # {} THEN pairs \cup {<<Max(match), i>>} ELSE pairs
      all == upTo[Len(chars)]
      OpenAt(i) == Open({p \in all : p[2] < i}, i)
  IN  IF \E i \in 1..Len(chars) : Is(i, Openings) /\ Cardinality(OpenAt(i)) >= MaxOpenPairs
      THEN {} ELSE all

Strong(type) == IF type \in {"R", "EN", "AN"} THEN "R" ELSE IF type = "L" THEN "L" ELSE "ON"

(* Rule N0, pair by pair in the order of the openings; what were marks     *)
(* behind a bracket change with it.                                        *)
BracketTypes(chars, weak) ==
  LET pairs == BracketPairs(chars, weak)
      IsMarkOf(i, bracket) ==
        bracket < i /\ \A k \in (bracket + 1)..i : chars[k] = "NSM"
      Given(typeOf, p) ==
        LET inside  == {Strong(typeOf[k]) : k \in Between(p[1], p[2])}
            strong  == Tabulated([i \in 1..Len(chars) |-> Strong(typeOf[i])])
        IN  IF Embedding \in inside THEN Embedding
            ELSE IF Opposite(run.level) \in inside THEN LastOf(strong, p[1], {"L", "R"})
            ELSE "ON"
      upTo[i \in 0..Len(chars)] ==
        IF i = 0 THEN weak
        ELSE LET typeOf == upTo[i - 1]
                 begun  == {p \in pairs : p[1] = i}
                 p      == CHOOSE p \in begun : TRUE
                 type   == Given(typeOf, p)
             IN  IF begun = {} \/ type = "ON" THEN typeOf
                 ELSE Tabulated([k \in 1..Len(chars) |->
                         IF \E b \in {p[1], p[2]} : k = b \/ IsMarkOf(k, b) THEN type ELSE typeOf[k]])
  IN  upTo[Len(chars)]

NeutralTypes(typeOf) ==
  LET strong == Tabulated([i \in DOMAIN typeOf |-> Strong(typeOf[i])])
      NextOf(i) == LET found == {j \in DOMAIN typeOf : j > i /\ strong[j] # "ON"}
                   IN  IF found = {} THEN run.eos ELSE strong[Min(found)]
  IN  Tabulated([i \in DOMAIN typeOf |->
         IF typeOf[i] \notin Neutrals THEN typeOf[i]
         ELSE IF LastOf(strong, i, {"L", "R"}) = NextOf(i) THEN NextOf(i) ELSE Embedding])

ImplicitLevels ==
  LET typeOf == NeutralTypes(BracketTypes(Characters, WeakTypes(Characters)))
  IN  [i \in DOMAIN typeOf |-> Raised(run.level, typeOf[i])]

(* A pair opens inside or behind another one before anything strong, where *)
(* sos is not the embedding direction.                                     *)
LosesContext ==
  LET weak  == WeakTypes(Characters)
      pairs == BracketPairs(Characters, weak)
  IN  /\ run.sos # Embedding
      /\ \E p, q \in pairs :
           p[1] < q[1] /\ \A k \in 1..(q[1] - 1) : Strong(weak[k]) = "ON"

-----------------------------------------------------------------------------
(* Properties.                                                             *)

(* The number of a position among the characters.                          *)
Rank(i) == Len(SelectSeq(SubSeq(Text, 1, i), IsCharacter))

(* The variables keep their types: in particular only the ends of the chain*)
(* have type Nil, and no level leaves the range that rules I1 and I2 allow.*)
TypeOK ==
  /\ run \in Inputs
  /\ links \in [0..Past -> 0..Past]
  /\ types \in [0..Past -> {TypeOf(unit) : unit \in Units} \cup {"Nil"}]
  /\ \A l \in 0..Past : types[l] = "Nil" <=> l \in {0, Past}
  /\ single \subseteq 0..Past
  /\ levels \in [0..Past -> {OtherLevel} \cup run.level..(run.level + 2)]
  /\ {link, priorLink, neutralLink, lastLink, priorStrongLink} \subseteq 0..Past
  /\ {firstOpenPair, front} \subseteq 0..Len(queue)
  /\ actualCount \in Nat /\ pairCount \in Nat
  /\ phase \in {"attach", "weak", "numbers", "brackets", "pairs", "neutrals", "implicit",
                "resolved", "failed"}

(* After ResolveWeakTypes every character has the type that W1 to W7 give  *)
(* it, rule by rule over the whole sequence, although the code applies     *)
(* them in two walks, out of order, and to links that it merges on the way.*)
WeakTypesAreRuled ==
  phase = "brackets" /\ link = links[0] =>
    LET weak  == WeakTypes(Characters)
        chain == Chain
    IN  \A i \in 1..Len(Text) :
          IsCharacter(Text[i]) => types[Max({l \in chain : l <= i})] = weak[Rank(i)]

(* The counters of the queue agree with its elements: so the assertion of  *)
(* BracketQueueEnqueue holds, the search from firstOpenPair misses no open *)
(* pair, and the loop over pairCount dequeues every pair and finds the     *)
(* links of each in the chain.                                             *)
QueueAccounts ==
  LET open  == {k \in 1..Len(queue) : IsOpen(queue[k])}
      pairs == {k \in 1..Len(queue) : IsPair(queue[k])}
  IN  /\ phase = "brackets" =>
           /\ OpenPairCount = Cardinality(open) /\ OpenPairCount <= MaxOpenPairs
           /\ pairCount = Cardinality(pairs)
           /\ firstOpenPair = IF open = {} THEN None ELSE Min(open)
      /\ phase = "pairs" =>
           /\ pairCount = Cardinality({k \in pairs : front # None /\ k >= front})
           /\ pairCount > 0 => {queue[front].priorStrong, queue[front].opening}
                                  \subseteq Chain \cup {None}

(* ResolveImplicitLevels asserts that no neutral type is left.             *)
NoNeutralLeft ==
  phase = "implicit" /\ link # 0 => types[link] \in {"L", "R", "EN", "AN"}

(* Every character of the sequence gets the level of rules W1 to I2, and   *)
(* no link of another sequence is touched or lost from the chain that      *)
(* SaveLevels walks.                                                       *)
LevelsSaved ==
  LET implicit == ImplicitLevels
      chain    == Chain
  IN  \A i \in VisibleIn(Text) :
        levels[Max({l \in chain : l <= i})] =
          IF IsCharacter(Text[i]) THEN implicit[Rank(i)] ELSE OtherLevel

LevelsAreRuled == phase = "resolved" => LosesContext \/ LevelsSaved

(* The comment of ResolveAvailableBracketPairs, that it minds the brackets *)
(* resolved in between, holds also where no strong character comes first.  *)
BracketsSeeContext == phase = "resolved" => LevelsSaved
=============================================================================
