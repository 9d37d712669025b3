---------------------------- MODULE SBScriptLocator ---------------------------
(* The runs of one script: SBScriptLocator.c with the stack of ScriptStack.c,  *)
(* and the scripts that SBText keeps for a paragraph.                          *)
(*                                                                             *)
(* The stack is a ring that holds the last ScriptStackCapacity opening         *)
(* punctuations. A locator is [sequence, stack, agent]; offsets count from 0.  *)
EXTENDS CodepointData, SequencesExt

CONSTANT ScriptStackCapacity

ASSUME ScriptStackCapacityAssumption == ScriptStackCapacity \in Nat \ {0}

-------------------------------------------------------------------------------
(* ScriptStack *)

RingAdd(number, count) == (number + count) % ScriptStackCapacity
RingSubtract(number, count) == (number + ScriptStackCapacity - count) % ScriptStackCapacity

EmptyElement == [script |-> "nil", mirror |-> NoMirror]

ScriptStackReset ==
    [elements |-> [k \in 0..(ScriptStackCapacity - 1) |-> EmptyElement],
     top |-> -1, count |-> 0, open |-> 0]

ScriptStackPush(stack, script, mirror) ==
    LET top == RingAdd(stack.top, 1)
        LimitIncrement(n) == IF n < ScriptStackCapacity THEN n + 1 ELSE n
    IN  [elements |-> [stack.elements EXCEPT ![top] = [script |-> script, mirror |-> mirror]],
         top |-> top,
         count |-> LimitIncrement(stack.count),
         open |-> LimitIncrement(stack.open)]

ScriptStackPop(stack) ==
    [stack EXCEPT !.count = @ - 1,
                  !.open = IF @ > 0 THEN @ - 1 ELSE 0,
                  !.top = IF stack.count = 1 THEN -1 ELSE RingSubtract(@, 1)]

ScriptStackLeavePairs(stack) == [stack EXCEPT !.open = 0]

SealsOnlyTop(stack, script) ==
    IF stack.open = 0 THEN stack
    ELSE [stack EXCEPT !.elements[stack.top].script = script, !.open = 0]

(* The open pairs, which are the topmost elements, get the script.             *)
ScriptStackSealPairs(stack, script) ==
    LET sealed == {RingAdd(RingSubtract(stack.top, stack.open), k) : k \in 1..stack.open}
    IN  [stack EXCEPT !.elements = [k \in DOMAIN @ |->
                            IF k \in sealed THEN [@[k] EXCEPT !.script = script] ELSE @[k]],
                      !.open = 0]

ScriptStackIsEmpty(stack) == stack.count = 0
ScriptStackTop(stack) == stack.elements[stack.top]

-------------------------------------------------------------------------------
(* SBScriptLocator *)

IsSimilarScript(lhs, rhs) ==
    IsCommonOrInherited(lhs) \/ IsCommonOrInherited(rhs) \/ lhs = rhs

(* The entries above the one that c closes are popped; all, if there is none.  *)
PopUnmatched(stack, c) ==
    LET popOne(s, k) == IF ScriptStackIsEmpty(s) \/ ScriptStackTop(s).mirror = c
                        THEN s ELSE ScriptStackPop(s)
    IN  FoldLeft(popOne, stack, [k \in 1..stack.count |-> k])

IsPaired(c, category) ==
    /\ LookupScript(c) = "common"
    /\ LookupGeneralCategory(c) = category
    /\ LookupMirror(c) # NoMirror

(* The stack with an opening punctuation, or without what a closing one skips. *)
Paired(s, c) ==
    IF IsPaired(c, "Ps") THEN ScriptStackPush(s.stack, s.result, LookupMirror(c))
    ELSE IF IsPaired(c, "Pe") THEN PopUnmatched(s.stack, c) ELSE s.stack

(* A code point of the script joins the run and makes it concrete, or ends it. *)
JoinRun(s, stack, script, isStacked) ==
    LET concretes == IsCommonOrInherited(s.result) /\ ~IsCommonOrInherited(script)
        sealed == IF concretes THEN ScriptStackSealPairs(stack, script) ELSE stack
    IN  IF ~IsSimilarScript(s.result, script)
        THEN [s EXCEPT !.stack = stack, !.over = TRUE]
        ELSE [stack |-> IF isStacked THEN ScriptStackPop(sealed) ELSE sealed,
              result |-> IF concretes THEN script ELSE s.result,
              current |-> s.current + 1,
              over |-> FALSE]

(* One code point of ResolveScriptRun; s is [stack, result, current, over].    *)
ResolvePaired(s, c, stack) ==
    LET isStacked == IsPaired(c, "Pe") /\ ~ScriptStackIsEmpty(stack)
    IN  JoinRun(s, stack, IF isStacked THEN ScriptStackTop(stack).script ELSE LookupScript(c),
                isStacked)

(* What continues a code point goes with it.                                   *)
ResolveCodepoint(s, c) ==
    IF s.over THEN s
    ELSE IF c = Trailing THEN [s EXCEPT !.current = @ + 1]
    ELSE ResolvePaired(s, c, Paired(s, c))

ResolvedRun(locator, offset, end) ==
    [locator EXCEPT !.stack = ScriptStackLeavePairs(end.stack),
                    !.agent = [offset |-> offset, length |-> end.current - offset,
                               script |-> end.result]]

ResolveScriptRun(locator, offset) ==
    ResolvedRun(locator, offset,
                FoldLeft(ResolveCodepoint,
                         [stack |-> locator.stack, result |-> "common",
                          current |-> offset, over |-> FALSE],
                         SubSeq(locator.sequence, offset + 1, Len(locator.sequence))))

SBScriptLocatorReset(locator) ==
    [locator EXCEPT !.stack = ScriptStackReset,
                    !.agent = [offset |-> 0, length |-> 0, script |-> "nil"]]

SBScriptLocatorLoadCodepoints(sequence) ==
    SBScriptLocatorReset([sequence |-> sequence, stack |-> <<>>, agent |-> <<>>])

SBScriptLocatorMoveNext(locator) ==
    LET offset == locator.agent.offset + locator.agent.length
    IN  IF offset < Len(locator.sequence)
        THEN [locator |-> ResolveScriptRun(locator, offset), found |-> TRUE]
        ELSE [locator |-> SBScriptLocatorReset(locator), found |-> FALSE]

(* The scripts of a paragraph, one per code unit.                              *)
PopulateRun(s, moved) ==
    LET agent == moved.locator.agent
        run == (agent.offset + 1)..(agent.offset + agent.length)
    IN  IF ~moved.found THEN [s EXCEPT !.over = TRUE]
        ELSE [s EXCEPT !.locator = moved.locator,
                       !.scripts = [i \in DOMAIN @ |-> IF i \in run THEN agent.script ELSE @[i]]]

PopulateParagraphScripts(sequence) ==
    FoldLeft(LAMBDA s, c : IF s.over THEN s ELSE PopulateRun(s, SBScriptLocatorMoveNext(s.locator)),
             [locator |-> SBScriptLocatorLoadCodepoints(sequence),
              scripts |-> [i \in DOMAIN sequence |-> "nil"], over |-> FALSE],
             sequence).scripts
==============================================================================
