---------------------------- MODULE MCTextReading -----------------------------
(* Small texts for TextReading, with the levels that the rules for paragraphs  *)
(* give them.                                                                  *)
EXTENDS TextReading

(* Two letters from left to right, of different scripts, one from right to      *)
(* left, a digit, a space, a tab, an ignored character, a mirrored sign that is *)
(* no bracket, two kinds of brackets and a paragraph separator; of two units    *)
(* each, a letter (e) and a mirrored sign (w), which x continues.               *)
MCCodepoints ==
    LET other(type, script) ==
            [type |-> type, script |-> script, category |-> "other", mirror |-> NoMirror]
        bracket(category, mirror) ==
            [type |-> "ON", script |-> "common", category |-> category, mirror |-> mirror]
    IN  [a |-> other("L", "latin"), g |-> other("L", "greek"), r |-> other("R", "hebrew"),
         d |-> other("EN", "common"), s |-> other("WS", "common"), t |-> other("S", "common"),
         z |-> other("BN", "common"), n |-> other("B", "common"),
         lt |-> [other("ON", "common") EXCEPT !.mirror = "gt"],
         e |-> other("L", "greek"), w |-> [other("ON", "common") EXCEPT !.mirror = "v"],
         x |-> other("BN", "nil"),
         o |-> bracket("Ps", "c"), c |-> bracket("Pe", "o"),
         p |-> bracket("Ps", "q"), q |-> bracket("Pe", "p")]

(* The levels of a paragraph without explicit formatting, of the types above,   *)
(* brackets only around and between letters of one direction.                   *)
LevelsOf(types, baseLevel) ==
    LET direction == IF IsOdd(baseLevel) THEN "R" ELSE "L"
        units == DOMAIN types
        strongBefore(i) == {k \in 1..(i - 1) : types[k] \in {"L", "R"}}
        number(i) == IF strongBefore(i) = {} THEN direction ELSE types[Max(strongBefore(i))]
        resolved(i) == IF types[i] = "EN" /\ number(i) = "L" THEN "L" ELSE types[i]
        strong == {i \in units : types[i] \in {"L", "R", "EN"}}
        side(i) == IF resolved(i) = "L" THEN "L" ELSE "R"
        before(i) == {k \in strong : k < i}
        after(i) == {k \in strong : k > i}
        left(i) == IF before(i) = {} THEN direction ELSE side(Max(before(i)))
        right(i) == IF after(i) = {} THEN direction ELSE side(Min(after(i)))
        typeOf(i) == IF i \in strong THEN resolved(i)
                     ELSE IF left(i) = right(i) THEN left(i) ELSE direction
        levelOf(i) == IF types[i] = "B" THEN baseLevel
                      ELSE IF IsOdd(baseLevel)
                      THEN (IF typeOf(i) = "R" THEN baseLevel ELSE baseLevel + 1)
                      ELSE IF typeOf(i) = "L" THEN baseLevel
                      ELSE IF typeOf(i) = "R" THEN baseLevel + 1 ELSE baseLevel + 2
        kept(i) == {k \in 1..i : types[k] # "BN"}
    IN  [i \in units |-> IF kept(i) = {} THEN baseLevel ELSE levelOf(Max(kept(i)))]

(* The base level is given, or that of the first strong character.              *)
Analysed(codepoints, baseLevel) ==
    LET units == DOMAIN codepoints
        starts == SelectSeq([i \in units |-> i],
                            LAMBDA i : i = 1 \/ codepoints[i - 1] = "n")
        limit(k) == IF k < Len(starts) THEN starts[k + 1] ELSE Len(codepoints) + 1
        types(k) == [i \in 1..(limit(k) - starts[k]) |->
                        MCCodepoints[codepoints[starts[k] + i - 1]].type]
        firstStrong(k) == SelectInSeq(types(k), LAMBDA type : type \in {"L", "R"})
        base(k) == IF baseLevel \in Nat THEN baseLevel
                   ELSE IF firstStrong(k) = 0 \/ types(k)[firstStrong(k)] = "L" THEN 0 ELSE 1
    IN  [units |-> codepoints,
         paragraphs |-> [k \in DOMAIN starts |->
            [index |-> starts[k] - 1, length |-> limit(k) - starts[k], baseLevel |-> base(k),
             types |-> types(k), levels |-> LevelsOf(types(k), base(k))]]]

(* All texts of three units in one paragraph, and longer ones for what takes    *)
(* more: three levels, spaces before separators, several paragraphs of either   *)
(* direction, brackets that nest, cross and are more than the stack holds.      *)
MCBidiTexts ==
    {Analysed(codepoints, base) :
        codepoints \in [1..3 -> {"a", "r", "s", "t", "z"}], base \in {-1, 1}}
MCLongTexts ==
    {Analysed(codepoints, -1) : codepoints \in
        {<<"r", "lt", "d", "lt", "a">>, <<"a", "r", "d", "r", "s">>, <<"r", "t", "s", "z", "r">>,
         <<"r", "s", "z", "t", "r">>, <<"r", "a", "lt", "r", "n">>, <<"a", "n", "r", "n", "a">>,
         <<"r", "n", "a", "r", "a">>, <<"r", "lt", "n", "lt", "d">>,
         <<"r", "w", "x", "lt", "r">>, <<"r", "w", "x", "w", "x">>}}
        \cup {Analysed(<<"a", "r", "d", "lt", "a">>, base) : base \in {1, 2, 3}}
        \cup {Analysed(<<"r", "t", "s", "z", "r">>, 0)}
MCScriptTexts ==
    {Analysed(codepoints, -1) : codepoints \in
        {<<"o", "a", "g", "c", "s">>, <<"a", "o", "g", "p", "c", "q">>,
         <<"o", "p", "o", "g", "c", "q", "c">>, <<"o", "o", "a", "p", "g", "c", "c">>,
         <<"a", "o", "g", "c", "g", "c", "a">>, <<"s", "o", "c", "g", "n", "c", "a">>,
         <<"a", "e", "x", "w", "x", "a">>,
         <<"o", "p", "a", "g", "c", "q">>, <<"a", "o", "g", "o", "a", "c", "c">>}}

MCTexts == MCBidiTexts \cup MCLongTexts \cup MCScriptTexts

(* Lengths within the text and the largest one, by which a client says "all".   *)
MCLengths(length) == 0..length \cup {SBInvalidIndex}
==============================================================================
