--------------------------- MODULE MCIsolatingRun ---------------------------
(***************************************************************************)
(* Constants for model checking IsolatingRun: short sequences over all     *)
(* units, longer ones over those of each group of rules.                   *)
(***************************************************************************)
EXTENDS IsolatingRun

CONSTANTS Length, NumberLength, BracketLength, IsolateLength

TextsOver(which, length) == UNION {[1..n -> which] : n \in 1..length}

MCTexts ==
  TextsOver(Units \ {"[", "]"}, Length)
    \cup TextsOver({"AL", "EN", "CS", "ET", "NSM"}, NumberLength)
    \cup TextsOver({"X", "L", "R", "(", ")"}, BracketLength)
    \cup TextsOver({"X", "R", "RLI", "PDI", "ET"}, IsolateLength)
    \cup {<<"R", a, b, c, d, e>> : a, b, c, d, e \in {"(", "]", "[", ")", "NSM"}}
    \cup {<<"X", "(", a, "R", b, c, d>> : a, b, c, d \in {"(", ")", "L"}}

MCInputs ==
  {input \in [text : MCTexts, level : {0, 1}, sos : {"L", "R"}, eos : {"L", "R"}] :
     IsSequence(input)}
=============================================================================
