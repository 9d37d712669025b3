-------------------------- MODULE MCParagraphLevels --------------------------
(***************************************************************************)
(* Constants for model checking ParagraphLevels: every short paragraph over*)
(* all of the types, and longer ones over the types that nest.             *)
(***************************************************************************)
EXTENDS ParagraphLevels

CONSTANTS Length, NestingLength

TextsOver(which, length) == UNION {[1..n -> which] : n \in 1..length}

MCTexts ==
  TextsOver(BidiTypes \ {"B"}, Length)
    \cup {Append(txt, "B") : txt \in TextsOver(BidiTypes \ {"B"}, Length - 1)}
    \cup TextsOver({"L", "LRE", "RLO", "RLI", "PDI", "PDF"}, NestingLength)
=============================================================================
