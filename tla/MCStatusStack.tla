---------------------------- MODULE MCStatusStack ----------------------------
(***************************************************************************)
(* Constants for model checking StatusStack.                               *)
(***************************************************************************)
EXTENDS StatusStack

CONSTANTS e1, e2

MCElements == {e1, e2}

=============================================================================
