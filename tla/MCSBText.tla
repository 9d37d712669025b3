------------------------------ MODULE MCSBText ------------------------------
(***************************************************************************)
(* Constants for model checking SBText: buffers of whole code points, and  *)
(* of the second half of one alone.  Their positions are not constrained,  *)
(* so edits may separate CR from LF or "lead" from "trail".                *)
(***************************************************************************)
EXTENDS SBText

MCChunks ==
  {<<>>, <<"letter">>, <<"CR">>, <<"LF">>, <<"lead", "trail">>, <<"letter", "LF">>,
   <<"trail">>}
=============================================================================
