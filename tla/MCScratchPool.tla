---------------------------- MODULE MCScratchPool ----------------------------
(***************************************************************************)
(* Constants for model checking ScratchPool.                               *)
(***************************************************************************)
EXTENDS ScratchPool

CONSTANTS t1, t2, t3

TwoThreads == {t1, t2}
ThreeThreads == {t1, t2, t3}
=============================================================================
