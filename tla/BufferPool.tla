----------------------------- MODULE BufferPool -----------------------------
(***************************************************************************)
(* What the scratch buffers of Source/API/SBAllocator.c promise: a buffer  *)
(* is free or in the hands of one thread.  ScratchPool implements this.    *)
(***************************************************************************)
CONSTANTS Threads, Buffers, NULL

VARIABLES
  free,     (* buffers that nobody has                                    *)
  held      (* the buffer that each thread has, or NULL                   *)

vars == <<free, held>>

(* The pool is statically allocated but empty until the first use.         *)
Init ==
  /\ free = {}
  /\ held = [t \in Threads |-> NULL]

Fill ==
  /\ free = {} /\ \A t \in Threads : held[t] = NULL
  /\ free' = Buffers
  /\ UNCHANGED held

Detach(t) ==
  /\ held[t] = NULL
  /\ \E b \in free : free' = free \ {b} /\ held' = [held EXCEPT ![t] = b]

Recycle(t) ==
  /\ held[t] # NULL
  /\ free' = free \cup {held[t]}
  /\ held' = [held EXCEPT ![t] = NULL]

Next == Fill \/ (\E t \in Threads : Detach(t) \/ Recycle(t))

Spec == Init /\ [][Next]_vars

=============================================================================
