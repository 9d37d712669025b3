-------------------------------- MODULE Once --------------------------------
(***************************************************************************)
(* OnceTryExecute of Source/Core/Once.c: threads that race to initialise   *)
(* something run its function once.  A thread that arrives while another   *)
(* one runs it does not wait: its call fails.                              *)
(*                                                                         *)
(* The plain read of once->executed races with its write.  A boolean is    *)
(* read as it was before the write or after it, so reading it at one       *)
(* instant covers the outcomes.                                            *)
(***************************************************************************)
EXTENDS Naturals

CONSTANT Threads

VARIABLES
  executed,     (* once->executed                                         *)
  flag,         (* once->flag                                             *)
  calls,        (* how many times func has completed                      *)
  at            (* where each thread is in OnceTryExecute                 *)

vars == <<executed, flag, calls, at>>

(* "failed" and "succeeded" have returned false and true.                  *)
Locations == {"outside", "unset", "running", "done", "failed", "succeeded"}

TypeOK ==
  /\ executed \in BOOLEAN
  /\ flag \in BOOLEAN
  /\ calls \in Nat
  /\ at \in [Threads -> Locations]

Init ==
  /\ executed = FALSE
  /\ flag = FALSE
  /\ calls = 0
  /\ at = [t \in Threads |-> "outside"]

Move(t, from, to) == at[t] = from /\ at' = [at EXCEPT ![t] = to]

ReadExecuted(t) ==
  /\ Move(t, "outside", IF executed THEN "succeeded" ELSE "unset")
  /\ UNCHANGED <<executed, flag, calls>>

(* AtomicFlagTestAndSet                                                    *)
TestAndSet(t) ==
  /\ Move(t, "unset", IF flag THEN "failed" ELSE "running")
  /\ flag' = TRUE
  /\ UNCHANGED <<executed, calls>>

(* The last write of func(info)                                            *)
CompleteFunc(t) ==
  /\ Move(t, "running", "done")
  /\ calls' = calls + 1
  /\ UNCHANGED <<executed, flag>>

(* ThreadFence and once->executed = SBTrue                                 *)
SetExecuted(t) ==
  /\ Move(t, "done", "succeeded")
  /\ executed' = TRUE
  /\ UNCHANGED <<flag, calls>>

(* The caller goes on with the result.                                     *)
Leave(t) ==
  /\ \E from \in {"failed", "succeeded"} : Move(t, from, "outside")
  /\ UNCHANGED <<executed, flag, calls>>

Next ==
  \E t \in Threads :
    ReadExecuted(t) \/ TestAndSet(t) \/ CompleteFunc(t) \/ SetExecuted(t) \/ Leave(t)

Spec == Init /\ [][Next]_vars

-----------------------------------------------------------------------------
(* No two threads are inside func, or between it and executed, at a time.  *)
OneRunner ==
  \A t, u \in Threads :
    at[t] \in {"running", "done"} /\ at[u] \in {"running", "done"} => t = u

(* func completes at most once in the life of the program, and whoever is  *)
(* told that the initialisation succeeded comes after it.                  *)
InitialisedOnce ==
  /\ calls <= 1
  /\ \A t \in Threads : at[t] = "succeeded" => calls = 1
=============================================================================
