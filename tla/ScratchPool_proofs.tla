-------------------------- MODULE ScratchPool_proofs --------------------------
(***************************************************************************)
(* What holds of the scratch memory for every number of threads and every  *)
(* size of the pool and of its buffers; and of the stack of buffers, for   *)
(* the two threads that it can serve.                                      *)
(***************************************************************************)
EXTENDS ScratchPool, FiniteSetTheorems, SequenceTheorems, TLAPS

(* Induction over numbers.                                                 *)
Numbers == INSTANCE FoldTheorems WITH Op <- LAMBDA env, st, e : st, Inv <- LAMBDA env, k, st : TRUE

BeforeScratch == {"scratchUnset", "scratchRunning", "scratchDone", "failed"}

WithBuffer == {"readNext", "popTop", "readTop", "writeNext", "pushTop"}

(* A thread passes the first Once only when it is executed, so it has no   *)
(* buffer before; and it goes on with a buffer only when it found one.     *)
Located(t) ==
  /\ pc[t] \in BeforeScratch => scratchBuffer[t] = NULL
  /\ pc[t] \notin BeforeScratch \cup {"idle"} => executed["scratch"]
  /\ scratchBuffer[t] # NULL => executed["scratch"]
  /\ pc[t] = "bump" => scratchBuffer[t] # NULL
  /\ pc[t] \in WithBuffer => buffer[t] # NULL

IInv == TypeOK /\ \A t \in Threads : Located(t)

LEMMA InitIInv == Init => IInv
<1> SUFFICES ASSUME Init PROVE IInv
  OBVIOUS
<1>1. TypeOK
  BY PoolAssumption DEF Init, TypeOK, Locations, Onces, Buffers, NULL
<1>2. ASSUME NEW t \in Threads PROVE Located(t)
  BY DEF Init, Located, BeforeScratch, WithBuffer
<1>3. QED
  BY <1>1, <1>2 DEF IInv

LEMMA StepIInv ==
  ASSUME IInv, NEW t \in Threads, Step(t) \/ (\E reset \in BOOLEAN : Call(t, reset))
  PROVE  IInv'
<1> USE PoolAssumption DEF IInv, TypeOK, Located, Locations, Onces, Buffers, NULL,
        BeforeScratch, WithBuffer, Go, onceVars, poolVars
<1>1. ASSUME NEW reset \in BOOLEAN, Call(t, reset) PROVE IInv'
  BY <1>1 DEF Call, ReadExecuted
<1>2. CASE TryLazyInitializeScratchBuffer(t)
  <2>1. CASE TestAndSet(t, "scratch", "scratchUnset", "scratchRunning", "failed")
    BY <2>1 DEF TestAndSet
  <2>2. CASE InitializeScratchBuffer(t)
    <3>11. TypeOK'
      BY <2>2, SMTT(40) DEF InitializeScratchBuffer
    <3>12. ASSUME NEW u \in Threads PROVE Located(u)'
      BY <2>2 DEF InitializeScratchBuffer
    <3>13. QED
      BY <3>11, <3>12
  <2>3. CASE SetExecuted(t, "scratch", "scratchDone", "getBuffer")
    BY <2>3 DEF SetExecuted
  <2>4. QED
    BY <1>2, <2>1, <2>2, <2>3 DEF TryLazyInitializeScratchBuffer
<1>3. CASE TryLazyInitializeBufferStack(t)
  <2>1. CASE TestAndSet(t, "stack", "stackUnset", "stackRunning", "stackFailed")
    BY <2>1 DEF TestAndSet
  <2>2. CASE InitializeBufferStack(t)
    BY <2>2 DEF InitializeBufferStack
  <2>3. CASE SetExecuted(t, "stack", "stackDone", "loadTop")
    BY <2>3 DEF SetExecuted
  <2>4. QED
    BY <1>3, <2>1, <2>2, <2>3 DEF TryLazyInitializeBufferStack
<1>4. CASE LoadTop(t)
  <2>11. TypeOK'
    BY <1>4 DEF LoadTop
  <2>12. ASSUME NEW u \in Threads PROVE Located(u)'
    BY <1>4 DEF LoadTop
  <2>13. QED
    BY <2>11, <2>12
<1>5. CASE ReadNext(t)
  BY <1>5 DEF ReadNext
<1>6. CASE PopTop(t)
  <2>1. CASE bufferStack = buffer[t]
    <3>1. TypeOK'
      BY <1>6, <2>1, ZenonT(60) DEF PopTop
    <3>2. ASSUME NEW u \in Threads PROVE Located(u)'
      BY <1>6, <2>1 DEF PopTop
    <3>3. QED
      BY <3>1, <3>2
  <2>2. CASE bufferStack # buffer[t]
    <3>11. TypeOK'
      BY <1>6, <2>2, ZenonT(60) DEF PopTop
    <3>12. ASSUME NEW u \in Threads PROVE Located(u)'
      BY <1>6, <2>2, ZenonT(60) DEF PopTop
    <3>13. QED
      BY <3>11, <3>12
  <2>3. QED
    BY <2>1, <2>2
<1>7. CASE ReadTop(t)
  BY <1>7 DEF ReadTop
<1>8. CASE WriteNext(t)
  BY <1>8 DEF WriteNext
<1>9. CASE PushTop(t)
  <2>1. CASE bufferStack = link[t]
    <3>11. TypeOK'
      BY <1>9, <2>1, ZenonT(60) DEF PushTop
    <3>12. ASSUME NEW u \in Threads PROVE Located(u)'
      BY <1>9, <2>1 DEF PushTop
    <3>13. QED
      BY <3>11, <3>12
  <2>2. CASE bufferStack # link[t]
    <3>11. TypeOK'
      BY <1>9, <2>2, ZenonT(60) DEF PushTop
    <3>12. ASSUME NEW u \in Threads PROVE Located(u)'
      BY <1>9, <2>2, SMTT(40) DEF PushTop
    <3>13. QED
      BY <3>11, <3>12
  <2>3. QED
    BY <2>1, <2>2
<1>10. CASE UseOwnBuffer(t)
  BY <1>10, ZenonT(60) DEF UseOwnBuffer
<1>11. CASE EnterDetachBuffer(t)
  BY <1>11 DEF EnterDetachBuffer, ReadExecuted
<1>12. ASSUME NEW alignedSize \in 1..BufferSize, Bump(t, alignedSize) PROVE IInv'
  <2> DEFINE b == scratchBuffer[t]
  <2>1. b \in Buffers
    BY <1>12 DEF Bump
  <2>2. CASE offset[b] + alignedSize <= BufferSize
    <3>1. offset' = [offset EXCEPT ![b] = offset[b] + alignedSize]
      BY <1>12, <2>2 DEF Bump
    <3>2. offset[b] + alignedSize \in 0..BufferSize
      BY <2>1, <2>2
    <3>3. offset' \in [Buffers -> 0..BufferSize]
      BY <3>1, <3>2
    <3>4. QED
      BY <1>12, <3>3 DEF Bump
  <2>3. CASE ~(offset[b] + alignedSize <= BufferSize)
    <3>1. offset' = offset
      BY <1>12, <2>3 DEF Bump
    <3>2. QED
      BY <1>12, <3>1 DEF Bump
  <2>4. QED
    BY <2>2, <2>3
<1>13. CASE NothingToReset(t)
  BY <1>13 DEF NothingToReset
<1>14. CASE GiveUpBuffer(t)
  <2>11. TypeOK'
    BY <1>14, SMTT(40) DEF GiveUpBuffer
  <2>12. ASSUME NEW u \in Threads PROVE Located(u)'
    BY <1>14 DEF GiveUpBuffer
  <2>13. QED
    BY <2>11, <2>12
<1>15. CASE ReturnNull(t)
  <2>11. TypeOK'
    BY <1>15 DEF ReturnNull
  <2>12. ASSUME NEW u \in Threads PROVE Located(u)'
    BY <1>15 DEF ReturnNull
  <2>13. QED
    BY <2>11, <2>12
<1>16. QED
  BY <1>1, <1>2, <1>3, <1>4, <1>5, <1>6, <1>7, <1>8, <1>9, <1>10, <1>11, <1>12,
     <1>13, <1>14, <1>15
  DEF Step, DetachBuffer, RecycleBuffer

LEMMA NextIInv == IInv /\ [Next]_vars => IInv'
<1> SUFFICES ASSUME IInv, [Next]_vars PROVE IInv'
  OBVIOUS
<1>1. CASE Next
  BY <1>1, StepIInv DEF Next
<1>2. CASE UNCHANGED vars
  BY <1>2 DEF vars, IInv, TypeOK, Located
<1>3. QED
  BY <1>1, <1>2

LEMMA SpecIInv == Spec => []IInv
  BY InitIInv, NextIInv, PTL DEF Spec

(* The allocator never uses a NULL buffer, and its offsets stay within the *)
(* buffer, even when threads trip over each other in DetachBuffer.         *)
THEOREM SpecTypeOK == Spec => []TypeOK
<1>1. IInv => TypeOK
  BY DEF IInv
<1>2. QED
  BY <1>1, SpecIInv, PTL

(* A reset by a thread that has a buffer is never refused.                 *)
THEOREM SpecHolderIsServed == Spec => []HolderIsServed
<1>1. IInv => HolderIsServed
  BY DEF IInv, Located, HolderIsServed, BeforeScratch
<1>2. QED
  BY <1>1, SpecIInv, PTL

-----------------------------------------------------------------------------
(* Both lazy initialisations follow Once.                                  *)

LEMMA OnceLocations ==
  ASSUME TypeOK, NEW t \in Threads, NEW from, NEW to, Go(t, from, to)
  PROVE  /\ [u \in Threads |-> AtScratchOnce(pc'[u])] =
              [[u \in Threads |-> AtScratchOnce(pc[u])] EXCEPT ![t] = AtScratchOnce(to)]
         /\ [u \in Threads |-> AtStackOnce(pc'[u])] =
              [[u \in Threads |-> AtStackOnce(pc[u])] EXCEPT ![t] = AtStackOnce(to)]
<1>1. \A u \in Threads : pc'[u] = IF u = t THEN to ELSE pc[u]
  BY DEF Go, TypeOK
<1>2. QED
  BY <1>1

LEMMA OnceInit == Init => ScratchOnce!Init /\ StackOnce!Init
<1> SUFFICES ASSUME Init PROVE ScratchOnce!Init /\ StackOnce!Init
  OBVIOUS
<1>1. \A t \in Threads : AtScratchOnce(pc[t]) = "outside" /\ AtStackOnce(pc[t]) = "outside"
  BY DEF Init, AtScratchOnce, AtStackOnce
<1>2. QED
  BY <1>1 DEF Init, Onces, ScratchOnce!Init, StackOnce!Init

(* A step of a thread that does not touch the scratch Once.               *)
LEMMA ScratchQuiet ==
  ASSUME TypeOK, NEW t \in Threads, NEW from, NEW to, Go(t, from, to),
         UNCHANGED <<executed["scratch"], flag["scratch"], calls["scratch"]>>,
         AtScratchOnce(from) = AtScratchOnce(to)
  PROVE  UNCHANGED ScratchOnce!vars
<1> DEFINE at == [u \in Threads |-> AtScratchOnce(pc[u])]
<1>1. at' = [at EXCEPT ![t] = AtScratchOnce(to)]
  BY OnceLocations, ZenonT(60)
<1>2. at[t] = AtScratchOnce(to)
  BY DEF Go
<1>3. at' = at
  BY <1>1, <1>2
<1>4. QED
  BY <1>3 DEF ScratchOnce!vars

LEMMA ScratchLeaves ==
  ASSUME TypeOK, NEW t \in Threads, NEW from, NEW to, Go(t, from, to),
         UNCHANGED <<executed["scratch"], flag["scratch"], calls["scratch"]>>,
         AtScratchOnce(from) \in {"failed", "succeeded"}, AtScratchOnce(to) = "outside"
  PROVE  ScratchOnce!Leave(t)
<1> DEFINE at == [u \in Threads |-> AtScratchOnce(pc[u])]
<1>1. at' = [at EXCEPT ![t] = AtScratchOnce(to)]
  BY OnceLocations
<1>2. at[t] = AtScratchOnce(from)
  BY DEF Go
<1>3. at' = [at EXCEPT ![t] = "outside"]
  BY <1>1
<1>4. QED
  BY <1>2, <1>3 DEF ScratchOnce!Leave, ScratchOnce!Move


(* A step of a thread that does not touch the stack Once.                 *)
LEMMA StackQuiet ==
  ASSUME TypeOK, NEW t \in Threads, NEW from, NEW to, Go(t, from, to),
         UNCHANGED <<executed["stack"], flag["stack"], calls["stack"]>>,
         AtStackOnce(from) = AtStackOnce(to)
  PROVE  UNCHANGED StackOnce!vars
<1> DEFINE at == [u \in Threads |-> AtStackOnce(pc[u])]
<1>1. at' = [at EXCEPT ![t] = AtStackOnce(to)]
  BY OnceLocations, ZenonT(60)
<1>2. at[t] = AtStackOnce(to)
  BY DEF Go
<1>3. at' = at
  BY <1>1, <1>2
<1>4. QED
  BY <1>3 DEF StackOnce!vars

LEMMA StackLeaves ==
  ASSUME TypeOK, NEW t \in Threads, NEW from, NEW to, Go(t, from, to),
         UNCHANGED <<executed["stack"], flag["stack"], calls["stack"]>>,
         AtStackOnce(from) \in {"failed", "succeeded"}, AtStackOnce(to) = "outside"
  PROVE  StackOnce!Leave(t)
<1> DEFINE at == [u \in Threads |-> AtStackOnce(pc[u])]
<1>1. at' = [at EXCEPT ![t] = AtStackOnce(to)]
  BY OnceLocations
<1>2. at[t] = AtStackOnce(from)
  BY DEF Go
<1>3. at' = [at EXCEPT ![t] = "outside"]
  BY <1>1
<1>4. QED
  BY <1>2, <1>3 DEF StackOnce!Leave, StackOnce!Move

(* A step outside both OnceTryExecute calls leaves a Once or does nothing.  *)
LEMMA OutsideOnce ==
  ASSUME TypeOK, NEW t \in Threads, NEW from, NEW to, Go(t, from, to), UNCHANGED onceVars,
         \/ AtScratchOnce(from) = "succeeded" /\ AtScratchOnce(to) \in {"outside", "succeeded"}
         \/ AtScratchOnce(from) = "failed" /\ AtScratchOnce(to) = "outside",
         \/ AtStackOnce(from) = AtStackOnce(to)
         \/ AtStackOnce(from) \in {"failed", "succeeded"} /\ AtStackOnce(to) = "outside"
  PROVE  [ScratchOnce!Next]_(ScratchOnce!vars) /\ [StackOnce!Next]_(StackOnce!vars)
<1>0. /\ UNCHANGED <<executed["scratch"], flag["scratch"], calls["scratch"]>>
      /\ UNCHANGED <<executed["stack"], flag["stack"], calls["stack"]>>
  BY DEF onceVars
<1>1. [ScratchOnce!Next]_(ScratchOnce!vars)
  <2>1. CASE AtScratchOnce(from) = AtScratchOnce(to)
    BY <1>0, <2>1, ScratchQuiet
  <2>2. CASE AtScratchOnce(to) = "outside"
    BY <1>0, <2>2, ScratchLeaves DEF ScratchOnce!Next
  <2>3. QED
    BY <2>1, <2>2
<1>2. [StackOnce!Next]_(StackOnce!vars)
  <2>1. CASE AtStackOnce(from) = AtStackOnce(to)
    BY <1>0, <2>1, StackQuiet
  <2>2. CASE AtStackOnce(from) # AtStackOnce(to)
    BY <1>0, <2>2, StackLeaves DEF StackOnce!Next
  <2>3. QED
    BY <2>1, <2>2
<1>3. QED
  BY <1>1, <1>2

LEMMA ScratchMoves ==
  ASSUME TypeOK, NEW t \in Threads, NEW from, NEW to, Go(t, from, to)
  PROVE  ScratchOnce!Move(t, AtScratchOnce(from), AtScratchOnce(to))
<1> DEFINE at == [u \in Threads |-> AtScratchOnce(pc[u])]
<1>1. at' = [at EXCEPT ![t] = AtScratchOnce(to)]
  BY OnceLocations
<1>2. at[t] = AtScratchOnce(from)
  BY DEF Go
<1>3. QED
  BY <1>1, <1>2 DEF ScratchOnce!Move

LEMMA StackMoves ==
  ASSUME TypeOK, NEW t \in Threads, NEW from, NEW to, Go(t, from, to)
  PROVE  StackOnce!Move(t, AtStackOnce(from), AtStackOnce(to))
<1> DEFINE at == [u \in Threads |-> AtStackOnce(pc[u])]
<1>1. at' = [at EXCEPT ![t] = AtStackOnce(to)]
  BY OnceLocations
<1>2. at[t] = AtStackOnce(from)
  BY DEF Go
<1>3. QED
  BY <1>1, <1>2 DEF StackOnce!Move

LEMMA OnceSteps ==
  ASSUME TypeOK, NEW t \in Threads, Step(t) \/ (\E reset \in BOOLEAN : Call(t, reset))
  PROVE  [ScratchOnce!Next]_(ScratchOnce!vars) /\ [StackOnce!Next]_(StackOnce!vars)
<1> DEFINE Goal == [ScratchOnce!Next]_(ScratchOnce!vars) /\ [StackOnce!Next]_(StackOnce!vars)
<1> SUFFICES Goal
  OBVIOUS
<1> USE DEF AtScratchOnce, AtStackOnce
<1>b. "scratch" \in Onces /\ "stack" \in Onces /\ "scratch" # "stack"
  BY DEF Onces
<1>c. /\ executed \in [Onces -> BOOLEAN] /\ flag \in [Onces -> BOOLEAN]
      /\ calls \in [Onces -> Nat]
  BY DEF TypeOK
<1>1. CASE \E reset \in BOOLEAN : Call(t, reset)
  <2>1. ScratchOnce!ReadExecuted(t)
    <3>1. CASE executed["scratch"]
      <4>1. Go(t, "idle", "getBuffer")
        BY <3>1, <1>1 DEF Call, ReadExecuted
      <4>2. ScratchOnce!Move(t, "outside", "succeeded")
        BY <4>1, ScratchMoves
      <4>3. QED
        BY <3>1, <4>2, <1>b, <1>c, <1>1 DEF Call, ReadExecuted, ScratchOnce!ReadExecuted, ScratchOnce!Move, onceVars
    <3>2. CASE ~executed["scratch"]
      <4>1. Go(t, "idle", "scratchUnset")
        BY <3>2, <1>1 DEF Call, ReadExecuted
      <4>2. ScratchOnce!Move(t, "outside", "unset")
        BY <4>1, ScratchMoves
      <4>3. QED
        BY <3>2, <4>2, <1>b, <1>c, <1>1 DEF Call, ReadExecuted, ScratchOnce!ReadExecuted, ScratchOnce!Move, onceVars
    <3>3. QED
      BY <3>1, <3>2
  <2>2. UNCHANGED StackOnce!vars
    BY <1>b, <1>1, StackQuiet DEF Call, ReadExecuted, TypeOK, onceVars
  <2>3. QED
    BY <2>1, <2>2 DEF ScratchOnce!Next
<1>2. CASE TestAndSet(t, "scratch", "scratchUnset", "scratchRunning", "failed")
  <2>1. ScratchOnce!TestAndSet(t)
    <3>1. CASE flag["scratch"]
      <4>1. Go(t, "scratchUnset", "failed")
        BY <3>1, <1>2 DEF TestAndSet
      <4>2. ScratchOnce!Move(t, "unset", "failed")
        BY <4>1, ScratchMoves
      <4>3. QED
        BY <3>1, <4>2, <1>b, <1>c, <1>2 DEF TestAndSet, ScratchOnce!TestAndSet, ScratchOnce!Move, onceVars
    <3>2. CASE ~flag["scratch"]
      <4>1. Go(t, "scratchUnset", "scratchRunning")
        BY <3>2, <1>2 DEF TestAndSet
      <4>2. ScratchOnce!Move(t, "unset", "running")
        BY <4>1, ScratchMoves
      <4>3. QED
        BY <3>2, <4>2, <1>b, <1>c, <1>2 DEF TestAndSet, ScratchOnce!TestAndSet, ScratchOnce!Move, onceVars
    <3>3. QED
      BY <3>1, <3>2
  <2>2. UNCHANGED StackOnce!vars
    BY <1>b, <1>2, StackQuiet DEF TestAndSet, TypeOK, onceVars
  <2>3. QED
    BY <2>1, <2>2 DEF ScratchOnce!Next
<1>3. CASE InitializeScratchBuffer(t)
  <2>1. ScratchOnce!CompleteFunc(t)
    <3>1. Go(t, "scratchRunning", "scratchDone")
      BY <1>3 DEF InitializeScratchBuffer
    <3>2. ScratchOnce!Move(t, "running", "done")
      BY <3>1, ScratchMoves
    <3>3. QED
      BY <3>2, <1>b, <1>3 DEF InitializeScratchBuffer, ScratchOnce!CompleteFunc, TypeOK, onceVars
  <2>2. UNCHANGED StackOnce!vars
    BY <1>b, <1>3, StackQuiet DEF InitializeScratchBuffer, TypeOK, onceVars
  <2>3. QED
    BY <2>1, <2>2 DEF ScratchOnce!Next
<1>4. CASE SetExecuted(t, "scratch", "scratchDone", "getBuffer")
  <2>1. ScratchOnce!SetExecuted(t)
    <3>1. Go(t, "scratchDone", "getBuffer")
      BY <1>4 DEF SetExecuted
    <3>2. ScratchOnce!Move(t, "done", "succeeded")
      BY <3>1, ScratchMoves
    <3>3. QED
      BY <3>2, <1>b, <1>4 DEF SetExecuted, ScratchOnce!SetExecuted, TypeOK, onceVars
  <2>2. UNCHANGED StackOnce!vars
    BY <1>b, <1>4, StackQuiet DEF SetExecuted, TypeOK, onceVars
  <2>3. QED
    BY <2>1, <2>2 DEF ScratchOnce!Next
<1>5. CASE EnterDetachBuffer(t)
  <2>1. StackOnce!ReadExecuted(t)
    <3>1. CASE executed["stack"]
      <4>1. Go(t, "getBuffer", "loadTop")
        BY <3>1, <1>5 DEF EnterDetachBuffer, ReadExecuted
      <4>2. StackOnce!Move(t, "outside", "succeeded")
        BY <4>1, StackMoves
      <4>3. QED
        BY <3>1, <4>2, <1>b, <1>c, <1>5 DEF EnterDetachBuffer, ReadExecuted, StackOnce!ReadExecuted, StackOnce!Move, onceVars
    <3>2. CASE ~executed["stack"]
      <4>1. Go(t, "getBuffer", "stackUnset")
        BY <3>2, <1>5 DEF EnterDetachBuffer, ReadExecuted
      <4>2. StackOnce!Move(t, "outside", "unset")
        BY <4>1, StackMoves
      <4>3. QED
        BY <3>2, <4>2, <1>b, <1>c, <1>5 DEF EnterDetachBuffer, ReadExecuted, StackOnce!ReadExecuted, StackOnce!Move, onceVars
    <3>3. QED
      BY <3>1, <3>2
  <2>2. UNCHANGED ScratchOnce!vars
    BY <1>b, <1>5, ScratchQuiet DEF EnterDetachBuffer, ReadExecuted, TypeOK, onceVars
  <2>3. QED
    BY <2>1, <2>2 DEF StackOnce!Next
<1>6. CASE TestAndSet(t, "stack", "stackUnset", "stackRunning", "stackFailed")
  <2>1. StackOnce!TestAndSet(t)
    <3>1. CASE flag["stack"]
      <4>1. Go(t, "stackUnset", "stackFailed")
        BY <3>1, <1>6 DEF TestAndSet
      <4>2. StackOnce!Move(t, "unset", "failed")
        BY <4>1, StackMoves
      <4>3. QED
        BY <3>1, <4>2, <1>b, <1>c, <1>6 DEF TestAndSet, StackOnce!TestAndSet, StackOnce!Move, onceVars
    <3>2. CASE ~flag["stack"]
      <4>1. Go(t, "stackUnset", "stackRunning")
        BY <3>2, <1>6 DEF TestAndSet
      <4>2. StackOnce!Move(t, "unset", "running")
        BY <4>1, StackMoves
      <4>3. QED
        BY <3>2, <4>2, <1>b, <1>c, <1>6 DEF TestAndSet, StackOnce!TestAndSet, StackOnce!Move, onceVars
    <3>3. QED
      BY <3>1, <3>2
  <2>2. UNCHANGED ScratchOnce!vars
    BY <1>b, <1>6, ScratchQuiet DEF TestAndSet, TypeOK, onceVars
  <2>3. QED
    BY <2>1, <2>2 DEF StackOnce!Next
<1>7. CASE InitializeBufferStack(t)
  <2>1. StackOnce!CompleteFunc(t)
    <3>1. Go(t, "stackRunning", "stackDone")
      BY <1>7 DEF InitializeBufferStack
    <3>2. StackOnce!Move(t, "running", "done")
      BY <3>1, StackMoves
    <3>3. QED
      BY <3>2, <1>b, <1>7 DEF InitializeBufferStack, StackOnce!CompleteFunc, TypeOK, onceVars
  <2>2. UNCHANGED ScratchOnce!vars
    BY <1>b, <1>7, ScratchQuiet DEF InitializeBufferStack, TypeOK, onceVars
  <2>3. QED
    BY <2>1, <2>2 DEF StackOnce!Next
<1>8. CASE SetExecuted(t, "stack", "stackDone", "loadTop")
  <2>1. StackOnce!SetExecuted(t)
    <3>1. Go(t, "stackDone", "loadTop")
      BY <1>8 DEF SetExecuted
    <3>2. StackOnce!Move(t, "done", "succeeded")
      BY <3>1, StackMoves
    <3>3. QED
      BY <3>2, <1>b, <1>8 DEF SetExecuted, StackOnce!SetExecuted, TypeOK, onceVars
  <2>2. UNCHANGED ScratchOnce!vars
    BY <1>b, <1>8, ScratchQuiet DEF SetExecuted, TypeOK, onceVars
  <2>3. QED
    BY <2>1, <2>2 DEF StackOnce!Next
<1>9. CASE LoadTop(t)
  BY <1>9, OutsideOnce DEF LoadTop, poolVars, onceVars
<1>10. CASE ReadNext(t)
  BY <1>10, OutsideOnce DEF ReadNext, poolVars, onceVars
<1>11. CASE PopTop(t)
  BY <1>11, OutsideOnce DEF PopTop, poolVars, onceVars
<1>12. CASE ReadTop(t)
  BY <1>12, OutsideOnce DEF ReadTop, poolVars, onceVars
<1>13. CASE WriteNext(t)
  BY <1>13, OutsideOnce DEF WriteNext, poolVars, onceVars
<1>14. CASE PushTop(t)
  BY <1>14, OutsideOnce DEF PushTop, poolVars, onceVars
<1>15. CASE UseOwnBuffer(t)
  BY <1>15, OutsideOnce DEF UseOwnBuffer, poolVars, onceVars
<1>16. CASE NothingToReset(t)
  BY <1>16, OutsideOnce DEF NothingToReset, poolVars, onceVars
<1>17. CASE GiveUpBuffer(t)
  BY <1>17, OutsideOnce DEF GiveUpBuffer, poolVars, onceVars
<1>18. CASE ReturnNull(t)
  BY <1>18, OutsideOnce DEF ReturnNull, poolVars, onceVars
<1>19. ASSUME NEW alignedSize \in 1..BufferSize, Bump(t, alignedSize) PROVE Goal
  BY <1>19, OutsideOnce DEF Bump, onceVars
<1>20. QED
  BY <1>1, <1>2, <1>3, <1>4, <1>5, <1>6, <1>7, <1>8, <1>9, <1>10, <1>11, <1>12, <1>13,
     <1>14, <1>15, <1>16, <1>17, <1>18, <1>19
  DEF Step, TryLazyInitializeScratchBuffer, TryLazyInitializeBufferStack, DetachBuffer,
      RecycleBuffer

(* For any number of threads, both initialisations of the allocator follow *)
(* the protocol of Once.                                                   *)
THEOREM SpecImplementsOnce == Spec => ImplementsOnce
<1>1. TypeOK /\ [Next]_vars =>
        [ScratchOnce!Next]_(ScratchOnce!vars) /\ [StackOnce!Next]_(StackOnce!vars)
  <2> SUFFICES ASSUME TypeOK, [Next]_vars
               PROVE  [ScratchOnce!Next]_(ScratchOnce!vars) /\ [StackOnce!Next]_(StackOnce!vars)
    OBVIOUS
  <2>1. CASE Next
    BY <2>1, OnceSteps DEF Next
  <2>2. CASE UNCHANGED vars
    BY <2>2 DEF vars, ScratchOnce!vars, StackOnce!vars
  <2>3. QED
    BY <2>1, <2>2
<1>2. QED
  BY OnceInit, SpecTypeOK, <1>1, PTL DEF Spec, ImplementsOnce, ScratchOnce!Spec, StackOnce!Spec

(* Why Once works, for the values of its variables: the flag is set exactly *)
(* when some thread has won it, the winner is the one runner while executed *)
(* is unset, and calls tells how far the winner has got.                   *)
Winner(done, won, count, at) ==
  /\ done \in BOOLEAN /\ won \in BOOLEAN /\ count \in 0..1
  /\ \A t \in Threads :
       /\ at[t] \in {"running", "done"} => won /\ ~done
       /\ at[t] = "running" => count = 0
       /\ at[t] = "done" => count = 1
       /\ at[t] = "succeeded" => done
  /\ \A t, u \in Threads : at[t] \in {"running", "done"} /\ at[u] \in {"running", "done"} => t = u
  /\ done => won /\ count = 1
  /\ ~won => count = 0

(* One more thread tests the flag and sets it.                              *)
LEMMA WinnerTests ==
  ASSUME NEW d, NEW w, NEW c, NEW a, DOMAIN a = Threads, Winner(d, w, c, a),
         NEW t \in Threads, a[t] = "unset",
         NEW b, b = [a EXCEPT ![t] = IF w THEN "failed" ELSE "running"]
  PROVE  Winner(d, TRUE, c, b)
<1>1. CASE w
  <2>1. b = [a EXCEPT ![t] = "failed"]
    BY <1>1
  <2>2. b[t] = "failed" /\ \A u \in Threads : u # t => b[u] = a[u]
    BY <2>1
  <2>3. QED
    BY <1>1, <2>2 DEF Winner
<1>2. CASE ~w
  <2>1. b = [a EXCEPT ![t] = "running"]
    BY <1>2
  <2>2. b[t] = "running" /\ \A u \in Threads : u # t => b[u] = a[u]
    BY <2>1
  <2>3. QED
    BY <1>2, <2>2 DEF Winner
<1>3. QED
  BY <1>1, <1>2

ScratchAt == [t \in Threads |-> AtScratchOnce(pc[t])]

ScratchWinner == Winner(executed["scratch"], flag["scratch"], calls["scratch"], ScratchAt)

(* The scratch Once starts with no winner.                                    *)
LEMMA ScratchWinnerInit == ScratchOnce!Init => ScratchWinner
<1> SUFFICES ASSUME ScratchOnce!Init PROVE ScratchWinner
  OBVIOUS
<1>1. \A t \in Threads : ScratchAt[t] = "outside"
  BY DEF ScratchOnce!Init, ScratchAt
<1>2. executed["scratch"] = FALSE /\ flag["scratch"] = FALSE /\ calls["scratch"] = 0
  BY DEF ScratchOnce!Init
<1>3. QED
  <2>a. executed["scratch"] \in BOOLEAN /\ flag["scratch"] \in BOOLEAN
    BY <1>2, Zenon
  <2>b. calls["scratch"] = 0
    BY <1>2, Zenon
  <2>1. executed["scratch"] \in BOOLEAN /\ flag["scratch"] \in BOOLEAN /\ calls["scratch"] \in 0..1
    BY <2>a, <2>b
  <2>2. \A t \in Threads :
          /\ ScratchAt[t] \notin {"running", "done"} /\ ScratchAt[t] # "running" /\ ScratchAt[t] # "done"
          /\ ScratchAt[t] # "succeeded"
    BY <1>1
  <2>3. ~executed["scratch"]
    BY <1>2, Zenon
  <2>4. QED
    BY <2>b, <2>1, <2>2, <2>3 DEF ScratchWinner, Winner

(* Every step of the scratch Once keeps to its winner.                        *)
LEMMA ScratchWinnerNext == ScratchWinner /\ [ScratchOnce!Next]_(ScratchOnce!vars) => ScratchWinner'
<1> SUFFICES ASSUME ScratchWinner, [ScratchOnce!Next]_(ScratchOnce!vars) PROVE ScratchWinner'
  OBVIOUS
<1>a. /\ [t \in Threads |-> AtScratchOnce(pc[t])] = ScratchAt
      /\ [t \in Threads |-> AtScratchOnce(pc'[t])] = ScratchAt'
      /\ DOMAIN ScratchAt = Threads
  BY DEF ScratchAt
<1> USE <1>a DEF ScratchWinner, Winner, ScratchOnce!Move
<1> HIDE DEF ScratchAt
<1>1. ASSUME NEW t \in Threads, ScratchOnce!ReadExecuted(t) PROVE ScratchWinner'
  BY <1>1 DEF ScratchOnce!ReadExecuted
<1>2. ASSUME NEW t \in Threads, ScratchOnce!TestAndSet(t) PROVE ScratchWinner'
  <2>1. /\ ScratchAt[t] = "unset"
        /\ ScratchAt' = [ScratchAt EXCEPT ![t] = IF flag["scratch"] THEN "failed" ELSE "running"]
    BY <1>2 DEF ScratchOnce!TestAndSet
  <2>2. flag["scratch"]' = TRUE /\ executed["scratch"]' = executed["scratch"] /\ calls["scratch"]' = calls["scratch"]
    BY <1>2 DEF ScratchOnce!TestAndSet
  <2>3. Winner(executed["scratch"], flag["scratch"], calls["scratch"], ScratchAt) /\ DOMAIN ScratchAt = Threads
    BY DEF ScratchWinner
  <2> HIDE DEF ScratchWinner, Winner
  <2>4. PICK d, w, c, a, b : /\ d = executed["scratch"] /\ w = flag["scratch"] /\ c = calls["scratch"]
                             /\ a = ScratchAt /\ b = ScratchAt'
    BY Zenon
  <2>5. Winner(d, w, c, a)
    BY <2>3, <2>4, Zenon
  <2>6. DOMAIN a = Threads /\ a[t] = "unset"
    BY <2>1, <2>3, <2>4, Zenon
  <2>7. b = [a EXCEPT ![t] = IF w THEN "failed" ELSE "running"]
    BY <2>1, <2>4, Zenon
  <2>8. Winner(d, TRUE, c, b)
    BY <2>5, <2>6, <2>7, WinnerTests
  <2>9. QED
    BY <2>2, <2>4, <2>8, Zenon DEF ScratchWinner
<1>3. ASSUME NEW t \in Threads, ScratchOnce!CompleteFunc(t) PROVE ScratchWinner'
  BY <1>3 DEF ScratchOnce!CompleteFunc
<1>4. ASSUME NEW t \in Threads, ScratchOnce!SetExecuted(t) PROVE ScratchWinner'
  BY <1>4, ZenonT(60) DEF ScratchOnce!SetExecuted
<1>5. ASSUME NEW t \in Threads, ScratchOnce!Leave(t) PROVE ScratchWinner'
  BY <1>5 DEF ScratchOnce!Leave
<1>6. CASE UNCHANGED ScratchOnce!vars
  BY <1>6 DEF ScratchOnce!vars
<1>7. QED
  BY <1>1, <1>2, <1>3, <1>4, <1>5, <1>6 DEF ScratchOnce!Next

(* The winner of the scratch Once, in every state of the allocator.           *)
LEMMA SpecScratchWinner == Spec => []ScratchWinner
  BY SpecImplementsOnce, ScratchWinnerInit, ScratchWinnerNext, PTL DEF ImplementsOnce, ScratchOnce!Spec

StackAt == [t \in Threads |-> AtStackOnce(pc[t])]

StackWinner == Winner(executed["stack"], flag["stack"], calls["stack"], StackAt)

(* The stack Once starts with no winner.                                    *)
LEMMA StackWinnerInit == StackOnce!Init => StackWinner
<1> SUFFICES ASSUME StackOnce!Init PROVE StackWinner
  OBVIOUS
<1>1. \A t \in Threads : StackAt[t] = "outside"
  BY DEF StackOnce!Init, StackAt
<1>2. executed["stack"] = FALSE /\ flag["stack"] = FALSE /\ calls["stack"] = 0
  BY DEF StackOnce!Init
<1>3. QED
  <2>a. executed["stack"] \in BOOLEAN /\ flag["stack"] \in BOOLEAN
    BY <1>2, Zenon
  <2>b. calls["stack"] = 0
    BY <1>2, Zenon
  <2>1. executed["stack"] \in BOOLEAN /\ flag["stack"] \in BOOLEAN /\ calls["stack"] \in 0..1
    BY <2>a, <2>b
  <2>2. \A t \in Threads :
          /\ StackAt[t] \notin {"running", "done"} /\ StackAt[t] # "running" /\ StackAt[t] # "done"
          /\ StackAt[t] # "succeeded"
    BY <1>1
  <2>3. ~executed["stack"]
    BY <1>2, Zenon
  <2>4. QED
    BY <2>b, <2>1, <2>2, <2>3 DEF StackWinner, Winner

(* Every step of the stack Once keeps to its winner.                        *)
LEMMA StackWinnerNext == StackWinner /\ [StackOnce!Next]_(StackOnce!vars) => StackWinner'
<1> SUFFICES ASSUME StackWinner, [StackOnce!Next]_(StackOnce!vars) PROVE StackWinner'
  OBVIOUS
<1>a. /\ [t \in Threads |-> AtStackOnce(pc[t])] = StackAt
      /\ [t \in Threads |-> AtStackOnce(pc'[t])] = StackAt'
      /\ DOMAIN StackAt = Threads
  BY DEF StackAt
<1> USE <1>a DEF StackWinner, Winner, StackOnce!Move
<1> HIDE DEF StackAt
<1>1. ASSUME NEW t \in Threads, StackOnce!ReadExecuted(t) PROVE StackWinner'
  BY <1>1 DEF StackOnce!ReadExecuted
<1>2. ASSUME NEW t \in Threads, StackOnce!TestAndSet(t) PROVE StackWinner'
  <2>1. /\ StackAt[t] = "unset"
        /\ StackAt' = [StackAt EXCEPT ![t] = IF flag["stack"] THEN "failed" ELSE "running"]
    BY <1>2 DEF StackOnce!TestAndSet
  <2>2. flag["stack"]' = TRUE /\ executed["stack"]' = executed["stack"] /\ calls["stack"]' = calls["stack"]
    BY <1>2 DEF StackOnce!TestAndSet
  <2>3. Winner(executed["stack"], flag["stack"], calls["stack"], StackAt) /\ DOMAIN StackAt = Threads
    BY DEF StackWinner
  <2> HIDE DEF StackWinner, Winner
  <2>4. PICK d, w, c, a, b : /\ d = executed["stack"] /\ w = flag["stack"] /\ c = calls["stack"]
                             /\ a = StackAt /\ b = StackAt'
    BY Zenon
  <2>5. Winner(d, w, c, a)
    BY <2>3, <2>4, Zenon
  <2>6. DOMAIN a = Threads /\ a[t] = "unset"
    BY <2>1, <2>3, <2>4, Zenon
  <2>7. b = [a EXCEPT ![t] = IF w THEN "failed" ELSE "running"]
    BY <2>1, <2>4, Zenon
  <2>8. Winner(d, TRUE, c, b)
    BY <2>5, <2>6, <2>7, WinnerTests
  <2>9. QED
    BY <2>2, <2>4, <2>8, Zenon DEF StackWinner
<1>3. ASSUME NEW t \in Threads, StackOnce!CompleteFunc(t) PROVE StackWinner'
  BY <1>3 DEF StackOnce!CompleteFunc
<1>4. ASSUME NEW t \in Threads, StackOnce!SetExecuted(t) PROVE StackWinner'
  BY <1>4, ZenonT(60) DEF StackOnce!SetExecuted
<1>5. ASSUME NEW t \in Threads, StackOnce!Leave(t) PROVE StackWinner'
  BY <1>5 DEF StackOnce!Leave
<1>6. CASE UNCHANGED StackOnce!vars
  BY <1>6 DEF StackOnce!vars
<1>7. QED
  BY <1>1, <1>2, <1>3, <1>4, <1>5, <1>6 DEF StackOnce!Next

(* The winner of the stack Once, in every state of the allocator.           *)
LEMMA SpecStackWinner == Spec => []StackWinner
  BY SpecImplementsOnce, StackWinnerInit, StackWinnerNext, PTL DEF ImplementsOnce, StackOnce!Spec

(* Any number of threads may race for either initialisation: it runs at    *)
(* most once, and a thread that is told that it succeeded finds it         *)
(* completed. A second one of the stack would free the buffers in use.     *)
THEOREM SpecInitialisedOnce == Spec => [](ScratchOnce!InitialisedOnce /\ StackOnce!InitialisedOnce)
<1>1. ScratchWinner => ScratchOnce!InitialisedOnce
  BY DEF ScratchWinner, Winner, ScratchAt, ScratchOnce!InitialisedOnce
<1>2. StackWinner => StackOnce!InitialisedOnce
  BY DEF StackWinner, Winner, StackAt, StackOnce!InitialisedOnce
<1>3. QED
  BY <1>1, <1>2, SpecScratchWinner, SpecStackWinner, PTL

(* No two threads are inside an initialisation at a time.                  *)
THEOREM SpecOneRunner == Spec => [](ScratchOnce!OneRunner /\ StackOnce!OneRunner)
<1>1. ScratchWinner => ScratchOnce!OneRunner
  BY DEF ScratchWinner, Winner, ScratchAt, ScratchOnce!OneRunner
<1>2. StackWinner => StackOnce!OneRunner
  BY DEF StackWinner, Winner, StackAt, StackOnce!OneRunner
<1>3. QED
  BY <1>1, <1>2, SpecScratchWinner, SpecStackWinner, PTL

-----------------------------------------------------------------------------
(* The stack of buffers, as two threads use it.                            *)

(* No three threads allocate.                                              *)
AtMostTwo == \A t, u, w \in Threads : t = u \/ t = w \/ u = w

Popping == {"readNext", "popTop"}

Pushing == {"readTop", "writeNext", "pushTop"}

(* Where a thread is in NativeAllocateScratch without a buffer.            *)
Detaching == {"stackUnset", "stackRunning", "stackDone", "stackFailed", "loadTop"} \cup Popping

(* Nobody has b.                                                           *)
Free(b) == calls["stack"] # 0 /\ \A t \in Threads : Held(t) # b

(* From BufferStack, the links go through s.                               *)
IsLinked(s) ==
  /\ bufferStack = IF Len(s) = 0 THEN NULL ELSE s[1]
  /\ \A i \in 1..Len(s) : next[s[i]] = IF i = Len(s) THEN NULL ELSE s[i + 1]
  /\ \A i, j \in 1..Len(s) : s[i] = s[j] => i = j

(* They reach the buffers that nobody has, once each.                      *)
LinksFree ==
  \E s \in Seq(Buffers) :
    /\ IsLinked(s)
    /\ \A b \in Buffers : (\E i \in 1..Len(s) : s[i] = b) <=> Free(b)

(* One thread fills the pool, before anybody has a buffer of it.           *)
FilledOnce ==
  /\ \A t, u \in Threads : pc[t] = "stackRunning" /\ pc[u] = "stackRunning" => t = u
  /\ calls["stack"] # 0 => flag["stack"]
  /\ executed["stack"] => calls["stack"] # 0
  /\ \A t \in Threads :
       /\ pc[t] = "stackRunning" => flag["stack"] /\ calls["stack"] = 0
       /\ pc[t] \in {"stackDone", "loadTop"} \cup Popping => calls["stack"] # 0
  /\ calls["stack"] = 0 => \A t \in Threads : Held(t) = NULL

(* A buffer is empty from the moment that its thread gives it up.          *)
EmptyBuffers ==
  /\ \A b \in Buffers : Free(b) => offset[b] = 0
  /\ \A t \in Threads : pc[t] \in Pushing => offset[buffer[t]] = 0

HeldOnce == \A t, u \in Threads : t # u /\ Held(t) # NULL => Held(t) # Held(u)

(* What a thread has read and written of the links stays true.             *)
LinksRead ==
  \A t \in Threads :
    /\ pc[t] \in Pushing \cup Detaching => scratchBuffer[t] = NULL
    /\ pc[t] \in {"popTop", "pushTop"} => link[t] = next[buffer[t]]

(* Also if the other thread has come first and has the buffer by now: the  *)
(* stack is then what that buffer links to, as nobody else changes it.     *)
Overtaken ==
  \A t, u \in Threads :
    t # u /\ pc[t] \in Popping /\ buffer[t] = Held(u) =>
      /\ next[buffer[t]] = bufferStack
      /\ pc[u] = "writeNext" => link[u] = bufferStack

StackInv == FilledOnce /\ LinksFree /\ EmptyBuffers /\ HeldOnce /\ LinksRead /\ Overtaken

(* A new pool is not filled.                                               *)
LEMMA InitStackInv == Init => StackInv
<1> SUFFICES ASSUME Init PROVE StackInv
  OBVIOUS
<1> USE DEF Init, Held, Popping, Pushing, Detaching
<1>1. \A t \in Threads : Held(t) = NULL
  OBVIOUS
<1>2. FilledOnce
  BY <1>1 DEF FilledOnce, Onces
<1>3. LinksFree
  <2>1. <<>> \in Seq(Buffers) /\ Len(<<>>) = 0
    OBVIOUS
  <2>2. calls["stack"] = 0
    BY DEF Onces
  <2>3. IsLinked(<<>>)
    BY <2>1 DEF IsLinked
  <2>4. \A b \in Buffers : ~Free(b)
    BY <2>2 DEF Free
  <2>5. PICK s \in Seq(Buffers) : Len(s) = 0 /\ IsLinked(s)
    BY <2>1, <2>3
  <2>6. ~\E i \in 1..Len(s) : TRUE
    BY <2>5
  <2>7. QED
    BY <2>4, <2>5, <2>6, Zenon DEF LinksFree
<1>4. EmptyBuffers
  BY DEF EmptyBuffers, Free
<1>5. HeldOnce
  BY <1>1 DEF HeldOnce
<1>6. LinksRead /\ Overtaken
  BY DEF LinksRead, Overtaken
<1>7. QED
  BY <1>2, <1>3, <1>4, <1>5, <1>6 DEF StackInv

(* A step that hands over no buffer leaves the links where they are.       *)
LEMMA LinksStay ==
  ASSUME LinksFree, UNCHANGED <<bufferStack, next, calls["stack"]>>,
         \A t \in Threads : Held(t)' = Held(t)
  PROVE  LinksFree'
<1>1. PICK s \in Seq(Buffers) :
        /\ IsLinked(s)
        /\ \A b \in Buffers : (\E i \in 1..Len(s) : s[i] = b) <=> Free(b)
  BY DEF LinksFree
<1>2. IsLinked(s)'
  BY <1>1 DEF IsLinked
<1>3. \A b \in Buffers : Free(b)' = Free(b)
  BY DEF Free
<1>4. QED
  BY <1>1, <1>2, <1>3 DEF LinksFree

(* Neither does one that goes on outside the initialisation.               *)
LEMMA FilledStays ==
  ASSUME TypeOK, FilledOnce, NEW t \in Threads, NEW from, NEW to, Go(t, from, to),
         UNCHANGED <<calls["stack"], flag["stack"], executed["stack"]>>,
         \A u \in Threads : Held(u)' = Held(u),
         to # "stackRunning",
         to \in {"stackDone", "loadTop"} \cup Popping => calls["stack"] # 0
  PROVE  FilledOnce'
<1>1. \A u \in Threads : pc'[u] = IF u = t THEN to ELSE pc[u]
  BY DEF TypeOK, Go
<1>2. QED
  BY <1>1 DEF FilledOnce

(* The steps that read and write nothing of the stack.                     *)
LEMMA OutsideStack ==
  ASSUME IInv, StackInv, NEW t \in Threads, NEW from, NEW to, Go(t, from, to),
         UNCHANGED <<calls["stack"], bufferStack, next, scratchBuffer, buffer, link>>,
         offset' = offset \/ \E n : offset' = [offset EXCEPT ![scratchBuffer[t]] = n],
         offset' # offset => scratchBuffer[t] # NULL /\ from \notin Pushing,
         from \in Pushing <=> to \in Pushing,
         to \notin {"writeNext", "pushTop"} \cup Popping,
         to \in Detaching => scratchBuffer[t] = NULL
  PROVE  /\ LinksFree' /\ HeldOnce' /\ EmptyBuffers' /\ LinksRead' /\ Overtaken'
         /\ \A u \in Threads : Held(u)' = Held(u)
<1> USE DEF Held, Go
<1>1. \A u \in Threads : pc'[u] = IF u = t THEN to ELSE pc[u]
  BY DEF IInv, TypeOK
<1>2. \A u \in Threads : Held(u)' = Held(u)
  BY <1>1 DEF Pushing
<1>4. LinksFree'
  BY <1>2, LinksStay DEF StackInv
<1>5. HeldOnce'
  BY <1>2 DEF StackInv, HeldOnce
<1>6. EmptyBuffers'
  <2>1. CASE offset' = offset
    BY <1>1, <1>2, <2>1 DEF StackInv, EmptyBuffers, Free
  <2>2. CASE offset' # offset
    <3>1. PICK n : offset' = [offset EXCEPT ![scratchBuffer[t]] = n]
      BY <2>2
    <3>2. scratchBuffer[t] = Held(t) /\ Held(t) # NULL
      BY <2>2 DEF Pushing
    <3>3. \A u \in Threads : pc[u] \in Pushing => u # t /\ Held(u) # Held(t) /\ Held(u) = buffer[u]
      BY <2>2, <3>2 DEF Pushing, StackInv, HeldOnce
    <3>4. offset \in [Buffers -> 0..BufferSize] /\ buffer \in [Threads -> Buffers \cup {NULL}]
          /\ \A u \in Threads : pc[u] \in Pushing => buffer[u] # NULL
      BY DEF IInv, TypeOK, Located, WithBuffer, Pushing
    <3>5. \A b \in Buffers : b # Held(t) => offset'[b] = offset[b]
      BY <3>1, <3>2, <3>4
    <3>6. \A b \in Buffers : Free(b)' => Free(b) /\ b # Held(t)
      BY <1>2 DEF Free
    <3>7. \A u \in Threads : pc'[u] \in Pushing => pc[u] \in Pushing
      BY <1>1
    <3>8. \A u \in Threads : pc'[u] \in Pushing => offset'[buffer[u]] = 0
      BY <3>3, <3>4, <3>5, <3>7 DEF StackInv, EmptyBuffers
    <3>9. QED
      BY <3>5, <3>6, <3>8 DEF StackInv, EmptyBuffers
  <2>3. QED
    BY <2>1, <2>2
<1>7. LinksRead'
  BY <1>1 DEF StackInv, LinksRead, Pushing, Popping
<1>8. Overtaken'
  BY <1>1, <1>2 DEF StackInv, Overtaken, Popping
<1>9. QED
  BY <1>2, <1>4, <1>5, <1>6, <1>7, <1>8
(* The stack of a filled pool.                                             *)
LEMMA FilledStack ==
  \E s \in Seq(Buffers) :
    /\ Len(s) = PoolSize
    /\ \A i \in 1..Len(s) : s[i] = i
<1> DEFINE s == [i \in 1..PoolSize |-> i]
<1>1. s \in Seq(Buffers) /\ Len(s) = PoolSize /\ \A i \in 1..Len(s) : s[i] = i
  BY PoolAssumption DEF Buffers
<1>2. QED
  BY <1>1

(* The pool is filled.                                                     *)
LEMMA FillsStack ==
  ASSUME IInv, StackInv, NEW t \in Threads, InitializeBufferStack(t)
  PROVE  StackInv' /\ \A u \in Threads : Held(u)' = NULL /\ Held(u) = NULL
<1> USE PoolAssumption DEF InitializeBufferStack, Go, NULL
<1>1. \A u \in Threads : pc'[u] = IF u = t THEN "stackDone" ELSE pc[u]
  BY DEF IInv, TypeOK
<1>2. calls["stack"] = 0 /\ calls'["stack"] = 1 /\ flag["stack"] /\ pc[t] = "stackRunning"
  BY DEF IInv, TypeOK, StackInv, FilledOnce, Onces
<1>3. \A u \in Threads : Held(u) = NULL /\ pc[u] \notin Popping \cup Pushing
  BY <1>2 DEF StackInv, FilledOnce, Held, IInv, Located, WithBuffer, Pushing, Popping
<1>4. \A u \in Threads : Held(u)' = NULL
  BY <1>1, <1>3 DEF Held
<1>5. FilledOnce'
  BY <1>1, <1>2, <1>4 DEF StackInv, FilledOnce, Popping
<1>6. LinksFree'
  <2>1. PICK s \in Seq(Buffers) : Len(s) = PoolSize /\ \A i \in 1..Len(s) : s[i] = i
    BY FilledStack
  <2>2. IsLinked(s)'
    BY <2>1 DEF IsLinked, Buffers
  <2>3. \A b \in Buffers : Free(b)'
    BY <1>2, <1>4 DEF Free, Buffers
  <2>4. \A b \in Buffers : \E i \in 1..Len(s) : s[i] = b
    BY <2>1 DEF Buffers
  <2>5. QED
    BY <2>2, <2>3, <2>4 DEF LinksFree
<1>7. EmptyBuffers'
  BY <1>1, <1>3 DEF EmptyBuffers, Pushing
<1>8. HeldOnce'
  BY <1>4 DEF HeldOnce
<1>9. LinksRead'
  BY <1>1, <1>2, <1>3 DEF StackInv, LinksRead, Pushing, Popping, Detaching
<1>10. Overtaken'
  BY <1>1, <1>3 DEF Overtaken, Popping
<1>11. QED
  BY <1>3, <1>4, <1>5, <1>6, <1>7, <1>8, <1>9, <1>10 DEF StackInv

(* The top is loaded: nobody has it then.                                  *)
LEMMA LoadsTop ==
  ASSUME IInv, StackInv, NEW t \in Threads, LoadTop(t)
  PROVE  StackInv' /\ \A u \in Threads : Held(u)' = Held(u)
<1> USE DEF NULL
<1>1. PICK top \in {bufferStack} \cup {NULL} :
        /\ Go(t, "loadTop", IF top = NULL THEN "idle" ELSE "readNext")
        /\ buffer' = [buffer EXCEPT ![t] = top]
        /\ UNCHANGED <<onceVars, poolVars, scratchBuffer, resetting, link>>
  BY DEF LoadTop
<1> DEFINE to == IF top = NULL THEN "idle" ELSE "readNext"
<1>2. \A u \in Threads : pc'[u] = IF u = t THEN to ELSE pc[u]
  BY <1>1 DEF IInv, TypeOK, Go
<1>3. \A u \in Threads : buffer'[u] = IF u = t THEN top ELSE buffer[u]
  BY <1>1 DEF IInv, TypeOK
<1>4. \A u \in Threads : Held(u)' = Held(u)
  BY <1>1, <1>2, <1>3 DEF Held, Go
<1>5. pc[t] = "loadTop" /\ calls["stack"] # 0 /\ scratchBuffer[t] = NULL
  BY <1>1 DEF StackInv, FilledOnce, LinksRead, Detaching, Go
<1>6. UNCHANGED <<calls["stack"], flag["stack"], executed["stack"], bufferStack, next, offset>>
  BY <1>1 DEF onceVars, poolVars
<1>7. top # NULL => \A u \in Threads : Held(u) # top
  <2>1. PICK s \in Seq(Buffers) :
          /\ IsLinked(s)
          /\ \A b \in Buffers : (\E i \in 1..Len(s) : s[i] = b) <=> Free(b)
    BY DEF StackInv, LinksFree
  <2>2. SUFFICES ASSUME top # NULL PROVE Free(top)
    BY DEF Free
  <2>3. Len(s) # 0 /\ top = s[1]
    BY <1>1, <2>1, <2>2 DEF IsLinked
  <2>4. 1 \in 1..Len(s) /\ top \in Buffers
    BY <2>3
  <2>5. QED
    BY <2>1, <2>3, <2>4
<1>8. FilledOnce'
  BY <1>1, <1>4, <1>5, <1>6, FilledStays DEF StackInv, IInv, Popping
<1>9. LinksFree'
  BY <1>4, <1>6, LinksStay DEF StackInv
<1>10. EmptyBuffers'
  BY <1>2, <1>3, <1>4, <1>6 DEF StackInv, EmptyBuffers, Free, Pushing
<1>11. HeldOnce'
  BY <1>4 DEF StackInv, HeldOnce
<1>12. LinksRead'
  BY <1>1, <1>2, <1>3, <1>5, <1>6 DEF StackInv, LinksRead, Pushing, Popping, Detaching
<1>13. Overtaken'
  BY <1>1, <1>2, <1>3, <1>4, <1>6, <1>7 DEF StackInv, Overtaken, Popping
<1>14. QED
  BY <1>4, <1>8, <1>9, <1>10, <1>11, <1>12, <1>13 DEF StackInv

(* The link below it is read.                                              *)
LEMMA ReadsNext ==
  ASSUME IInv, StackInv, NEW t \in Threads, ReadNext(t)
  PROVE  StackInv' /\ \A u \in Threads : Held(u)' = Held(u)
<1> USE DEF ReadNext
<1>1. \A u \in Threads : pc'[u] = IF u = t THEN "popTop" ELSE pc[u]
  BY DEF IInv, TypeOK, Go
<1>2. \A u \in Threads : link'[u] = IF u = t THEN next[buffer[t]] ELSE link[u]
  BY DEF IInv, TypeOK
<1>3. \A u \in Threads : Held(u)' = Held(u)
  BY <1>1 DEF Held, Go
<1>4. pc[t] = "readNext" /\ calls["stack"] # 0 /\ scratchBuffer[t] = NULL
  BY DEF StackInv, FilledOnce, LinksRead, Detaching, Popping, Go
<1>5. /\ UNCHANGED <<calls["stack"], flag["stack"], executed["stack"], bufferStack, next, offset>>
      /\ UNCHANGED <<buffer, scratchBuffer>>
  BY DEF onceVars, poolVars
<1>6. FilledOnce'
  BY <1>3, <1>4, <1>5, FilledStays DEF StackInv, IInv, Popping
<1>7. LinksFree'
  BY <1>3, <1>5, LinksStay DEF StackInv
<1>8. EmptyBuffers'
  BY <1>1, <1>3, <1>5 DEF StackInv, EmptyBuffers, Free, Pushing
<1>9. HeldOnce'
  BY <1>3 DEF StackInv, HeldOnce
<1>10. LinksRead'
  BY <1>1, <1>2, <1>4, <1>5 DEF StackInv, LinksRead, Pushing, Popping, Detaching
<1>11. Overtaken'
  BY <1>1, <1>2, <1>3, <1>4, <1>5 DEF StackInv, Overtaken, Popping
<1>12. QED
  BY <1>3, <1>6, <1>7, <1>8, <1>9, <1>10, <1>11 DEF StackInv
(* The buffers in s, without the first, which t takes.                     *)
LEMMA TakesTop ==
  ASSUME IInv, StackInv, NEW t \in Threads, NEW b \in Buffers, bufferStack = b, scratchBuffer[t] = NULL,
         pc[t] = "popTop", link[t] = next[b], bufferStack' = link[t],
         UNCHANGED <<next, calls["stack"]>>,
         \A u \in Threads : Held(u)' = IF u = t THEN b ELSE Held(u)
  PROVE  LinksFree' /\ Free(b)
<1>1. PICK s \in Seq(Buffers) :
        /\ IsLinked(s)
        /\ \A c \in Buffers : (\E i \in 1..Len(s) : s[i] = c) <=> Free(c)
  BY DEF StackInv, LinksFree
<1>2. PICK l \in Nat : l = Len(s)
  OBVIOUS
<1>3. l # 0 /\ s[1] = b
  BY <1>1, <1>2 DEF IsLinked, NULL, Buffers
<1>4. PICK r \in Seq(Buffers) : Len(r) = l - 1 /\ \A i \in 1..(l - 1) : r[i] = s[i + 1]
  <2>1. Tail(s) \in Seq(Buffers) /\ Len(Tail(s)) = l - 1 /\ \A i \in 1..(l - 1) : Tail(s)[i] = s[i + 1]
    BY <1>2, <1>3
  <2>2. QED
    BY <2>1
<1>5. IsLinked(r)'
  <2>1. bufferStack' = IF Len(r) = 0 THEN NULL ELSE r[1]
    <3>1. 1 \in 1..Len(s)
      BY <1>2, <1>3
    <3>2. next[s[1]] = IF 1 = Len(s) THEN NULL ELSE s[1 + 1]
      BY <1>1, <3>1 DEF IsLinked
    <3>3. l = 1 <=> Len(r) = 0
      BY <1>2, <1>3, <1>4
    <3>4. l # 1 => r[1] = s[1 + 1]
      BY <1>2, <1>3, <1>4
    <3>5. QED
      BY <1>2, <1>3, <3>2, <3>3, <3>4
  <2>2. ASSUME NEW i \in 1..Len(r) PROVE next'[r[i]] = IF i = Len(r) THEN NULL ELSE r[i + 1]
    <3>1. i + 1 \in 1..Len(s) /\ r[i] = s[i + 1] /\ (i = Len(r) <=> i + 1 = Len(s))
      BY <1>2, <1>4
    <3>2. i # Len(r) => r[i + 1] = s[i + 2]
      BY <1>2, <1>4
    <3>3. next[s[i + 1]] = IF i + 1 = Len(s) THEN NULL ELSE s[i + 2]
      BY <1>1, <3>1 DEF IsLinked
    <3>4. QED
      BY <3>1, <3>2, <3>3
  <2>3. ASSUME NEW i \in 1..Len(r), NEW j \in 1..Len(r), r[i] = r[j] PROVE i = j
    <3>1. i + 1 \in 1..Len(s) /\ j + 1 \in 1..Len(s) /\ s[i + 1] = s[j + 1]
      BY <1>2, <1>4, <2>3
    <3>2. i + 1 = j + 1
      BY <1>1, <3>1 DEF IsLinked
    <3>3. QED
      BY <3>2
  <2>4. QED
    BY <2>1, <2>2, <2>3 DEF IsLinked
<1>6. ASSUME NEW c \in Buffers PROVE (\E i \in 1..Len(r) : r[i] = c) <=> Free(c)'
  <2>1. Free(c)' <=> Free(c) /\ c # b
    <3>1. Held(t) = NULL /\ c # NULL
      BY DEF Held, NULL, Buffers
    <3>2. QED
      BY <3>1 DEF Free
  <2>2. (\E i \in 1..Len(r) : r[i] = c) <=> \E j \in 1..Len(s) : j # 1 /\ s[j] = c
    <3>1. ASSUME NEW i \in 1..Len(r), r[i] = c PROVE \E j \in 1..Len(s) : j # 1 /\ s[j] = c
      <4>1. i + 1 \in 1..Len(s) /\ i + 1 # 1 /\ s[i + 1] = c
        BY <1>2, <1>4, <3>1
      <4>2. QED
        BY <4>1
    <3>2. ASSUME NEW j \in 1..Len(s), j # 1, s[j] = c PROVE \E i \in 1..Len(r) : r[i] = c
      <4>1. j - 1 \in 1..Len(r) /\ r[j - 1] = c
        BY <1>2, <1>4, <3>2
      <4>2. QED
        BY <4>1
    <3>3. QED
      BY <3>1, <3>2
  <2>3. (\E j \in 1..Len(s) : j # 1 /\ s[j] = c) <=> (\E j \in 1..Len(s) : s[j] = c) /\ c # b
    <3>1. 1 \in 1..Len(s)
      BY <1>2, <1>3
    <3>2. QED
      BY <1>1, <1>3, <3>1 DEF IsLinked
  <2>4. QED
    BY <1>1, <2>1, <2>2, <2>3
<1>7. Free(b)
  <2>1. 1 \in 1..Len(s)
    BY <1>2, <1>3
  <2>2. QED
    BY <1>1, <1>3, <2>1
<1>8. QED
  BY <1>5, <1>6, <1>7 DEF LinksFree
(* A buffer is popped.                                                     *)
LEMMA Pops ==
  ASSUME AtMostTwo, IInv, StackInv, NEW t \in Threads, PopTop(t), bufferStack = buffer[t]
  PROVE  /\ StackInv' /\ Held(t) = NULL /\ buffer[t] \in Buffers /\ Free(buffer[t])
         /\ \A u \in Threads : Held(u)' = IF u = t THEN buffer[t] ELSE Held(u)
<1>1. /\ Go(t, "popTop", "bump") /\ bufferStack' = link[t]
      /\ scratchBuffer' = [scratchBuffer EXCEPT ![t] = buffer[t]]
      /\ UNCHANGED <<onceVars, next, offset, buffer, link>>
  BY DEF PopTop
<1>2. \A u \in Threads : pc'[u] = IF u = t THEN "bump" ELSE pc[u]
  BY <1>1 DEF IInv, TypeOK, Go
<1>3. \A u \in Threads : scratchBuffer'[u] = IF u = t THEN buffer[t] ELSE scratchBuffer[u]
  BY <1>1 DEF IInv, TypeOK
<1>4. UNCHANGED <<calls["stack"], flag["stack"], executed["stack"]>>
  BY <1>1 DEF onceVars
<1>5. /\ pc[t] = "popTop" /\ calls["stack"] # 0 /\ scratchBuffer[t] = NULL
      /\ link[t] = next[buffer[t]]
  BY <1>1 DEF StackInv, FilledOnce, LinksRead, Detaching, Popping, Go
<1>6. buffer[t] \in Buffers
  BY <1>5 DEF IInv, TypeOK, Located, WithBuffer
<1>7. \A u \in Threads : Held(u)' = IF u = t THEN buffer[t] ELSE Held(u)
  BY <1>1, <1>2, <1>3 DEF Held
<1>8. Held(t) = NULL
  BY <1>5 DEF Held
<1>9. LinksFree' /\ Free(buffer[t])
  BY <1>1, <1>4, <1>5, <1>6, <1>7, TakesTop
<1>10. FilledOnce'
  BY <1>2, <1>4, <1>5 DEF StackInv, FilledOnce, Popping
<1>11. EmptyBuffers'
  <2>1. \A b \in Buffers : Free(b)' => Free(b)
    BY <1>4, <1>7, <1>8 DEF Free, NULL, Buffers
  <2>2. QED
    BY <1>1, <1>2, <2>1 DEF StackInv, EmptyBuffers, Pushing
<1>12. HeldOnce'
  <2>1. \A u \in Threads : Held(u) # buffer[t]
    BY <1>9 DEF Free
  <2>2. QED
    BY <1>7, <2>1 DEF StackInv, HeldOnce
<1>13. LinksRead'
  BY <1>1, <1>2, <1>3 DEF StackInv, LinksRead, Pushing, Popping, Detaching
<1>14. Overtaken'
  <2>1. SUFFICES ASSUME NEW u \in Threads, NEW w \in Threads, u # w, pc'[u] \in Popping,
                        buffer'[u] = Held(w)'
                 PROVE  next'[buffer'[u]] = bufferStack' /\ (pc'[w] = "writeNext" => link'[w] = bufferStack')
    BY DEF Overtaken
  <2>2. u # t /\ w = t
    BY <1>2, <2>1 DEF AtMostTwo, Popping
  <2>3. buffer[u] = buffer[t]
    BY <1>1, <1>7, <2>1, <2>2
  <2>4. QED
    BY <1>1, <1>2, <1>5, <2>2, <2>3
<1>15. QED
  BY <1>6, <1>7, <1>8, <1>9, <1>10, <1>11, <1>12, <1>13, <1>14 DEF StackInv

(* A thread gives up its buffer.                                           *)
LEMMA GivesUp ==
  ASSUME IInv, StackInv, NEW t \in Threads, GiveUpBuffer(t)
  PROVE  StackInv' /\ \A u \in Threads : Held(u)' = Held(u)
<1> USE DEF GiveUpBuffer
<1>1. \A u \in Threads : pc'[u] = IF u = t THEN "readTop" ELSE pc[u]
  BY DEF IInv, TypeOK, Go
<1>2. \A u \in Threads : /\ scratchBuffer'[u] = IF u = t THEN NULL ELSE scratchBuffer[u]
                         /\ buffer'[u] = IF u = t THEN scratchBuffer[t] ELSE buffer[u]
  BY DEF IInv, TypeOK
<1>3. pc[t] = "getBuffer" /\ Held(t) = scratchBuffer[t] /\ Held(t) # NULL
  BY DEF Go, Held
<1>4. \A u \in Threads : Held(u)' = Held(u)
  BY <1>1, <1>2, <1>3 DEF Held
<1>5. UNCHANGED <<calls["stack"], flag["stack"], executed["stack"], bufferStack, next, link>>
  BY DEF onceVars
<1>6. FilledOnce'
  BY <1>1, <1>4, <1>5 DEF StackInv, FilledOnce, Popping
<1>7. LinksFree'
  BY <1>4, <1>5, LinksStay DEF StackInv
<1>8. EmptyBuffers'
  <2>1. Held(t) \in Buffers
    BY <1>3 DEF IInv, TypeOK
  <2>2. /\ \A b \in Buffers : offset'[b] = IF b = Held(t) THEN 0 ELSE offset[b]
        /\ \A u \in Threads : buffer'[u] \in Buffers \cup {NULL}
    BY <1>2, <1>3, <2>1 DEF IInv, TypeOK
  <2>3. \A u \in Threads : pc'[u] \in Pushing => buffer'[u] \in Buffers
    BY <1>1, <1>2, <1>3, <2>2 DEF IInv, Located, WithBuffer, Pushing
  <2>4. \A b \in Buffers : Free(b)' => Free(b)
    BY <1>4, <1>5 DEF Free
  <2>5. ASSUME NEW u \in Threads, pc'[u] \in Pushing PROVE offset'[buffer'[u]] = 0
    <3>1. CASE u = t
      BY <1>2, <1>3, <2>2, <2>3, <2>5, <3>1
    <3>2. CASE u # t
      <4>1. offset[buffer[u]] = 0 /\ buffer'[u] = buffer[u]
        BY <1>1, <1>2, <2>5, <3>2 DEF StackInv, EmptyBuffers
      <4>2. QED
        BY <2>2, <2>3, <2>5, <4>1
    <3>3. QED
      BY <3>1, <3>2
  <2>6. QED
    BY <2>2, <2>4, <2>5 DEF StackInv, EmptyBuffers
<1>9. HeldOnce'
  BY <1>4 DEF StackInv, HeldOnce
<1>10. LinksRead'
  BY <1>1, <1>2, <1>5 DEF StackInv, LinksRead, Pushing, Popping, Detaching
<1>11. Overtaken'
  BY <1>1, <1>2, <1>4, <1>5 DEF StackInv, Overtaken, Popping
<1>12. QED
  BY <1>4, <1>6, <1>7, <1>8, <1>9, <1>10, <1>11 DEF StackInv

(* It reads what its buffer has to link to.                                *)
LEMMA ReadsTop ==
  ASSUME IInv, StackInv, NEW t \in Threads, ReadTop(t)
  PROVE  StackInv' /\ \A u \in Threads : Held(u)' = Held(u)
<1> USE DEF ReadTop
<1>1. \A u \in Threads : pc'[u] = IF u = t THEN "writeNext" ELSE pc[u]
  BY DEF IInv, TypeOK, Go
<1>2. \A u \in Threads : link'[u] = IF u = t THEN bufferStack ELSE link[u]
  BY DEF IInv, TypeOK
<1>3. \A u \in Threads : Held(u)' = Held(u)
  BY <1>1 DEF Held, Go
<1>4. /\ UNCHANGED <<calls["stack"], flag["stack"], executed["stack"], bufferStack, next, offset>>
      /\ UNCHANGED <<buffer, scratchBuffer>>
  BY DEF onceVars, poolVars
<1>5. pc[t] = "readTop"
  BY DEF Go
<1>6. FilledOnce'
  BY <1>1, <1>3, <1>4 DEF StackInv, FilledOnce, Popping
<1>7. LinksFree'
  BY <1>3, <1>4, LinksStay DEF StackInv
<1>8. EmptyBuffers'
  BY <1>1, <1>3, <1>4, <1>5 DEF StackInv, EmptyBuffers, Free, Pushing
<1>9. HeldOnce'
  BY <1>3 DEF StackInv, HeldOnce
<1>10. LinksRead'
  BY <1>1, <1>2, <1>4, <1>5 DEF StackInv, LinksRead, Pushing, Popping, Detaching
<1>11. Overtaken'
  BY <1>1, <1>2, <1>3, <1>4 DEF StackInv, Overtaken, Popping
<1>12. QED
  BY <1>3, <1>6, <1>7, <1>8, <1>9, <1>10, <1>11 DEF StackInv

(* It links its buffer to that, which a thread that was overtaken has read *)
(* there before.                                                           *)
LEMMA WritesNext ==
  ASSUME IInv, StackInv, NEW t \in Threads, WriteNext(t)
  PROVE  StackInv' /\ \A u \in Threads : Held(u)' = Held(u)
<1> USE DEF WriteNext
<1>1. \A u \in Threads : pc'[u] = IF u = t THEN "pushTop" ELSE pc[u]
  BY DEF IInv, TypeOK, Go
<1>2. pc[t] = "writeNext" /\ Held(t) = buffer[t] /\ buffer[t] # NULL /\ buffer[t] \in Buffers
  BY DEF Go, Held, IInv, TypeOK, Located, WithBuffer
<1>3. \A b \in Buffers : next'[b] = IF b = Held(t) THEN link[t] ELSE next[b]
  BY <1>2 DEF IInv, TypeOK
<1>4. \A u \in Threads : Held(u)' = Held(u)
  BY <1>1, <1>2 DEF Held
<1>5. /\ UNCHANGED <<calls["stack"], flag["stack"], executed["stack"], bufferStack, offset>>
      /\ UNCHANGED <<buffer, scratchBuffer, link>>
  BY DEF onceVars
<1>6. \A u \in Threads : pc'[u] \in Popping \cup Pushing => buffer[u] \in Buffers /\ buffer[u] # NULL
  BY <1>1, <1>2 DEF IInv, TypeOK, Located, WithBuffer, Popping, Pushing
<1>7. FilledOnce'
  BY <1>1, <1>4, <1>5 DEF StackInv, FilledOnce, Popping
<1>8. LinksFree'
  <2>1. PICK s \in Seq(Buffers) :
          /\ IsLinked(s)
          /\ \A b \in Buffers : (\E i \in 1..Len(s) : s[i] = b) <=> Free(b)
    BY DEF StackInv, LinksFree
  <2>2. \A i \in 1..Len(s) : s[i] \in Buffers /\ s[i] # Held(t)
    <3>1. \A i \in 1..Len(s) : s[i] \in Buffers
      BY <2>1
    <3>2. ~Free(Held(t))
      BY DEF Free
    <3>3. QED
      BY <2>1, <3>1, <3>2
  <2>3. IsLinked(s)'
    BY <1>3, <1>5, <2>1, <2>2 DEF IsLinked
  <2>4. \A b \in Buffers : Free(b)' <=> Free(b)
    BY <1>4, <1>5 DEF Free
  <2>5. QED
    BY <2>1, <2>3, <2>4 DEF LinksFree
<1>9. EmptyBuffers'
  BY <1>1, <1>2, <1>4, <1>5 DEF StackInv, EmptyBuffers, Free, Pushing
<1>10. HeldOnce'
  BY <1>4 DEF StackInv, HeldOnce
<1>11. LinksRead'
  <2>1. ASSUME NEW u \in Threads, pc'[u] \in {"popTop", "pushTop"} PROVE link'[u] = next'[buffer'[u]]
    <3>1. buffer[u] \in Buffers
      BY <1>6, <2>1 DEF Popping, Pushing
    <3>2. CASE u = t
      BY <1>2, <1>3, <1>5, <3>1, <3>2
    <3>3. CASE u # t
      <4>1. pc[u] = pc'[u] /\ link[u] = next[buffer[u]]
        BY <1>1, <2>1, <3>3 DEF StackInv, LinksRead
      <4>2. CASE buffer[u] = Held(t)
        <5>1. pc[u] # "pushTop"
          BY <1>6, <2>1, <3>3, <4>1, <4>2 DEF StackInv, HeldOnce, Held, Pushing
        <5>2. next[buffer[u]] = bufferStack /\ link[t] = bufferStack
          BY <1>2, <2>1, <3>3, <4>1, <4>2, <5>1 DEF StackInv, Overtaken, Popping
        <5>3. QED
          BY <1>3, <1>5, <3>1, <4>1, <4>2, <5>2
      <4>3. CASE buffer[u] # Held(t)
        BY <1>3, <1>5, <3>1, <4>1, <4>3
      <4>4. QED
        BY <4>2, <4>3
    <3>4. QED
      BY <3>2, <3>3
  <2>2. \A u \in Threads : pc'[u] \in Pushing \cup Detaching => scratchBuffer'[u] = NULL
    BY <1>1, <1>2, <1>5 DEF StackInv, LinksRead, Pushing, Detaching, Popping
  <2>3. QED
    BY <2>1, <2>2 DEF LinksRead
<1>12. Overtaken'
  <2>1. SUFFICES ASSUME NEW u \in Threads, NEW w \in Threads, u # w, pc'[u] \in Popping,
                        buffer'[u] = Held(w)'
                 PROVE  next'[buffer'[u]] = bufferStack' /\ (pc'[w] = "writeNext" => link'[w] = bufferStack')
    BY DEF Overtaken
  <2>2. u # t /\ pc[u] \in Popping /\ buffer[u] = Held(w) /\ buffer[u] \in Buffers /\ Held(w) # NULL
    BY <1>1, <1>4, <1>5, <1>6, <2>1 DEF Popping
  <2>3. next[buffer[u]] = bufferStack /\ (pc[w] = "writeNext" => link[w] = bufferStack)
    BY <2>1, <2>2 DEF StackInv, Overtaken
  <2>4. next'[buffer[u]] = bufferStack
    <3>1. CASE buffer[u] = Held(t)
      <4>1. w = t
        BY <2>2, <3>1 DEF StackInv, HeldOnce
      <4>2. QED
        BY <1>2, <1>3, <2>2, <2>3, <3>1, <4>1
    <3>2. CASE buffer[u] # Held(t)
      BY <1>3, <2>2, <2>3, <3>2
    <3>3. QED
      BY <3>1, <3>2
  <2>5. QED
    BY <1>1, <1>5, <2>3, <2>4
<1>13. QED
  BY <1>4, <1>7, <1>8, <1>9, <1>10, <1>11, <1>12 DEF StackInv
(* The buffers in s, and b before them.                                    *)
LEMMA PutsTop ==
  ASSUME IInv, StackInv, NEW t \in Threads, NEW b \in Buffers, Held(t) = b, calls["stack"] # 0,
         bufferStack = next[b], bufferStack' = b, UNCHANGED <<next, calls["stack"]>>,
         \A u \in Threads : Held(u)' = IF u = t THEN NULL ELSE Held(u)
  PROVE  LinksFree'
<1>1. PICK s \in Seq(Buffers) :
        /\ IsLinked(s)
        /\ \A c \in Buffers : (\E i \in 1..Len(s) : s[i] = c) <=> Free(c)
  BY DEF StackInv, LinksFree
<1>2. PICK l \in Nat : l = Len(s)
  OBVIOUS
<1>3. PICK r \in Seq(Buffers) : /\ Len(r) = l + 1 /\ r[1] = b
                                /\ \A i \in 1..l : r[i + 1] = s[i]
  <2>1. /\ <<b>> \o s \in Seq(Buffers) /\ Len(<<b>> \o s) = l + 1 /\ (<<b>> \o s)[1] = b
        /\ \A i \in 1..l : (<<b>> \o s)[i + 1] = s[i]
    BY <1>2
  <2>2. QED
    BY <2>1
<1>4. \A i \in 2..Len(r) : i - 1 \in 1..Len(s) /\ r[i] = s[i - 1]
  <2>1. ASSUME NEW i \in 2..Len(r) PROVE i - 1 \in 1..l /\ r[i] = s[i - 1]
    <3>1. i - 1 \in 1..l /\ (i - 1) + 1 = i
      BY <1>3
    <3>2. QED
      BY <1>3, <3>1
  <2>2. QED
    BY <1>2, <2>1
<1>5. \A i \in 1..Len(s) : s[i] \in Buffers /\ s[i] # b
  <2>1. \A i \in 1..Len(s) : s[i] \in Buffers
    BY <1>1
  <2>2. ~Free(b)
    BY DEF Free
  <2>3. QED
    BY <1>1, <2>1, <2>2
<1>6. IsLinked(r)'
  <2>1. bufferStack' = IF Len(r) = 0 THEN NULL ELSE r[1]
    BY <1>3
  <2>2. ASSUME NEW i \in 1..Len(r) PROVE next'[r[i]] = IF i = Len(r) THEN NULL ELSE r[i + 1]
    <3>1. CASE i = 1
      <4>1. next[r[1]] = IF Len(s) = 0 THEN NULL ELSE s[1]
        BY <1>1, <1>3 DEF IsLinked
      <4>2. (Len(s) = 0 <=> 1 = Len(r)) /\ (Len(s) # 0 => r[1 + 1] = s[1])
        BY <1>2, <1>3
      <4>3. QED
        BY <3>1, <4>1, <4>2
    <3>2. CASE i # 1
      <4>1. i \in 2..Len(r) /\ (i = Len(r) <=> i - 1 = Len(s))
        BY <1>2, <1>3, <3>2
      <4>2. next[r[i]] = IF i = Len(r) THEN NULL ELSE s[(i - 1) + 1]
        BY <1>1, <1>4, <4>1 DEF IsLinked
      <4>3. i # Len(r) => i \in 1..l /\ (i - 1) + 1 = i
        BY <1>3
      <4>4. QED
        BY <1>3, <4>2, <4>3
    <3>3. QED
      BY <3>1, <3>2
  <2>3. ASSUME NEW i \in 1..Len(r), NEW j \in 1..Len(r), r[i] = r[j] PROVE i = j
    <3>1. \A k \in 1..Len(r) : k # 1 => k \in 2..Len(r)
      BY <1>3
    <3>2. \A k \in 1..Len(r) : k # 1 => r[k] # b
      BY <1>4, <1>5, <3>1
    <3>3. CASE i = 1 \/ j = 1
      <4>1. r[i] = b /\ r[j] = b
        BY <1>3, <2>3, <3>3, Zenon
      <4>2. QED
        BY <3>2, <4>1
    <3>4. CASE i # 1 /\ j # 1
      <4>1. i \in 2..Len(r) /\ j \in 2..Len(r)
        BY <3>1, <3>4
      <4>2. i - 1 \in 1..Len(s) /\ j - 1 \in 1..Len(s) /\ s[i - 1] = s[j - 1]
        BY <1>4, <2>3, <4>1
      <4>3. i - 1 = j - 1
        BY <1>1, <4>2 DEF IsLinked
      <4>4. QED
        BY <4>3
    <3>5. QED
      BY <3>3, <3>4
  <2>4. QED
    BY <2>1, <2>2, <2>3 DEF IsLinked
<1>7. ASSUME NEW c \in Buffers PROVE (\E i \in 1..Len(r) : r[i] = c) <=> Free(c)'
  <2>1. Free(c)' <=> Free(c) \/ c = b
    <3>1. c # NULL
      BY DEF NULL, Buffers
    <3>2. \A u \in Threads : u # t => Held(u) # b
      BY DEF StackInv, HeldOnce, NULL, Buffers
    <3>3. QED
      BY <3>1, <3>2 DEF Free
  <2>2. ASSUME NEW i \in 1..Len(r), r[i] = c PROVE (\E j \in 1..Len(s) : s[j] = c) \/ c = b
    <3>1. i = 1 \/ i \in 2..Len(r)
      BY <1>3
    <3>2. QED
      BY <1>3, <1>4, <2>2, <3>1
  <2>3. ASSUME NEW j \in 1..Len(s), s[j] = c PROVE \E i \in 1..Len(r) : r[i] = c
    <3>1. j + 1 \in 1..Len(r) /\ r[j + 1] = c
      BY <1>2, <1>3, <2>3
    <3>2. QED
      BY <3>1
  <2>4. \E i \in 1..Len(r) : r[i] = b
    <3>1. 1 \in 1..Len(r)
      BY <1>3
    <3>2. QED
      BY <1>3, <3>1
  <2>5. (\E i \in 1..Len(r) : r[i] = c) <=> (\E j \in 1..Len(s) : s[j] = c) \/ c = b
    BY <2>2, <2>3, <2>4
  <2>6. QED
    BY <1>1, <2>1, <2>5
<1>8. QED
  BY <1>6, <1>7 DEF LinksFree

(* A buffer is pushed.                                                     *)
LEMMA Pushes ==
  ASSUME AtMostTwo, IInv, StackInv, NEW t \in Threads, PushTop(t), bufferStack = link[t]
  PROVE  /\ StackInv' /\ Held(t) \in Buffers /\ calls["stack"] # 0
         /\ \A u \in Threads : Held(u)' = IF u = t THEN NULL ELSE Held(u)
<1>1. Go(t, "pushTop", "idle") /\ bufferStack' = buffer[t]
      /\ UNCHANGED <<onceVars, next, offset, scratchBuffer, buffer, link>>
  <2>1. CASE /\ bufferStack = link[t]
             /\ Go(t, "pushTop", "idle")
             /\ bufferStack' = buffer[t]
             /\ UNCHANGED <<onceVars, next, offset, scratchBuffer, resetting, buffer, link, synced>>
    BY <2>1
  <2>2. QED
    BY <2>1 DEF PushTop
<1>2. \A u \in Threads : pc'[u] = IF u = t THEN "idle" ELSE pc[u]
  BY <1>1 DEF IInv, TypeOK, Go
<1>3. UNCHANGED <<calls["stack"], flag["stack"], executed["stack"]>>
  BY <1>1 DEF onceVars
<1>4. /\ pc[t] = "pushTop" /\ Held(t) = buffer[t] /\ buffer[t] \in Buffers
      /\ scratchBuffer[t] = NULL /\ link[t] = next[buffer[t]]
  BY <1>1 DEF Go, Held, IInv, TypeOK, Located, WithBuffer, StackInv, LinksRead, Pushing
<1>5. calls["stack"] # 0
  BY <1>4 DEF StackInv, FilledOnce, NULL, Buffers
<1>6. \A u \in Threads : Held(u)' = IF u = t THEN NULL ELSE Held(u)
  BY <1>1, <1>2, <1>4 DEF Held
<1>7. LinksFree'
  BY <1>1, <1>3, <1>4, <1>5, <1>6, PutsTop
<1>8. FilledOnce'
  BY <1>2, <1>3, <1>5 DEF StackInv, FilledOnce, Popping
<1>9. EmptyBuffers'
  <2>1. \A b \in Buffers : Free(b)' => Free(b) \/ b = buffer[t]
    BY <1>3, <1>4, <1>6 DEF Free
  <2>2. offset[buffer[t]] = 0
    BY <1>4 DEF StackInv, EmptyBuffers, Pushing
  <2>3. QED
    BY <1>1, <1>2, <2>1, <2>2 DEF StackInv, EmptyBuffers, Pushing
<1>10. HeldOnce'
  BY <1>6 DEF StackInv, HeldOnce
<1>11. LinksRead'
  BY <1>1, <1>2 DEF StackInv, LinksRead, Pushing, Popping, Detaching
<1>12. Overtaken'
  <2>1. SUFFICES ASSUME NEW u \in Threads, NEW w \in Threads, u # w, pc'[u] \in Popping,
                        buffer'[u] = Held(w)'
                 PROVE  FALSE
    BY DEF Overtaken
  <2>2. u # t /\ w = t
    BY <1>2, <2>1 DEF AtMostTwo, Popping
  <2>3. buffer[u] # NULL
    BY <1>2, <2>1, <2>2 DEF IInv, Located, WithBuffer, Popping
  <2>4. QED
    BY <1>1, <1>6, <2>1, <2>2, <2>3
<1>13. QED
  BY <1>4, <1>5, <1>6, <1>7, <1>8, <1>9, <1>10, <1>11, <1>12 DEF StackInv
(* What a step hands over: nothing, all buffers, or one from or to the     *)
(* stack.                                                                  *)
HandsOver ==
  \/ calls'["stack"] = calls["stack"] /\ \A u \in Threads : Held(u)' = Held(u)
  \/ /\ calls["stack"] = 0 /\ calls'["stack"] # 0
     /\ \A u \in Threads : Held(u) = NULL /\ Held(u)' = NULL
  \/ /\ calls'["stack"] = calls["stack"]
     /\ \E t \in Threads, b \in Buffers :
          /\ Held(t) = NULL /\ Free(b)
          /\ \A u \in Threads : Held(u)' = IF u = t THEN b ELSE Held(u)
  \/ /\ calls'["stack"] = calls["stack"] /\ calls["stack"] # 0
     /\ \E t \in Threads :
          /\ Held(t) \in Buffers
          /\ \A u \in Threads : Held(u)' = IF u = t THEN NULL ELSE Held(u)

(* Every step keeps the invariant, if no three threads allocate.           *)
LEMMA StackStep ==
  ASSUME AtMostTwo, IInv, StackInv, NEW t \in Threads, Step(t) \/ (\E reset \in BOOLEAN : Call(t, reset))
  PROVE  StackInv' /\ HandsOver
<1> DEFINE Goal == StackInv' /\ HandsOver
<1> SUFFICES Goal
  OBVIOUS
<1>a. "scratch" \in Onces /\ "stack" \in Onces /\ "scratch" # "stack"
  BY DEF Onces
<1>b. /\ executed \in [Onces -> BOOLEAN] /\ flag \in [Onces -> BOOLEAN] /\ calls \in [Onces -> Nat]
      /\ pc \in [Threads -> Locations]
      /\ scratchBuffer \in [Threads -> Buffers \cup {NULL}]
  BY DEF IInv, TypeOK
<1>c. TypeOK /\ FilledOnce
  BY DEF IInv, StackInv
<1>1. CASE \E reset \in BOOLEAN : Call(t, reset)
  <2> DEFINE to == IF executed["scratch"] THEN "getBuffer" ELSE "scratchUnset"
  <2>1. /\ Go(t, "idle", to)
        /\ UNCHANGED <<onceVars, poolVars, scratchBuffer, buffer, link>>
    BY <1>1 DEF Call, ReadExecuted
  <2>2. UNCHANGED <<calls["stack"], flag["stack"], executed["stack"], bufferStack, next, offset>>
    BY <2>1 DEF onceVars, poolVars
  <2>3. to \notin Popping \cup Pushing \cup Detaching
    BY DEF Popping, Pushing, Detaching
  <2>4. /\ LinksFree' /\ HeldOnce' /\ EmptyBuffers' /\ LinksRead' /\ Overtaken'
        /\ \A u \in Threads : Held(u)' = Held(u)
    BY <2>1, <2>2, <2>3, OutsideStack DEF Pushing
  <2>5. FilledOnce'
    BY <1>c, <2>1, <2>2, <2>3, <2>4, FilledStays DEF Detaching
  <2>6. QED
    BY <2>2, <2>4, <2>5 DEF StackInv, HandsOver
<1>2. CASE TryLazyInitializeScratchBuffer(t)
  <2>1. PICK from \in {"scratchUnset", "scratchRunning", "scratchDone"},
             to \in {"scratchRunning", "failed", "scratchDone", "getBuffer"} :
          /\ Go(t, from, to)
          /\ UNCHANGED <<calls["stack"], flag["stack"], executed["stack"]>>
          /\ UNCHANGED <<bufferStack, next, offset, buffer, link, scratchBuffer>>
    <3>1. CASE TestAndSet(t, "scratch", "scratchUnset", "scratchRunning", "failed")
      BY <1>a, <1>b, <3>1 DEF TestAndSet, poolVars
    <3>2. CASE InitializeScratchBuffer(t)
      <4>1. scratchBuffer[t] = NULL
        BY <3>2 DEF InitializeScratchBuffer, Go, IInv, Located, BeforeScratch
      <4>2. UNCHANGED scratchBuffer
        BY <1>b, <3>2, <4>1 DEF InitializeScratchBuffer
      <4>3. QED
        BY <1>a, <1>b, <3>2, <4>2 DEF InitializeScratchBuffer, poolVars
    <3>3. CASE SetExecuted(t, "scratch", "scratchDone", "getBuffer")
      BY <1>a, <1>b, <3>3 DEF SetExecuted, poolVars
    <3>4. QED
      BY <1>2, <3>1, <3>2, <3>3 DEF TryLazyInitializeScratchBuffer
  <2>2. to \notin Popping \cup Pushing \cup Detaching /\ from \notin Pushing
    BY DEF Popping, Pushing, Detaching
  <2>3. /\ LinksFree' /\ HeldOnce' /\ EmptyBuffers' /\ LinksRead' /\ Overtaken'
        /\ \A u \in Threads : Held(u)' = Held(u)
    BY <2>1, <2>2, OutsideStack DEF Pushing
  <2>4. FilledOnce'
    BY <1>c, <2>1, <2>2, <2>3, FilledStays DEF Detaching
  <2>5. QED
    BY <2>1, <2>3, <2>4 DEF StackInv, HandsOver
<1>3. CASE TestAndSet(t, "stack", "stackUnset", "stackRunning", "stackFailed")
  <2> DEFINE to == IF flag["stack"] THEN "stackFailed" ELSE "stackRunning"
  <2>1. /\ Go(t, "stackUnset", to)
        /\ UNCHANGED <<executed, calls, bufferStack, next, offset, scratchBuffer, buffer, link>>
        /\ flag'["stack"]
    BY <1>a, <1>b, <1>3 DEF TestAndSet, poolVars
  <2>2. scratchBuffer[t] = NULL
    BY <2>1 DEF StackInv, LinksRead, Detaching, Go
  <2>3. /\ LinksFree' /\ HeldOnce' /\ EmptyBuffers' /\ LinksRead' /\ Overtaken'
        /\ \A u \in Threads : Held(u)' = Held(u)
    BY <2>1, <2>2, OutsideStack DEF Pushing, Popping
  <2>4. \A u \in Threads : pc'[u] = IF u = t THEN to ELSE pc[u]
    BY <1>b, <2>1 DEF Go
  <2>5. FilledOnce'
    BY <1>c, <2>1, <2>3, <2>4 DEF FilledOnce, Popping
  <2>6. QED
    BY <2>1, <2>3, <2>5 DEF StackInv, HandsOver
<1>4. CASE InitializeBufferStack(t)
  <2>1. calls["stack"] = 0 /\ calls'["stack"] = 1
    BY <1>a, <1>b, <1>c, <1>4 DEF InitializeBufferStack, Go, FilledOnce
  <2>2. QED
    BY <1>4, <2>1, FillsStack DEF HandsOver
<1>5. CASE SetExecuted(t, "stack", "stackDone", "loadTop")
  <2>1. /\ Go(t, "stackDone", "loadTop")
        /\ UNCHANGED <<flag, calls, bufferStack, next, offset, scratchBuffer, buffer, link>>
    BY <1>5 DEF SetExecuted, poolVars
  <2>2. scratchBuffer[t] = NULL /\ calls["stack"] # 0
    BY <2>1 DEF StackInv, LinksRead, FilledOnce, Detaching, Go
  <2>3. /\ LinksFree' /\ HeldOnce' /\ EmptyBuffers' /\ LinksRead' /\ Overtaken'
        /\ \A u \in Threads : Held(u)' = Held(u)
    BY <2>1, <2>2, OutsideStack DEF Pushing, Popping
  <2>4. \A u \in Threads : pc'[u] = IF u = t THEN "loadTop" ELSE pc[u]
    BY <1>b, <2>1 DEF Go
  <2>5. FilledOnce'
    BY <1>c, <2>1, <2>2, <2>3, <2>4 DEF FilledOnce, Popping
  <2>6. QED
    BY <2>1, <2>3, <2>5 DEF StackInv, HandsOver
<1>6. CASE LoadTop(t)
  <2>1. calls'["stack"] = calls["stack"]
    BY <1>6 DEF LoadTop, onceVars
  <2>2. QED
    BY <1>6, <2>1, LoadsTop DEF HandsOver
<1>7. CASE ReadNext(t)
  <2>1. calls'["stack"] = calls["stack"]
    BY <1>7 DEF ReadNext, onceVars
  <2>2. QED
    BY <1>7, <2>1, ReadsNext DEF HandsOver
<1>8. CASE PopTop(t)
  <2>1. calls'["stack"] = calls["stack"]
    BY <1>8 DEF PopTop, onceVars
  <2>2. CASE bufferStack = buffer[t]
    <3>1. /\ StackInv' /\ Held(t) = NULL /\ buffer[t] \in Buffers /\ Free(buffer[t])
          /\ \A u \in Threads : Held(u)' = IF u = t THEN buffer[t] ELSE Held(u)
      BY <1>8, <2>2, Pops
    <3>2. QED
      BY <2>1, <3>1 DEF HandsOver
  <2>3. CASE bufferStack # buffer[t]
    <3>1. Go(t, "popTop", "loadTop") /\ UNCHANGED <<onceVars, poolVars, scratchBuffer, buffer, link>>
      BY <1>8, <2>3 DEF PopTop
    <3>2. UNCHANGED <<calls["stack"], flag["stack"], executed["stack"], bufferStack, next, offset>>
      BY <3>1 DEF onceVars, poolVars
    <3>3. scratchBuffer[t] = NULL /\ calls["stack"] # 0
      BY <3>1 DEF StackInv, LinksRead, FilledOnce, Detaching, Popping, Go
    <3>4. /\ LinksFree' /\ HeldOnce' /\ EmptyBuffers' /\ LinksRead' /\ Overtaken'
          /\ \A u \in Threads : Held(u)' = Held(u)
      BY <3>1, <3>2, <3>3, OutsideStack DEF Pushing, Popping
    <3>5. FilledOnce'
      BY <1>c, <3>1, <3>2, <3>3, <3>4, FilledStays
    <3>6. QED
      BY <3>2, <3>4, <3>5 DEF StackInv, HandsOver
  <2>4. QED
    BY <2>2, <2>3
<1>9. CASE ReadTop(t)
  <2>1. calls'["stack"] = calls["stack"]
    BY <1>9 DEF ReadTop, onceVars
  <2>2. QED
    BY <1>9, <2>1, ReadsTop DEF HandsOver
<1>10. CASE WriteNext(t)
  <2>1. calls'["stack"] = calls["stack"]
    BY <1>10 DEF WriteNext, onceVars
  <2>2. QED
    BY <1>10, <2>1, WritesNext DEF HandsOver
<1>11. CASE PushTop(t)
  <2>1. calls'["stack"] = calls["stack"]
    BY <1>11 DEF PushTop, onceVars
  <2>2. CASE bufferStack = link[t]
    <3>1. /\ StackInv' /\ Held(t) \in Buffers /\ calls["stack"] # 0
          /\ \A u \in Threads : Held(u)' = IF u = t THEN NULL ELSE Held(u)
      BY <1>11, <2>2, Pushes
    <3>2. QED
      BY <2>1, <3>1 DEF HandsOver
  <2>3. CASE bufferStack # link[t]
    <3>1. Go(t, "pushTop", "readTop") /\ UNCHANGED <<onceVars, poolVars, scratchBuffer, buffer, link>>
      BY <1>11, <2>3 DEF PushTop
    <3>2. UNCHANGED <<calls["stack"], flag["stack"], executed["stack"], bufferStack, next, offset>>
      BY <3>1 DEF onceVars, poolVars
    <3>3. /\ LinksFree' /\ HeldOnce' /\ EmptyBuffers' /\ LinksRead' /\ Overtaken'
          /\ \A u \in Threads : Held(u)' = Held(u)
      BY <3>1, <3>2, OutsideStack DEF Pushing, Popping, Detaching
    <3>4. FilledOnce'
      BY <1>c, <3>1, <3>2, <3>3, FilledStays DEF Popping
    <3>5. QED
      BY <3>2, <3>3, <3>4 DEF StackInv, HandsOver
  <2>4. QED
    BY <2>2, <2>3
<1>12. CASE UseOwnBuffer(t) \/ NothingToReset(t) \/ ReturnNull(t)
  <2>1. PICK from \in {"getBuffer", "failed", "stackFailed"}, to \in {"bump", "idle"} :
          Go(t, from, to) /\ UNCHANGED <<onceVars, poolVars, scratchBuffer, buffer, link>>
    BY <1>12 DEF UseOwnBuffer, NothingToReset, ReturnNull
  <2>2. UNCHANGED <<calls["stack"], flag["stack"], executed["stack"], bufferStack, next, offset>>
    BY <2>1 DEF onceVars, poolVars
  <2>3. to \notin Popping \cup Pushing \cup Detaching /\ from \notin Pushing
    BY DEF Popping, Pushing, Detaching
  <2>4. /\ LinksFree' /\ HeldOnce' /\ EmptyBuffers' /\ LinksRead' /\ Overtaken'
        /\ \A u \in Threads : Held(u)' = Held(u)
    BY <2>1, <2>2, <2>3, OutsideStack DEF Pushing
  <2>5. FilledOnce'
    BY <1>c, <2>1, <2>2, <2>3, <2>4, FilledStays DEF Detaching
  <2>6. QED
    BY <2>2, <2>4, <2>5 DEF StackInv, HandsOver
<1>13. CASE EnterDetachBuffer(t)
  <2> DEFINE to == IF executed["stack"] THEN "loadTop" ELSE "stackUnset"
  <2>1. /\ Go(t, "getBuffer", to) /\ scratchBuffer[t] = NULL
        /\ UNCHANGED <<onceVars, poolVars, scratchBuffer, buffer, link>>
    BY <1>13 DEF EnterDetachBuffer, ReadExecuted
  <2>2. UNCHANGED <<calls["stack"], flag["stack"], executed["stack"], bufferStack, next, offset>>
    BY <2>1 DEF onceVars, poolVars
  <2>3. /\ LinksFree' /\ HeldOnce' /\ EmptyBuffers' /\ LinksRead' /\ Overtaken'
        /\ \A u \in Threads : Held(u)' = Held(u)
    BY <2>1, <2>2, OutsideStack DEF Pushing, Popping
  <2>4. to = "loadTop" => calls["stack"] # 0
    BY <1>c DEF FilledOnce
  <2>5. FilledOnce'
    BY <1>c, <2>1, <2>2, <2>3, <2>4, FilledStays DEF Popping
  <2>6. QED
    BY <2>2, <2>3, <2>5 DEF StackInv, HandsOver
<1>14. ASSUME NEW alignedSize \in 1..BufferSize, Bump(t, alignedSize) PROVE Goal
  <2>1. /\ Go(t, "bump", "idle")
        /\ UNCHANGED <<onceVars, bufferStack, next, scratchBuffer, buffer, link>>
        /\ offset' = offset \/ \E n : offset' = [offset EXCEPT ![scratchBuffer[t]] = n]
    BY <1>14 DEF Bump
  <2>2. UNCHANGED <<calls["stack"], flag["stack"], executed["stack"]>>
    BY <2>1 DEF onceVars
  <2>3. scratchBuffer[t] # NULL
    BY <2>1 DEF Go, IInv, Located
  <2>4. /\ LinksFree' /\ HeldOnce' /\ EmptyBuffers' /\ LinksRead' /\ Overtaken'
        /\ \A u \in Threads : Held(u)' = Held(u)
    BY <2>1, <2>2, <2>3, OutsideStack DEF Pushing, Popping, Detaching
  <2>5. FilledOnce'
    BY <1>c, <2>1, <2>2, <2>4, FilledStays DEF Popping
  <2>6. QED
    BY <2>2, <2>4, <2>5 DEF StackInv, HandsOver
<1>15. CASE GiveUpBuffer(t)
  <2>1. calls'["stack"] = calls["stack"]
    BY <1>15 DEF GiveUpBuffer, onceVars
  <2>2. QED
    BY <1>15, <2>1, GivesUp DEF HandsOver
<1>16. QED
  BY <1>1, <1>2, <1>3, <1>4, <1>5, <1>6, <1>7, <1>8, <1>9, <1>10, <1>11, <1>12, <1>13, <1>14, <1>15
  DEF Step, TryLazyInitializeBufferStack, DetachBuffer, RecycleBuffer
(* For two threads the invariant is inductive.                             *)
LEMMA SpecStackInv ==
  ASSUME AtMostTwo
  PROVE  Spec => [](IInv /\ StackInv)
<1>1. Init => IInv /\ StackInv
  BY InitIInv, InitStackInv
<1>2. IInv /\ StackInv /\ [Next]_vars => (IInv /\ StackInv)'
  <2> SUFFICES ASSUME IInv, StackInv, [Next]_vars PROVE StackInv'
    BY NextIInv
  <2>1. CASE Next
    BY <2>1, StackStep DEF Next
  <2>2. CASE UNCHANGED vars
    <3>1. \A t \in Threads : Held(t)' = Held(t)
      BY <2>2 DEF vars, Held
    <3>2. LinksFree'
      BY <2>2, <3>1, LinksStay DEF vars, StackInv
    <3>3. FilledOnce' /\ EmptyBuffers' /\ HeldOnce' /\ LinksRead' /\ Overtaken'
      BY <2>2, <3>1 DEF vars, StackInv, FilledOnce, EmptyBuffers, HeldOnce, LinksRead, Overtaken, Free
    <3>4. QED
      BY <3>2, <3>3 DEF StackInv
  <2>3. QED
    BY <2>1, <2>2
<1>3. QED
  BY <1>1, <1>2, PTL DEF Spec

(* The buffers that links reach, as Stacked computes them.                 *)
IsWalk(f) ==
  f = [n \in 0..PoolSize |->
         IF n = 0 THEN bufferStack
         ELSE IF f[n - 1] = NULL THEN NULL ELSE next[f[n - 1]]]

(* The walk of Stacked is a function that IsWalk describes.                *)
LEMMA StackedUnfolds ==
  Stacked = {(CHOOSE f : IsWalk(f))[n] : n \in 0..PoolSize} \ {NULL}
  BY DEF Stacked, IsWalk

(* No more buffers are linked than there are.                              *)
LEMMA LinkedFit ==
  ASSUME NEW s \in Seq(Buffers), IsLinked(s)
  PROVE  Len(s) <= PoolSize
<1>1. PICK l \in Nat : l = Len(s)
  OBVIOUS
<1>2. /\ IsFiniteSet(1..l) /\ Cardinality(1..l) = l
      /\ IsFiniteSet(1..PoolSize) /\ Cardinality(1..PoolSize) = PoolSize
  <2>1. \A n \in Nat : IsFiniteSet(1..n) /\ Cardinality(1..n) = IF 1 > n THEN 0 ELSE n - 1 + 1
    BY FS_Interval
  <2>2. \A n \in Nat : (IF 1 > n THEN 0 ELSE n - 1 + 1) = n
    OBVIOUS
  <2>3. PoolSize \in Nat
    BY PoolAssumption
  <2>4. QED
    BY <2>1, <2>2, <2>3
<1>3. SUFFICES ASSUME PoolSize < l PROVE FALSE
  BY <1>1, PoolAssumption
<1>4. s \in [1..l -> 1..PoolSize]
  BY <1>1, LenProperties DEF Buffers
<1>5. \E x, y \in 1..l : x # y /\ s[x] = s[y]
  BY <1>2, <1>3, <1>4, FS_PigeonHole
<1>6. QED
  BY <1>1, <1>5 DEF IsLinked

(* The walk goes along s, and ends.                                        *)
LEMMA WalksAlong ==
  ASSUME NEW s \in Seq(Buffers), IsLinked(s)
  PROVE  /\ \E f : IsWalk(f)
         /\ \A f : IsWalk(f) => \A n \in 0..PoolSize : f[n] = IF n < Len(s) THEN s[n + 1] ELSE NULL
<1>1. PICK l \in Nat : l = Len(s) /\ l <= PoolSize
  BY LinkedFit
<1>2. PICK p \in Nat : p = PoolSize
  BY PoolAssumption
<1>3. /\ bufferStack = IF l = 0 THEN NULL ELSE s[1]
      /\ \A i \in 1..l : s[i] # NULL /\ next[s[i]] = IF i = l THEN NULL ELSE s[i + 1]
  <2>1. \A i \in 1..l : s[i] \in Buffers
    BY <1>1
  <2>2. \A b \in Buffers : b # NULL
    BY DEF Buffers, NULL
  <2>3. QED
    BY <1>1, <2>1, <2>2 DEF IsLinked
<1> DEFINE At(n) == IF n < l THEN s[n + 1] ELSE NULL
<1>4. ASSUME NEW n \in 0..p, n # 0
      PROVE  At(n) = IF At(n - 1) = NULL THEN NULL ELSE next[At(n - 1)]
  <2>1. CASE n - 1 < l
    <3>1. n \in 1..l /\ At(n - 1) = s[n]
      BY <1>4, <2>1
    <3>2. n = l <=> ~(n < l)
      BY <3>1
    <3>3. QED
      BY <1>3, <3>1, <3>2
  <2>2. CASE ~(n - 1 < l)
    <3>1. ~(n < l)
      BY <1>4, <2>2
    <3>2. QED
      BY <2>2, <3>1
  <2>3. QED
    BY <2>1, <2>2
<1>5. At(0) = bufferStack
  <2>1. 0 < l <=> l # 0
    OBVIOUS
  <2>2. QED
    BY <1>3, <2>1
<1>6. \E f : IsWalk(f)
  <2> DEFINE g == [n \in 0..p |-> At(n)]
  <2>1. \A n \in 0..p : n # 0 => n - 1 \in 0..p
    OBVIOUS
  <2>2. \A n \in 0..p : g[n] = IF n = 0 THEN bufferStack
                               ELSE IF g[n - 1] = NULL THEN NULL ELSE next[g[n - 1]]
    <3> HIDE DEF At
    <3>1. \A n \in 0..p : g[n] = At(n)
      OBVIOUS
    <3>2. QED
      BY <1>4, <1>5, <2>1, <3>1
  <2>3. IsWalk(g)
    <3> HIDE DEF At
    <3>1. g = [n \in 0..p |-> IF n = 0 THEN bufferStack
                              ELSE IF g[n - 1] = NULL THEN NULL ELSE next[g[n - 1]]]
      <4> g = [n \in 0..p |-> g[n]]
        OBVIOUS
      <4> HIDE DEF g
      <4> QED
        BY <2>2
    <3>2. QED
      BY <1>2, <3>1 DEF IsWalk
  <2>4. QED
    BY <2>3
<1>7. ASSUME NEW f, IsWalk(f) PROVE \A n \in 0..PoolSize : f[n] = At(n)
  <2> HIDE DEF At
  <2> DEFINE T == {n \in 0..p : f[n] = At(n)}
  <2>1. \A n \in 0..p : f[n] = IF n = 0 THEN bufferStack
                               ELSE IF f[n - 1] = NULL THEN NULL ELSE next[f[n - 1]]
    BY <1>2, <1>7 DEF IsWalk
  <2>2. 0 \in 0..p
    OBVIOUS
  <2>3. 0 \in T
    BY <1>5, <2>1, <2>2
  <2>4. ASSUME NEW k \in 0..(p - 1), k \in T PROVE k + 1 \in T
    <3>1. k + 1 \in 0..p /\ k + 1 # 0 /\ (k + 1) - 1 = k
      OBVIOUS
    <3>2. f[k] = At(k)
      BY <2>4
    <3>3. f[k + 1] = IF f[k] = NULL THEN NULL ELSE next[f[k]]
      BY <2>1, <3>1
    <3>4. At(k + 1) = IF At(k) = NULL THEN NULL ELSE next[At(k)]
      BY <1>4, <3>1
    <3>5. QED
      BY <3>1, <3>2, <3>3, <3>4
  <2> HIDE DEF T
  <2>5. \A k \in 0..p : k \in T
    BY <2>3, <2>4, Numbers!UpToInduction
  <2>6. QED
    BY <1>2, <2>5 DEF T
<1>8. QED
  BY <1>1, <1>6, <1>7

(* The buffers that nobody has.                                            *)
FreeBuffers == {b \in Buffers : Free(b)}

(* What is on the stack is what nobody has.                                *)
LEMMA StackedAreFree ==
  ASSUME LinksFree
  PROVE  Stacked = FreeBuffers
<1>1. PICK s \in Seq(Buffers) :
        /\ IsLinked(s)
        /\ \A b \in Buffers : (\E i \in 1..Len(s) : s[i] = b) <=> Free(b)
  BY DEF LinksFree
<1>2. PICK l \in Nat : l = Len(s) /\ l <= PoolSize
  BY <1>1, LinkedFit
<1>3. PICK f : IsWalk(f) /\ f = CHOOSE g : IsWalk(g)
  BY <1>1, WalksAlong
<1>4. \A n \in 0..PoolSize : f[n] = IF n < l THEN s[n + 1] ELSE NULL
  BY <1>1, <1>2, <1>3, WalksAlong
<1>5. Stacked = {f[n] : n \in 0..PoolSize} \ {NULL}
  BY <1>3, StackedUnfolds
<1>6. ASSUME NEW b \in Stacked PROVE b \in FreeBuffers
  <2>1. PICK n \in 0..PoolSize : b = f[n] /\ b # NULL
    BY <1>5
  <2>2. n < l /\ b = s[n + 1]
    BY <1>4, <2>1
  <2>3. n + 1 \in 1..Len(s)
    BY <1>2, <2>2, PoolAssumption
  <2>4. b \in Buffers
    BY <2>2, <2>3
  <2>5. QED
    BY <1>1, <2>2, <2>3, <2>4 DEF FreeBuffers
<1>7. ASSUME NEW b \in FreeBuffers PROVE b \in Stacked
  <2>1. PICK i \in 1..Len(s) : s[i] = b
    BY <1>1 DEF FreeBuffers
  <2>2. i - 1 \in 0..PoolSize /\ i - 1 < l /\ (i - 1) + 1 = i
    BY <1>2, PoolAssumption
  <2>3. f[i - 1] = b
    BY <1>4, <2>1, <2>2
  <2>4. b # NULL
    BY DEF FreeBuffers, Buffers, NULL
  <2>5. QED
    BY <1>5, <2>2, <2>3, <2>4
<1>8. QED
  BY <1>6, <1>7

(* Two threads never find a buffer on the stack with something allocated   *)
(* in it, however their pops and pushes overtake each other.               *)
THEOREM SpecStackedAreEmpty ==
  ASSUME AtMostTwo
  PROVE  Spec => []StackedAreEmpty
<1>1. IInv /\ StackInv => StackedAreEmpty
  BY StackedAreFree DEF StackInv, EmptyBuffers, FreeBuffers, StackedAreEmpty
<1>2. QED
  BY <1>1, SpecStackInv, PTL

(* Two threads never allocate from the same buffer: the ABA of the pop     *)
(* takes a third thread.                                                   *)
THEOREM SpecExclusiveBuffers ==
  ASSUME AtMostTwo
  PROVE  Spec => []ExclusiveBuffers
<1>1. IInv /\ StackInv => ExclusiveBuffers
  <2> SUFFICES ASSUME IInv, StackInv, NEW t \in Threads, NEW u \in Threads, t # u, scratchBuffer[t] # NULL
               PROVE  scratchBuffer[t] # scratchBuffer[u]
    BY DEF ExclusiveBuffers
  <2>1. pc[t] \notin Pushing
    BY DEF StackInv, LinksRead
  <2>2. Held(t) = scratchBuffer[t]
    BY <2>1 DEF Held, Pushing
  <2>3. scratchBuffer[u] # NULL => Held(u) = scratchBuffer[u]
    BY DEF StackInv, LinksRead, Held, Pushing
  <2>4. QED
    BY <2>2, <2>3 DEF StackInv, HeldOnce
<1>2. QED
  BY <1>1, SpecStackInv, PTL

(* What is handed over is a step of the abstract pool.                     *)
LEMMA PoolStep ==
  ASSUME Stacked = FreeBuffers, Stacked' = FreeBuffers', HeldOnce, HandsOver
  PROVE  [Pool!Next]_(Pool!vars)
<1> DEFINE held == [t \in Threads |-> Held(t)]
<1>a. NULL \notin Buffers
  BY DEF NULL, Buffers
<1>1. CASE calls'["stack"] = calls["stack"] /\ \A u \in Threads : Held(u)' = Held(u)
  <2>1. held' = held /\ FreeBuffers' = FreeBuffers
    BY <1>1 DEF FreeBuffers, Free
  <2>2. QED
    BY <2>1 DEF Pool!vars
<1>2. CASE /\ calls["stack"] = 0 /\ calls'["stack"] # 0
           /\ \A u \in Threads : Held(u) = NULL /\ Held(u)' = NULL
  <2>1. FreeBuffers = {} /\ FreeBuffers' = Buffers
    BY <1>a, <1>2 DEF FreeBuffers, Free
  <2>2. held' = held /\ \A t \in Threads : held[t] = NULL
    BY <1>2
  <2>3. Pool!Fill
    BY <2>1, <2>2 DEF Pool!Fill
  <2>4. QED
    BY <2>3 DEF Pool!Next
<1>3. ASSUME calls'["stack"] = calls["stack"], NEW t \in Threads, NEW b \in Buffers,
             Held(t) = NULL, Free(b), \A u \in Threads : Held(u)' = IF u = t THEN b ELSE Held(u)
      PROVE  [Pool!Next]_(Pool!vars)
  <2>1. held' = [held EXCEPT ![t] = b] /\ held[t] = NULL
    BY <1>3
  <2>2. b \in FreeBuffers /\ FreeBuffers' = FreeBuffers \ {b}
    BY <1>a, <1>3 DEF FreeBuffers, Free
  <2>3. Pool!Detach(t)
    BY <2>1, <2>2 DEF Pool!Detach
  <2>4. QED
    BY <2>3 DEF Pool!Next
<1>4. ASSUME calls'["stack"] = calls["stack"], calls["stack"] # 0, NEW t \in Threads, Held(t) \in Buffers,
             \A u \in Threads : Held(u)' = IF u = t THEN NULL ELSE Held(u)
      PROVE  [Pool!Next]_(Pool!vars)
  <2>1. held' = [held EXCEPT ![t] = NULL] /\ held[t] = Held(t) /\ held[t] # NULL
    BY <1>a, <1>4
  <2>2. FreeBuffers' = FreeBuffers \cup {Held(t)}
    BY <1>a, <1>4 DEF FreeBuffers, Free, HeldOnce
  <2>3. Pool!Recycle(t)
    BY <2>1, <2>2 DEF Pool!Recycle
  <2>4. QED
    BY <2>3 DEF Pool!Next
<1>5. QED
  BY <1>1, <1>2, <1>3, <1>4 DEF HandsOver

(* For two threads, the stack refines the pool: a step hands over one      *)
(* whole buffer or none, and what is on the stack is what nobody has.      *)
THEOREM SpecImplementsPool ==
  ASSUME AtMostTwo
  PROVE  Spec => ImplementsPool
<1>1. Init => Pool!Init
  <2> SUFFICES ASSUME Init PROVE Pool!Init
    OBVIOUS
  <2>1. \A t \in Threads : Held(t) = NULL
    BY DEF Init, Held
  <2>2. Stacked = FreeBuffers
    BY InitStackInv, StackedAreFree DEF StackInv
  <2>3. calls["stack"] = 0
    BY DEF Init, Onces
  <2>4. Stacked = {}
    BY <2>2, <2>3 DEF FreeBuffers, Free
  <2>5. QED
    BY <2>1, <2>4 DEF Pool!Init
<1>2. IInv /\ StackInv => Stacked = FreeBuffers
  BY StackedAreFree DEF StackInv
<1>3. IInv /\ StackInv /\ Stacked = FreeBuffers /\ (Stacked = FreeBuffers)' /\ [Next]_vars
        => [Pool!Next]_(Pool!vars)
  <2> SUFFICES ASSUME IInv, StackInv, Stacked = FreeBuffers, Stacked' = FreeBuffers', [Next]_vars
               PROVE  [Pool!Next]_(Pool!vars)
    OBVIOUS
  <2>1. HandsOver
    <3>1. CASE Next
      BY <3>1, StackStep DEF Next
    <3>2. CASE UNCHANGED vars
      BY <3>2 DEF vars, Held, HandsOver
    <3>3. QED
      BY <3>1, <3>2
  <2>2. QED
    BY <2>1, PoolStep DEF StackInv
<1>4. QED
  BY <1>1, <1>2, <1>3, SpecStackInv, PTL DEF Spec, ImplementsPool, Pool!Spec
=============================================================================
