----------------------------- MODULE ScratchPool -----------------------------
(***************************************************************************)
(* The scratch memory of Source/API/SBAllocator.c: a pool of buffers on a  *)
(* lock-free stack, a thread-local buffer per thread, and two lazy         *)
(* initialisations guarded by Once.  A thread allocates from its buffer,   *)
(* detaching one from the stack when it has none, and a reset recycles it. *)
(* One action is one access to memory that threads share.                  *)
(***************************************************************************)
EXTENDS Integers

CONSTANTS
  Threads,
  PoolSize,       (* SB_CONFIG_SCRATCH_POOL_SIZE                          *)
  BufferSize      (* SB_CONFIG_SCRATCH_BUFFER_SIZE, in aligned words      *)

ASSUME PoolAssumption ==
  PoolSize \in Nat \ {0} /\ BufferSize \in Nat \ {0}

NULL == 0
Buffers == 1..PoolSize    (* positions in BufferPool, from 1              *)

Onces == {"scratch", "stack"}

VARIABLES
  executed,       (* of each Once                                         *)
  flag,           (* of each Once                                         *)
  calls,          (* how often the function of each Once has completed    *)
  bufferStack,    (* BufferStack                                          *)
  next,           (* buffer->next                                         *)
  offset,         (* buffer->offset                                       *)
  scratchBuffer,  (* ScratchBuffer, the thread-local storage              *)
  pc,             (* what each thread does next                           *)
  resetting,      (* threads in NativeResetScratch                        *)
  buffer,         (* the local variable buffer                            *)
  link,           (* DetachBuffer: the buffer->next passed to the CAS;    *)
                  (* RecycleBuffer: the local variable top                *)
  synced          (* threads that have loaded BufferStack as initialised  *)

onceVars == <<executed, flag, calls>>
poolVars == <<bufferStack, next, offset>>
vars == <<executed, flag, calls, bufferStack, next, offset, scratchBuffer,
          pc, resetting, buffer, link, synced>>

Locations ==
  {"idle", "failed", "scratchUnset", "scratchRunning", "scratchDone", "getBuffer",
   "stackUnset", "stackRunning", "stackDone", "stackFailed",
   "loadTop", "readNext", "popTop", "bump", "readTop", "writeNext", "pushTop"}

Init ==
  /\ executed = [o \in Onces |-> FALSE]
  /\ flag = [o \in Onces |-> FALSE]
  /\ calls = [o \in Onces |-> 0]
  /\ bufferStack = NULL
  /\ next = [b \in Buffers |-> NULL]
  /\ offset = [b \in Buffers |-> 0]
  /\ scratchBuffer = [t \in Threads |-> NULL]
  /\ pc = [t \in Threads |-> "idle"]
  /\ resetting = {}
  /\ buffer = [t \in Threads |-> NULL]
  /\ link = [t \in Threads |-> NULL]
  /\ synced = {}

Go(t, from, to) == pc[t] = from /\ pc' = [pc EXCEPT ![t] = to]

-----------------------------------------------------------------------------
(* OnceTryExecute, for either Once; done is where a success leads.         *)

ReadExecuted(t, o, from, unset, done) ==
  /\ Go(t, from, IF executed[o] THEN done ELSE unset)
  /\ UNCHANGED <<onceVars, poolVars, scratchBuffer, buffer, link, synced>>

IgnoresFlag(t, o, unset, running, failed) ==
  /\ Go(t, unset, running)
  /\ flag' = [flag EXCEPT ![o] = TRUE]
  /\ UNCHANGED <<executed, calls, poolVars, scratchBuffer, resetting, buffer, link, synced>>

TestAndSet(t, o, unset, running, failed) ==
  /\ Go(t, unset, IF flag[o] THEN failed ELSE running)
  /\ flag' = [flag EXCEPT ![o] = TRUE]
  /\ UNCHANGED <<executed, calls, poolVars, scratchBuffer, resetting, buffer, link, synced>>

SetExecuted(t, o, from, done) ==
  /\ Go(t, from, done)
  /\ executed' = [executed EXCEPT ![o] = TRUE]
  /\ UNCHANGED <<flag, calls, poolVars, scratchBuffer, resetting, buffer, link, synced>>

(* ThreadLocalStorageInitialize: the compiler's thread-local variable is   *)
(* set, of the calling thread only.                                        *)
InitializeScratchBuffer(t) ==
  /\ Go(t, "scratchRunning", "scratchDone")
  /\ calls' = [calls EXCEPT !["scratch"] = @ + 1]
  /\ scratchBuffer' = [scratchBuffer EXCEPT ![t] = NULL]
  /\ UNCHANGED <<executed, flag, poolVars, resetting, buffer, link, synced>>

(* No thread reaches a buffer before BufferStack is stored, so linking     *)
(* them and storing it are one step.                                       *)
InitializeBufferStack(t) ==
  /\ Go(t, "stackRunning", "stackDone")
  /\ calls' = [calls EXCEPT !["stack"] = @ + 1]
  /\ next' = [b \in Buffers |-> IF b < PoolSize THEN b + 1 ELSE NULL]
  /\ offset' = [b \in Buffers |-> 0]
  /\ bufferStack' = 1
  /\ synced' = synced \cup {t}
  /\ UNCHANGED <<executed, flag, scratchBuffer, resetting, buffer, link>>

TryLazyInitializeScratchBuffer(t) ==
  \/ TestAndSet(t, "scratch", "scratchUnset", "scratchRunning", "failed")
  \/ InitializeScratchBuffer(t)
  \/ SetExecuted(t, "scratch", "scratchDone", "getBuffer")

TryLazyInitializeBufferStack(t) ==
  \/ TestAndSet(t, "stack", "stackUnset", "stackRunning", "stackFailed")
  \/ InitializeBufferStack(t)
  \/ SetExecuted(t, "stack", "stackDone", "loadTop")

-----------------------------------------------------------------------------
(* DetachBuffer                                                            *)

(* A thread that has only seen the plain executed may still load the NULL  *)
(* that BufferStack had before it was initialised.                         *)
LoadTop(t) ==
  \E top \in {bufferStack} \cup (IF t \in synced THEN {} ELSE {NULL}) :
    /\ Go(t, "loadTop", IF top = NULL THEN "idle" ELSE "readNext")
    /\ buffer' = [buffer EXCEPT ![t] = top]
    /\ synced' = IF top = bufferStack THEN synced \cup {t} ELSE synced
    /\ UNCHANGED <<onceVars, poolVars, scratchBuffer, resetting, link>>

(* buffer->next is read before the exchange; another thread may own buffer *)
(* by now and write to it.                                                 *)
ReadNext(t) ==
  /\ Go(t, "readNext", "popTop")
  /\ link' = [link EXCEPT ![t] = next[buffer[t]]]
  /\ UNCHANGED <<onceVars, poolVars, scratchBuffer, resetting, buffer, synced>>

PopsUnchecked(t) ==
  /\ Go(t, "popTop", "bump")
  /\ bufferStack' = link[t]
  /\ scratchBuffer' = [scratchBuffer EXCEPT ![t] = buffer[t]]
  /\ UNCHANGED <<onceVars, next, offset, resetting, buffer, link, synced>>

PopTop(t) ==
  \/ /\ bufferStack = buffer[t]
     /\ Go(t, "popTop", "bump")
     /\ bufferStack' = link[t]
     /\ scratchBuffer' = [scratchBuffer EXCEPT ![t] = buffer[t]]
     /\ UNCHANGED <<onceVars, next, offset, resetting, buffer, link, synced>>
  \/ /\ bufferStack # buffer[t]
     /\ Go(t, "popTop", "loadTop")
     /\ UNCHANGED <<onceVars, poolVars, scratchBuffer, resetting, buffer, link, synced>>

DetachBuffer(t) == LoadTop(t) \/ ReadNext(t) \/ PopTop(t)

-----------------------------------------------------------------------------
(* RecycleBuffer                                                           *)

ReadTop(t) ==
  /\ Go(t, "readTop", "writeNext")
  /\ link' = [link EXCEPT ![t] = bufferStack]
  /\ synced' = synced \cup {t}
  /\ UNCHANGED <<onceVars, poolVars, scratchBuffer, resetting, buffer>>

WriteNext(t) ==
  /\ Go(t, "writeNext", "pushTop")
  /\ next' = [next EXCEPT ![buffer[t]] = link[t]]
  /\ UNCHANGED <<onceVars, bufferStack, offset, scratchBuffer, resetting, buffer, link, synced>>

RetriesStale(t) ==
  \/ /\ bufferStack = link[t]
     /\ Go(t, "pushTop", "idle")
     /\ bufferStack' = buffer[t]
     /\ UNCHANGED <<onceVars, next, offset, scratchBuffer, resetting, buffer, link, synced>>
  \/ /\ bufferStack # link[t]
     /\ Go(t, "pushTop", "writeNext")
     /\ UNCHANGED <<onceVars, poolVars, scratchBuffer, resetting, buffer, link, synced>>

PushTop(t) ==
  \/ /\ bufferStack = link[t]
     /\ Go(t, "pushTop", "idle")
     /\ bufferStack' = buffer[t]
     /\ UNCHANGED <<onceVars, next, offset, scratchBuffer, resetting, buffer, link, synced>>
  \/ /\ bufferStack # link[t]
     /\ Go(t, "pushTop", "readTop")
     /\ UNCHANGED <<onceVars, poolVars, scratchBuffer, resetting, buffer, link, synced>>

RecycleBuffer(t) == ReadTop(t) \/ WriteNext(t) \/ PushTop(t)

-----------------------------------------------------------------------------
(* The client's calls, NativeAllocateScratch and NativeResetScratch, begin *)
(* with the first read of TryLazyInitializeScratchBuffer.                  *)

AlwaysContends(t, reset) ==
  /\ Go(t, "idle", "scratchUnset")
  /\ resetting' = IF reset THEN resetting \cup {t} ELSE resetting \ {t}
  /\ UNCHANGED <<onceVars, poolVars, scratchBuffer, buffer, link, synced>>

Call(t, reset) ==
  /\ ReadExecuted(t, "scratch", "idle", "scratchUnset", "getBuffer")
  /\ resetting' = IF reset THEN resetting \cup {t} ELSE resetting \ {t}

(* NativeAllocateScratch: use the thread's buffer or enter DetachBuffer.   *)
UseOwnBuffer(t) ==
  /\ t \notin resetting /\ scratchBuffer[t] # NULL
  /\ Go(t, "getBuffer", "bump")
  /\ UNCHANGED <<onceVars, poolVars, scratchBuffer, resetting, buffer, link, synced>>

EnterDetachBuffer(t) ==
  /\ t \notin resetting /\ scratchBuffer[t] = NULL
  /\ ReadExecuted(t, "stack", "getBuffer", "stackUnset", "loadTop")
  /\ UNCHANGED resetting

BumpsUnchecked(t, alignedSize) ==
  /\ Go(t, "bump", "idle")
  /\ offset' = [offset EXCEPT ![scratchBuffer[t]] = @ + alignedSize]
  /\ UNCHANGED <<onceVars, bufferStack, next, scratchBuffer, resetting, buffer, link, synced>>

(* The request is granted if it fits, and refused otherwise.               *)
Bump(t, alignedSize) ==
  LET b == scratchBuffer[t] IN
  /\ Go(t, "bump", "idle")
  /\ offset' = IF offset[b] + alignedSize <= BufferSize
               THEN [offset EXCEPT ![b] = @ + alignedSize] ELSE offset
  /\ UNCHANGED <<onceVars, bufferStack, next, scratchBuffer, resetting, buffer, link, synced>>

(* NativeResetScratch without a buffer, and with one up to the loop of     *)
(* RecycleBuffer.                                                          *)
NothingToReset(t) ==
  /\ t \in resetting /\ scratchBuffer[t] = NULL
  /\ Go(t, "getBuffer", "idle")
  /\ UNCHANGED <<onceVars, poolVars, scratchBuffer, resetting, buffer, link, synced>>

KeepsOffset(t) ==
  /\ t \in resetting /\ scratchBuffer[t] # NULL
  /\ Go(t, "getBuffer", "readTop")
  /\ buffer' = [buffer EXCEPT ![t] = scratchBuffer[t]]
  /\ scratchBuffer' = [scratchBuffer EXCEPT ![t] = NULL]
  /\ UNCHANGED <<onceVars, poolVars, resetting, link, synced>>

GiveUpBuffer(t) ==
  /\ t \in resetting /\ scratchBuffer[t] # NULL
  /\ Go(t, "getBuffer", "readTop")
  /\ buffer' = [buffer EXCEPT ![t] = scratchBuffer[t]]
  /\ offset' = [offset EXCEPT ![scratchBuffer[t]] = 0]
  /\ scratchBuffer' = [scratchBuffer EXCEPT ![t] = NULL]
  /\ UNCHANGED <<onceVars, bufferStack, next, resetting, link, synced>>

(* An initialisation is under way elsewhere: no scratch memory this time.  *)
ReturnNull(t) ==
  /\ Go(t, "failed", "idle") \/ Go(t, "stackFailed", "idle")
  /\ UNCHANGED <<onceVars, poolVars, scratchBuffer, resetting, buffer, link, synced>>

(* The steps of a call that has begun.                                     *)
Step(t) ==
  \/ TryLazyInitializeScratchBuffer(t)
  \/ TryLazyInitializeBufferStack(t)
  \/ DetachBuffer(t)
  \/ RecycleBuffer(t)
  \/ UseOwnBuffer(t)
  \/ EnterDetachBuffer(t)
  \/ \E alignedSize \in 1..BufferSize : Bump(t, alignedSize)
  \/ NothingToReset(t)
  \/ GiveUpBuffer(t)
  \/ ReturnNull(t)

Next == \E t \in Threads : Step(t) \/ (\E reset \in BOOLEAN : Call(t, reset))

(* The operating system keeps running a thread that is inside a call; no   *)
(* thread has to make one.                                                 *)
Fairness == \A t \in Threads : WF_vars(Step(t))

Spec == Init /\ [][Next]_vars

FairSpec == Spec /\ Fairness

-----------------------------------------------------------------------------
(* Properties.                                                             *)

TypeOK ==
  /\ executed \in [Onces -> BOOLEAN] /\ flag \in [Onces -> BOOLEAN]
  /\ calls \in [Onces -> Nat]
  /\ bufferStack \in Buffers \cup {NULL}
  /\ next \in [Buffers -> Buffers \cup {NULL}]
  /\ offset \in [Buffers -> 0..BufferSize]
  /\ scratchBuffer \in [Threads -> Buffers \cup {NULL}]
  /\ pc \in [Threads -> Locations]
  /\ resetting \subseteq Threads /\ synced \subseteq Threads
  /\ buffer \in [Threads -> Buffers \cup {NULL}]
  /\ link \in [Threads -> Buffers \cup {NULL}]

(* The buffers linked from BufferStack, following at most PoolSize links.  *)
Stacked ==
  LET reached[n \in 0..PoolSize] ==
        IF n = 0 THEN bufferStack
        ELSE IF reached[n - 1] = NULL THEN NULL ELSE next[reached[n - 1]]
  IN  {reached[n] : n \in 0..PoolSize} \ {NULL}

(* A thread has the buffer of its thread-local storage, and the one that   *)
(* it is about to push.                                                    *)
Held(t) ==
  IF pc[t] \in {"readTop", "writeNext", "pushTop"} THEN buffer[t] ELSE scratchBuffer[t]

(* Every step on the stack, seen from outside, hands over one whole buffer *)
(* or nothing: none is lost, duplicated or handed out while in use.        *)
Pool == INSTANCE BufferPool WITH free <- Stacked, held <- [t \in Threads |-> Held(t)]
ImplementsPool == Pool!Spec

(* No two threads allocate from the same buffer (DetachBuffer).            *)
ExclusiveBuffers ==
  \A t, u \in Threads : t # u /\ scratchBuffer[t] # NULL =>
    scratchBuffer[t] # scratchBuffer[u]

(* Where a thread is in each OnceTryExecute.                               *)
AtScratchOnce(location) ==
  CASE location = "idle"           -> "outside"
    [] location = "scratchUnset"   -> "unset"
    [] location = "scratchRunning" -> "running"
    [] location = "scratchDone"    -> "done"
    [] location = "failed"         -> "failed"
    [] OTHER                       -> "succeeded"

AtStackOnce(location) ==
  CASE location = "stackUnset"     -> "unset"
    [] location = "stackRunning"   -> "running"
    [] location = "stackDone"      -> "done"
    [] location = "stackFailed"    -> "failed"
    [] location \in {"loadTop", "readNext", "popTop"} -> "succeeded"
    [] OTHER                       -> "outside"

ScratchOnce == INSTANCE Once WITH
  executed <- executed["scratch"], flag <- flag["scratch"],
  calls <- calls["scratch"], at <- [t \in Threads |-> AtScratchOnce(pc[t])]

StackOnce == INSTANCE Once WITH
  executed <- executed["stack"], flag <- flag["stack"],
  calls <- calls["stack"], at <- [t \in Threads |-> AtStackOnce(pc[t])]

(* The two lazy initialisations, nested and interleaved as the allocator   *)
(* does it, each follow the protocol of Once, so that what is proved of    *)
(* Once holds of both.                                                     *)
ImplementsOnce == ScratchOnce!Spec /\ StackOnce!Spec

(* A buffer goes back to the stack with nothing allocated in it.           *)
StackedAreEmpty == \A b \in Stacked : offset[b] = 0

(* OnceTryExecute may refuse a call, but never the reset of a thread that  *)
(* has a buffer, which would then never be recycled.                       *)
HolderIsServed == \A t \in Threads : pc[t] = "failed" => scratchBuffer[t] = NULL

(* A thread's call ends when the others stop making calls: neither retry   *)
(* loop can spin on a value of its own.                                    *)
EndsAlone ==
  \A t \in Threads :
    <>[](\A u \in Threads \ {t} : pc[u] = "idle") => []<>(pc[t] = "idle")
=============================================================================
