---------------------------- MODULE MCConcurrency ----------------------------
(***************************************************************************)
(* The two primitives of src/utils/concurrency.ts for TLC, side by side:   *)
(* they share nothing, so each step is a step of one of them.              *)
(***************************************************************************)
EXTENDS Mutex

CONSTANTS Client, Max

VARIABLES available, queue, holders

Sem == INSTANCE Semaphore

semaphoreVars == <<available, queue, holders>>

Start == Init /\ Sem!Init

Step ==
  \/ Next /\ UNCHANGED semaphoreVars
  \/ Sem!Next /\ UNCHANGED mutexVars

Primitives ==
  /\ Start
  /\ [][Step]_<<mutexVars, semaphoreVars>>
  /\ Fairness /\ Sem!Fairness

\* Types of the variables of both.
PrimitivesTypeOK == TypeOK /\ Sem!TypeOK

\* The semaphore counts right, keeps no slot idle and queues nobody twice.
SemaphoreSound == Sem!CounterAgrees /\ Sem!QueueSound

\* The semaphore is a FIFO resource of Max units that serves who waits.
SemaphoreIsFifo == Sem!ImplementsFifoResource

\* Every queued acquire() of the semaphore is eventually resolved.
SemaphoreServes == Sem!WaiterServed
=============================================================================
