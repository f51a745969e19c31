-------------------------- MODULE ConcurrencyProofs --------------------------
(***************************************************************************)
(* What MutexProofs and SemaphoreProofs show of the two primitives of      *)
(* src/utils/concurrency.ts holds of both side by side, as TLC runs them   *)
(* (MCConcurrency): a step of one leaves the other alone.                  *)
(***************************************************************************)
EXTENDS MCConcurrency, MutexProofs

Cap == INSTANCE SemaphoreProofs

Both == IInv /\ Cap!IInv

\* The instance of Semaphore in MCConcurrency is the one proved about.
LEMMA SameSemaphore ==
  /\ Sem!Init = Cap!Init
  /\ Sem!Next => Cap!Next
  /\ Cap!IInv => Sem!TypeOK /\ Sem!CounterAgrees /\ Sem!QueueSound
<1>1. Sem!Init = Cap!Init
  BY DEF Sem!Init, Cap!Init
<1>2. Sem!Next => Cap!Next
  <2> SUFFICES ASSUME NEW c \in Client,
                      \/ c \notin holders /\ ~Sem!Queued(c) /\ Sem!Acquire(c)
                      \/ c \in holders /\ Sem!Release(c)
               PROVE  \/ c \notin holders /\ ~Cap!Queued(c) /\ Cap!Acquire(c)
                      \/ c \in holders /\ Cap!Release(c)
    BY Zenon DEF Sem!Next, Cap!Next
  <2>1. Sem!Queued(c) = Cap!Queued(c)
    BY DEF Sem!Queued, Cap!Queued
  <2>2. Sem!Acquire(c) => Cap!Acquire(c)
    BY DEF Sem!Acquire, Sem!AcquireNow, Sem!AcquireLater, Cap!Acquire, Cap!AcquireNow,
           Cap!AcquireLater
  <2>3. Sem!Release(c) => Cap!Release(c)
    BY DEF Sem!Release, Cap!Release
  <2> QED
    BY <2>1, <2>2, <2>3
<1>3. \A S : Sem!Cardinality(S) = Cap!Cardinality(S)
  BY Zenon DEF Sem!Cardinality, Cap!Cardinality
<1>4. Cap!IInv => Sem!TypeOK /\ Sem!CounterAgrees /\ Sem!QueueSound
  BY <1>3 DEF Cap!IInv, Cap!TypeOK, Cap!CounterAgrees, Cap!QueueSound, Sem!TypeOK,
              Sem!CounterAgrees, Sem!QueueSound
<1> QED
  BY <1>1, <1>2, <1>4

LEMMA StartBoth ==
  ASSUME Max \in Nat
  PROVE  Start => Both
<1>1. Cap!Init => Cap!IInv
  BY Cap!InitIInv
<1> QED
  BY <1>1, InitIInv, SameSemaphore DEF Start, Both

LEMMA StepBoth ==
  ASSUME Max \in Nat
  PROVE  Both /\ [Step]_<<mutexVars, semaphoreVars>> => Both'
<1> SUFFICES ASSUME Both, [Step]_<<mutexVars, semaphoreVars>>
             PROVE  Both'
  OBVIOUS
<1>1. [Next]_mutexVars
  BY DEF Step
<1>2. Cap!Next \/ UNCHANGED semaphoreVars
  BY SameSemaphore DEF Step
<1>3. [Cap!Next]_(Cap!semVars)
  BY <1>2 DEF Cap!semVars, semaphoreVars
<1>4. Cap!IInv'
  BY <1>3, Cap!NextIInv DEF Both
<1> QED
  BY <1>1, <1>4, NextIInv DEF Both

LEMMA BothInvariance ==
  ASSUME Max \in Nat
  PROVE  Primitives => []Both
<1>1. Start => Both
  BY StartBoth
<1>2. Both /\ [Step]_<<mutexVars, semaphoreVars>> => Both'
  BY StepBoth
<1> QED
  BY <1>1, <1>2, PTL DEF Primitives

\* The variables of both primitives keep their types.
THEOREM PrimitivesTypeCorrect ==
  ASSUME Max \in Nat
  PROVE  Primitives => []PrimitivesTypeOK
<1>1. Both => PrimitivesTypeOK
  BY SameSemaphore DEF Both, IInv, PrimitivesTypeOK
<1> QED
  BY <1>1, BothInvariance, PTL

\* The semaphore hands out its slots and no more, leaves none idle while a
\* caller waits, and queues nobody twice, whatever the mutex does meanwhile.
THEOREM SemaphoreIsSound ==
  ASSUME Max \in Nat
  PROVE  Primitives => []SemaphoreSound
<1>1. Both => SemaphoreSound
  BY SameSemaphore DEF Both, SemaphoreSound
<1> QED
  BY <1>1, BothInvariance, PTL
=============================================================================
