--------------------------- MODULE SemaphoreProofs ---------------------------
(***************************************************************************)
(* Proofs about Semaphore, for any set of callers and any cap.  The code   *)
(* counts and queues but never records who owns a slot: that the counter   *)
(* stays right when release() raises it and the resolver it runs lowers it *)
(* again is an invariant of both, with the queue empty while slots remain. *)
(***************************************************************************)
EXTENDS Semaphore, FiniteSetTheorems, SequenceTheorems, TLAPS

IInv ==
  /\ TypeOK
  /\ IsFiniteSet(holders)
  /\ CounterAgrees
  /\ QueueSound

LEMMA InitIInv ==
  ASSUME Max \in Nat
  PROVE  Init => IInv
<1> SUFFICES ASSUME Init
             PROVE  IInv
  OBVIOUS
<1>1. TypeOK /\ QueueSound
  BY DEF Init, TypeOK, QueueSound
<1>2. IsFiniteSet(holders) /\ Cardinality(holders) = 0
  BY FS_EmptySet DEF Init
<1> QED
  BY <1>1, <1>2 DEF Init, IInv, CounterAgrees

\* acquire() of a client that neither owns a slot nor waits for one.
LEMMA AcquireIInv ==
  ASSUME Max \in Nat, IInv, NEW c \in Client, c \notin holders, ~Queued(c), Acquire(c)
  PROVE  IInv'
<1>1. CASE AcquireNow(c)
  <2>1. TypeOK' /\ QueueSound'
    BY <1>1 DEF AcquireNow, IInv, TypeOK, QueueSound, Queued
  <2>2. IsFiniteSet(holders)' /\ Cardinality(holders') = Cardinality(holders) + 1
    BY <1>1, FS_AddElement DEF AcquireNow, IInv
  <2>3. Cardinality(holders) \in Nat
    BY FS_CardinalityType DEF IInv
  <2> QED
    BY <1>1, <2>1, <2>2, <2>3 DEF AcquireNow, IInv, TypeOK, CounterAgrees
<1>2. CASE AcquireLater(c)
  <2>1. /\ available = 0 /\ available' = 0
        /\ queue' = Append(queue, c) /\ queue \in Seq(Client)
        /\ holders' = holders
    BY <1>2 DEF AcquireLater, IInv, TypeOK
  <2>2. TypeOK'
    BY <2>1 DEF IInv, TypeOK
  <2>3. /\ DOMAIN queue' = 1 .. Len(queue) + 1 /\ Len(queue) \in Nat
        /\ \A i \in DOMAIN queue : queue'[i] = queue[i]
        /\ queue'[Len(queue) + 1] = c
        /\ DOMAIN queue = 1 .. Len(queue)
    BY <2>1
  <2>4. QueueSound'
    <3>1. ASSUME NEW i \in DOMAIN queue', NEW j \in DOMAIN queue', queue'[i] = queue'[j]
          PROVE  i = j
      BY <2>3, <3>1 DEF IInv, QueueSound, Queued
    <3>2. \A i \in DOMAIN queue' : queue'[i] \notin holders'
      BY <2>1, <2>3 DEF IInv, QueueSound
    <3> QED
      BY <2>1, <3>1, <3>2 DEF QueueSound
  <2> QED
    BY <2>1, <2>2, <2>4 DEF IInv, CounterAgrees
<1> QED
  BY <1>1, <1>2 DEF Acquire

\* release() by an owner, with the queue empty or its head served.
LEMMA ReleaseIInv ==
  ASSUME Max \in Nat, IInv, NEW c \in Client, c \in holders, Release(c)
  PROVE  IInv'
<1>0. /\ IsFiniteSet(holders \ {c})
      /\ Cardinality(holders \ {c}) = Cardinality(holders) - 1
      /\ Cardinality(holders) \in Nat /\ Cardinality(holders \ {c}) \in Nat
  BY FS_RemoveElement, FS_CardinalityType DEF IInv
<1>1. CASE queue = <<>>
  <2>1. available' = available + 1 /\ holders' = holders \ {c} /\ queue' = queue
    BY <1>1 DEF Release
  <2>2. IsFiniteSet(holders)' /\ CounterAgrees'
    BY <1>0, <2>1 DEF IInv, CounterAgrees, TypeOK
  <2>3. TypeOK'
    BY <1>0, <2>1 DEF IInv, TypeOK, CounterAgrees
  <2> QED
    BY <1>1, <2>1, <2>2, <2>3 DEF IInv, QueueSound
<1>2. CASE queue # <<>>
  <2>1. /\ available = 0 /\ available' = 0
        /\ holders' = (holders \ {c}) \cup {Head(queue)}
        /\ queue' = Tail(queue) /\ queue \in Seq(Client)
    BY <1>2 DEF Release, IInv, TypeOK, QueueSound
  <2>2. /\ Head(queue) \in Client /\ Head(queue) = queue[1] /\ Len(queue) \in Nat /\ Len(queue) >= 1
        /\ Tail(queue) \in Seq(Client)
        /\ Len(Tail(queue)) = Len(queue) - 1
        /\ \A i \in 1 .. Len(queue) - 1 : Tail(queue)[i] = queue[i + 1]
    BY <1>2, <2>1, HeadTailProperties
  <2>3. DOMAIN queue = 1 .. Len(queue) /\ DOMAIN queue' = 1 .. Len(queue) - 1
    BY <2>1, <2>2
  <2>4. TypeOK'
    BY <2>1, <2>2 DEF IInv, TypeOK
  <2>5. Head(queue) \notin holders
    BY <2>2, <2>3 DEF IInv, QueueSound
  <2>6. IsFiniteSet(holders)' /\ Cardinality(holders') = Cardinality(holders)
    <3> DEFINE others == holders \ {c}
    <3>1. Head(queue) \notin others /\ holders' = others \cup {Head(queue)}
      BY <2>1, <2>5
    <3>2. IsFiniteSet(others) /\ Cardinality(others) + 1 = Cardinality(holders)
      BY <1>0
    <3> HIDE DEF others
    <3>3. /\ IsFiniteSet(others \cup {Head(queue)})
          /\ Cardinality(others \cup {Head(queue)}) = Cardinality(others) + 1
      BY <3>1, <3>2, FS_AddElement
    <3> QED
      BY <3>1, <3>2, <3>3
  <2>7. QueueSound'
    <3>1. ASSUME NEW i \in DOMAIN queue', NEW j \in DOMAIN queue', queue'[i] = queue'[j]
          PROVE  i = j
      <4>1. i + 1 \in DOMAIN queue /\ j + 1 \in DOMAIN queue /\ queue[i + 1] = queue[j + 1]
        BY <2>1, <2>2, <2>3, <3>1
      <4>2. i + 1 = j + 1
        BY <4>1 DEF IInv, QueueSound
      <4> QED
        BY <2>2, <2>3, <4>2
    <3>2. ASSUME NEW i \in DOMAIN queue'
          PROVE  queue'[i] \notin holders'
      <4>1. /\ i + 1 \in DOMAIN queue /\ 1 \in DOMAIN queue /\ i + 1 # 1
            /\ queue'[i] = queue[i + 1]
        BY <2>1, <2>2, <2>3
      <4>2. queue[i + 1] \notin holders /\ queue[i + 1] # queue[1]
        BY <4>1 DEF IInv, QueueSound
      <4> QED
        BY <2>1, <2>2, <4>1, <4>2
    <3> QED
      BY <2>1, <3>1, <3>2 DEF QueueSound
  <2> QED
    BY <2>1, <2>4, <2>6, <2>7 DEF IInv, CounterAgrees
<1> QED
  BY <1>1, <1>2

LEMMA NextIInv ==
  ASSUME Max \in Nat
  PROVE  IInv /\ [Next]_semVars => IInv'
<1> SUFFICES ASSUME IInv, [Next]_semVars
             PROVE  IInv'
  OBVIOUS
<1>1. CASE Next
  BY <1>1, AcquireIInv, ReleaseIInv DEF Next
<1>2. CASE UNCHANGED semVars
  BY <1>2 DEF semVars, IInv, TypeOK, CounterAgrees, QueueSound
<1> QED
  BY <1>1, <1>2

\* The counter agrees with the owners, no slot lies idle while somebody
\* waits, and nobody waits twice: for any cap and any callers.
THEOREM Soundness ==
  ASSUME Max \in Nat
  PROVE  Spec => [](TypeOK /\ CounterAgrees /\ QueueSound)
<1>1. Init => IInv
  BY InitIInv
<1>2. IInv /\ [Next]_semVars => IInv'
  BY NextIInv
<1>3. IInv => TypeOK /\ CounterAgrees /\ QueueSound
  BY DEF IInv
<1> QED
  BY <1>1, <1>2, <1>3, PTL DEF Spec

-----------------------------------------------------------------------------
(* Every step of the semaphore is a step of the FIFO resource. *)

\* The instance of FiniteSets inside the instance of FifoResource is the same.
LEMMA SameCardinality == \A S : Resource!Cardinality(S) = Cardinality(S)
  BY Zenon DEF Resource!Cardinality, Cardinality

LEMMA AcquireSimulates ==
  ASSUME Max \in Nat, IInv, NEW c \in Client, c \notin holders, ~Queued(c), Acquire(c)
  PROVE  Resource!Acquire(c)
<1>1. /\ ~Resource!Waits(c)
      /\ Cardinality(holders) \in Nat
      /\ available \in Nat
      /\ available + Cardinality(holders) = Max
  BY FS_CardinalityType DEF Queued, Resource!Waits, IInv, CounterAgrees, TypeOK
<1>2. CASE AcquireNow(c)
  <2>1. Resource!Cardinality(holders) < Max
    BY <1>1, <1>2, SameCardinality DEF AcquireNow
  <2>2. queue = <<>>
    BY <1>2 DEF AcquireNow, IInv, QueueSound
  <2> QED
    BY <1>1, <1>2, <2>1, <2>2 DEF AcquireNow, Resource!Acquire
<1>3. CASE AcquireLater(c)
  <2>1. Resource!Cardinality(holders) >= Max
    BY <1>1, <1>3, SameCardinality DEF AcquireLater
  <2> QED
    BY <1>1, <1>3, <2>1 DEF AcquireLater, Resource!Acquire
<1> QED
  BY <1>2, <1>3 DEF Acquire

LEMMA StepSimulates ==
  ASSUME Max \in Nat, IInv, [Next]_semVars
  PROVE  [Resource!Next]_(Resource!resourceVars)
<1>1. ASSUME NEW c \in Client, c \notin holders, ~Queued(c), Acquire(c)
      PROVE  Resource!Next
  BY <1>1, AcquireSimulates DEF Resource!Next
<1>2. ASSUME NEW c \in Client, c \in holders, Release(c)
      PROVE  Resource!Next
  BY <1>2 DEF Release, Resource!Release, Resource!Next
<1>3. CASE UNCHANGED semVars
  BY <1>3 DEF semVars, Resource!resourceVars
<1> QED
  BY <1>1, <1>2, <1>3 DEF Next

\* Safety part of ImplementsFifoResource: acquire() never overtakes the queue
\* and release() serves its head, whatever the cap.
THEOREM SemaphoreIsFifo ==
  ASSUME Max \in Nat
  PROVE  Spec => Resource!Init /\ [][Resource!Next]_(Resource!resourceVars)
<1>1. Init => Resource!Init
  BY DEF Init, Resource!Init
<1>2. Init => IInv
  BY InitIInv
<1>3. IInv /\ [Next]_semVars => IInv'
  BY NextIInv
<1>4. IInv /\ [Next]_semVars => [Resource!Next]_(Resource!resourceVars)
  BY StepSimulates
<1> QED
  BY <1>1, <1>2, <1>3, <1>4, PTL DEF Spec
=============================================================================
