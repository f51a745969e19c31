----------------------------- MODULE MutexProofs -----------------------------
(***************************************************************************)
(* Proofs about Mutex, for any number of acquire() calls.  The chain of    *)
(* promises is a queue because the resolved promises are always the first  *)
(* ones: IInv says so, and exclusion and order of service follow.          *)
(***************************************************************************)
EXTENDS Mutex, FiniteSetTheorems, SequenceTheorems, TLAPS

\* The promises 0 .. m are resolved, and no other.
ResolvedUpTo(m) == resolved = 0 .. m

\* Each call waits for the one before it, the last one is the tail, and the
\* calls that have released are the first ones.
IInv ==
  /\ TypeOK
  /\ tail = calls
  /\ \A k \in 1 .. calls : previous[k] = k - 1
  /\ \E m \in 0 .. calls : ResolvedUpTo(m)

LEMMA InitIInv == Init => IInv
  BY MaxTicketsAssumption DEF Init, IInv, TypeOK, ResolvedUpTo, Ticket

\* The only call that may own the mutex is the first that has not released.
LEMMA OwnerIsFirst ==
  ASSUME IInv, NEW m \in 0 .. calls, ResolvedUpTo(m), NEW k \in Ticket
  PROVE  Owns(k) <=> k = m + 1 /\ m < calls
  BY MaxTicketsAssumption DEF IInv, TypeOK, ResolvedUpTo, Ticket, Owns

LEMMA NextIInv == IInv /\ [Next]_mutexVars => IInv'
<1> SUFFICES ASSUME IInv, [Next]_mutexVars
             PROVE  IInv'
  OBVIOUS
<1>1. CASE Acquire
  <2>1. PICK m \in 0 .. calls : ResolvedUpTo(m)
    BY DEF IInv
  <2>2. TypeOK' /\ tail' = calls'
    BY <1>1, MaxTicketsAssumption DEF Acquire, IInv, TypeOK, Ticket
  <2>3. (\A k \in 1 .. calls : previous[k] = k - 1)'
    BY <1>1, MaxTicketsAssumption DEF Acquire, IInv, TypeOK, Ticket
  <2>4. m \in 0 .. calls' /\ ResolvedUpTo(m)'
    BY <1>1, <2>1 DEF Acquire, IInv, TypeOK, ResolvedUpTo
  <2> QED
    BY <2>2, <2>3, <2>4 DEF IInv
<1>2. ASSUME NEW k \in Ticket, Release(k)
      PROVE  IInv'
  <2>1. PICK m \in 0 .. calls : ResolvedUpTo(m)
    BY DEF IInv
  <2>2. k = m + 1 /\ m < calls
    BY <1>2, <2>1, OwnerIsFirst DEF Release
  <2>3. TypeOK' /\ tail' = calls'
    BY <1>2, MaxTicketsAssumption DEF Release, IInv, TypeOK, Ticket
  <2>4. m + 1 \in 0 .. calls' /\ ResolvedUpTo(m + 1)'
    BY <1>2, <2>1, <2>2 DEF Release, IInv, TypeOK, ResolvedUpTo
  <2> QED
    BY <1>2, <2>3, <2>4 DEF IInv, Release
<1>3. CASE UNCHANGED mutexVars
  BY <1>3 DEF mutexVars, IInv, TypeOK, ResolvedUpTo, Ticket
<1> QED
  BY <1>1, <1>2, <1>3 DEF Next

\* IInv holds of every reachable state.
THEOREM Invariance == Spec => []IInv
<1>1. Init => IInv
  BY InitIInv
<1>2. IInv /\ [Next]_mutexVars => IInv'
  BY NextIInv
<1> QED
  BY <1>1, <1>2, PTL DEF Spec

\* The mutex excludes: of all calls of acquire(), at most one owns it.
THEOREM Exclusion == Spec => []MutualExclusion
<1>1. IInv => MutualExclusion
  <2> SUFFICES ASSUME IInv, NEW j \in Ticket, NEW k \in Ticket, Owns(j), Owns(k)
               PROVE  j = k
    BY DEF MutualExclusion
  <2>1. PICK m \in 0 .. calls : ResolvedUpTo(m)
    BY DEF IInv
  <2> QED
    BY <2>1, OwnerIsFirst
<1> QED
  BY <1>1, Invariance, PTL

-----------------------------------------------------------------------------
(* The refinement mapping in closed form. *)

LEMMA FirstOpenIs ==
  ASSUME IInv, NEW m \in 0 .. calls, ResolvedUpTo(m)
  PROVE  FirstOpen = m + 1
<1> DEFINE P(k) == k \notin resolved /\ 0 .. k - 1 \subseteq resolved
<1>1. calls \in Nat
  BY MaxTicketsAssumption DEF IInv, TypeOK
<1>2. m + 1 \in 1 .. calls + 1 /\ P(m + 1)
  BY <1>1 DEF ResolvedUpTo
<1>3. ASSUME NEW k \in 1 .. calls + 1, P(k)
      PROVE  k = m + 1
  BY <1>1, <1>3 DEF ResolvedUpTo
<1> QED
  BY <1>2, <1>3 DEF FirstOpen

LEMMA OwnersAre ==
  ASSUME IInv, NEW m \in 0 .. calls, ResolvedUpTo(m)
  PROVE  Owners = IF m < calls THEN {m + 1} ELSE {}
<1>1. calls \in 0 .. MaxTickets
  BY DEF IInv, TypeOK
<1>2. m < calls => m + 1 \in Ticket
  BY <1>1, MaxTicketsAssumption DEF Ticket
<1> QED
  BY <1>2, OwnerIsFirst DEF Owners

LEMMA WaitersAre ==
  ASSUME IInv, NEW m \in 0 .. calls, ResolvedUpTo(m)
  PROVE  /\ Waiters = [i \in 1 .. (IF m + 1 < calls THEN calls - (m + 1) ELSE 0) |-> m + 1 + i]
         /\ Waiters \in Seq(Ticket)
         /\ Len(Waiters) = IF m + 1 < calls THEN calls - (m + 1) ELSE 0
<1> DEFINE n == IF m + 1 < calls THEN calls - (m + 1) ELSE 0
<1>1. calls \in 0 .. MaxTickets /\ calls \in Nat /\ n \in Nat
  BY MaxTicketsAssumption DEF IInv, TypeOK
<1>2. Waiters = [i \in 1 .. n |-> m + 1 + i]
  BY FirstOpenIs DEF Waiters
<1>3. \A i \in 1 .. n : m + 1 + i \in Ticket
  BY <1>1, MaxTicketsAssumption DEF Ticket
<1> QED
  BY <1>1, <1>2, <1>3

\* What the refinement mapping yields when 0 .. m are resolved: call m + 1 owns,
\* the calls after it wait.
QueueLength(m) == IF m + 1 < calls THEN calls - (m + 1) ELSE 0

Mapping ==
  \A m \in 0 .. calls : ResolvedUpTo(m) =>
    /\ Owners = IF m < calls THEN {m + 1} ELSE {}
    /\ Waiters = [i \in 1 .. QueueLength(m) |-> m + 1 + i]
    /\ Waiters \in Seq(Ticket)
    /\ Len(Waiters) = QueueLength(m)

LEMMA MappingHolds == IInv => Mapping
  BY OwnersAre, WaitersAre DEF Mapping, QueueLength

LEMMA MappingHoldsNext == IInv' => Mapping'
  BY MappingHolds, PTL

-----------------------------------------------------------------------------
(* Every step of the mutex is a step of the FIFO resource. *)

\* The instance of FiniteSets inside the instance of FifoResource is the same.
LEMMA SameCardinality == \A S : Resource!Cardinality(S) = Cardinality(S)
  BY Zenon DEF Resource!Cardinality, Cardinality

LEMMA AcquireSimulates ==
  ASSUME IInv, IInv', Acquire
  PROVE  calls + 1 \in Ticket /\ Resource!Acquire(calls + 1)
<1>1. PICK m \in 0 .. calls : ResolvedUpTo(m)
  BY DEF IInv
<1>2. /\ calls \in Nat /\ calls' = calls + 1 /\ calls + 1 \in Ticket
      /\ m \in 0 .. calls' /\ ResolvedUpTo(m)'
  BY <1>1, MaxTicketsAssumption DEF IInv, TypeOK, Acquire, ResolvedUpTo, Ticket
<1>3. /\ Owners = IF m < calls THEN {m + 1} ELSE {}
      /\ Waiters = [i \in 1 .. QueueLength(m) |-> m + 1 + i]
      /\ Len(Waiters) = QueueLength(m)
      /\ Waiters \in Seq(Ticket)
  BY <1>1, MappingHolds DEF Mapping
<1>4. /\ Owners' = {m + 1}
      /\ Waiters' = [i \in 1 .. QueueLength(m)' |-> m + 1 + i]
      /\ Len(Waiters') = QueueLength(m)'
      /\ Waiters' \in Seq(Ticket)
  BY <1>1, <1>2, MappingHoldsNext DEF Mapping
<1>5. calls + 1 \notin Owners
  BY <1>1, <1>2, <1>3
<1>6. ~Resource!Waits(calls + 1)
  BY <1>1, <1>2, <1>3 DEF Resource!Waits, QueueLength
<1>7. CASE m = calls
  <2>1. Resource!Cardinality(Owners) < 1 /\ Waiters = <<>> /\ Owners' = Owners \cup {calls + 1}
    BY <1>2, <1>3, <1>4, <1>7, FS_EmptySet, SameCardinality DEF QueueLength
  <2>2. Waiters' = Waiters
    BY <1>2, <1>3, <1>4, <1>7, <2>1 DEF QueueLength
  <2> QED
    BY <1>2, <1>5, <1>6, <2>1, <2>2 DEF Resource!Acquire
<1>8. CASE m < calls
  <2>1. Owners = {m + 1} /\ Owners' = Owners
    BY <1>3, <1>4, <1>8
  <2>4. Resource!Cardinality(Owners) >= 1
    BY <2>1, FS_Singleton, SameCardinality
  <2>2. QueueLength(m)' = QueueLength(m) + 1 /\ QueueLength(m) \in Nat
    BY <1>1, <1>2, <1>8 DEF QueueLength
  <2>3. Waiters' = Append(Waiters, calls + 1)
    <3>1. m + 1 + (QueueLength(m) + 1) = calls + 1
      BY <1>1, <1>2, <1>8 DEF QueueLength
    <3> QED
      BY <1>2, <1>3, <1>4, <2>2, <3>1
  <2> QED
    BY <1>2, <1>5, <1>6, <2>1, <2>3, <2>4 DEF Resource!Acquire
<1> QED
  BY <1>1, <1>2, <1>7, <1>8

LEMMA ReleaseSimulates ==
  ASSUME IInv, IInv', NEW k \in Ticket, Release(k)
  PROVE  Resource!Release(k)
<1>1. PICK m \in 0 .. calls : ResolvedUpTo(m)
  BY DEF IInv
<1>2. k = m + 1 /\ m < calls
  BY <1>1, OwnerIsFirst DEF Release
<1>3. /\ calls \in Nat /\ calls' = calls
      /\ m + 1 \in 0 .. calls' /\ ResolvedUpTo(m + 1)'
  <2>1. calls \in Nat /\ calls' = calls
    BY MaxTicketsAssumption DEF IInv, TypeOK, Release
  <2>2. resolved' = (0 .. m) \cup {m + 1}
    BY <1>1, <1>2 DEF Release, ResolvedUpTo
  <2>3. (0 .. m) \cup {m + 1} = 0 .. (m + 1)
    BY <1>1, <2>1
  <2>4. m + 1 \in 0 .. calls'
    BY <1>1, <1>2, <2>1
  <2> QED
    BY <2>1, <2>2, <2>3, <2>4 DEF ResolvedUpTo
<1>4. /\ Owners = {k}
      /\ Waiters = [i \in 1 .. QueueLength(m) |-> m + 1 + i]
      /\ Len(Waiters) = QueueLength(m)
      /\ Waiters \in Seq(Ticket)
  BY <1>1, <1>2, MappingHolds DEF Mapping
<1>5. /\ Owners' = IF m + 1 < calls THEN {m + 2} ELSE {}
      /\ Waiters' = [i \in 1 .. QueueLength(m + 1)' |-> m + 2 + i]
      /\ Len(Waiters') = QueueLength(m + 1)'
      /\ Waiters' \in Seq(Ticket)
  <2>1. m + 1 + 1 = m + 2 /\ \A i \in Nat : m + 1 + 1 + i = m + 2 + i
    BY <1>1, <1>3
  <2> QED
    BY <1>1, <1>3, <2>1, MappingHoldsNext DEF Mapping, QueueLength
<1>6. CASE m + 1 < calls
  <2>1. Waiters # <<>> /\ Head(Waiters) = m + 2
    BY <1>1, <1>3, <1>4, <1>6 DEF QueueLength
  <2>2. Owners' = (Owners \ {k}) \cup {Head(Waiters)}
    BY <1>4, <1>5, <1>6, <2>1
  <2>3. QueueLength(m) = calls - (m + 1) /\ QueueLength(m + 1)' = QueueLength(m) - 1
    BY <1>1, <1>3, <1>6 DEF QueueLength
  <2>4. Waiters' = Tail(Waiters)
    <3>1. QueueLength(m) \in Nat /\ QueueLength(m) >= 1
      BY <1>1, <1>3, <1>6, <2>3
    <3>2. /\ Tail(Waiters) \in Seq(Ticket)
          /\ Len(Tail(Waiters)) = QueueLength(m) - 1
          /\ \A i \in 1 .. QueueLength(m) - 1 : Tail(Waiters)[i] = Waiters[i + 1]
      BY <1>4, <2>1, HeadTailProperties
    <3>3. \A i \in 1 .. QueueLength(m) - 1 : Waiters[i + 1] = m + 2 + i
      BY <1>1, <1>3, <1>4, <3>1
    <3>4. /\ Len(Waiters') = QueueLength(m) - 1
          /\ \A i \in 1 .. QueueLength(m) - 1 : Waiters'[i] = m + 2 + i
      BY <1>5, <2>3
    <3> QED
      BY <1>5, <3>2, <3>3, <3>4, SeqEqual
  <2> QED
    BY <1>4, <2>1, <2>2, <2>4 DEF Resource!Release
<1>7. CASE ~(m + 1 < calls)
  <2>1. QueueLength(m) = 0 /\ QueueLength(m + 1)' = 0
    BY <1>1, <1>2, <1>3, <1>7 DEF QueueLength
  <2>2. Waiters = <<>> /\ Waiters' = Waiters /\ Owners' = Owners \ {k}
    BY <1>4, <1>5, <1>7, <2>1
  <2> QED
    BY <1>4, <2>2 DEF Resource!Release
<1> QED
  BY <1>6, <1>7

LEMMA StutterSimulates ==
  ASSUME UNCHANGED mutexVars
  PROVE  UNCHANGED Resource!resourceVars
  BY DEF mutexVars, Resource!resourceVars, Owners, Owns, Waiters, FirstOpen

LEMMA InitSimulates == Init => Resource!Init
<1> SUFFICES ASSUME Init
             PROVE  Resource!Init
  OBVIOUS
<1>1. IInv /\ Mapping
  BY InitIInv, MappingHolds
<1>2. calls = 0 /\ 0 \in 0 .. calls /\ ResolvedUpTo(0)
  BY DEF Init, ResolvedUpTo
<1>3. Owners = {} /\ Len(Waiters) = 0 /\ Waiters \in Seq(Ticket)
  BY <1>1, <1>2 DEF Mapping, QueueLength
<1> QED
  BY <1>3 DEF Resource!Init

\* Safety part of ImplementsFifoResource: the promise chain never does what a
\* FIFO resource with one unit would not do.
THEOREM MutexIsFifo == Spec => Resource!Init /\ [][Resource!Next]_(Resource!resourceVars)
<1>1. Init => Resource!Init
  BY InitSimulates
<1>2. IInv /\ IInv' /\ [Next]_mutexVars => [Resource!Next]_(Resource!resourceVars)
  BY AcquireSimulates, ReleaseSimulates, StutterSimulates DEF Next, Resource!Next
<1> QED
  BY <1>1, <1>2, Invariance, PTL DEF Spec
=============================================================================
