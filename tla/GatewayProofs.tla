---------------------------- MODULE GatewayProofs ----------------------------
(***************************************************************************)
(* Proofs about Gateway, for any number of requests, sessions, slots and   *)
(* batches, under the assumption that a disconnect is noticed only once    *)
(* agent.send() has returned (~EarlyAbort, as in HeldRunProofs) and, for   *)
(* NoSlotLost, that translating a turn does not throw.                     *)
(*                                                                         *)
(* The argument turns on Live: a run, from its agent.send() to the step    *)
(* that settles it, heads its session's mutex and owns a slot (Locked,     *)
(* Slotted), so that there is one live run per session (OneLive).  Whoever *)
(* works on it without having settled it is the request it listens to      *)
(* (Watched), hence only one; while a run is held nobody pumps in its      *)
(* session (Registered), hence no forget() hits another run than its own;  *)
(* and a live run is held or pumped by somebody (Tended), hence its        *)
(* resources come back.                                                    *)
(***************************************************************************)
EXTENDS Gateway, SequenceTheorems, TLAPS

\* What is proved of the semaphore holds of the gateway's.
Cap == INSTANCE SemaphoreProofs WITH
  Client <- Request, queue <- slotQueue, holders <- slotOwners

LEMMA SameCardinality ==
  \A S : Cap!Cardinality(S) = Cardinality(S) /\ Slots!Cardinality(S) = Cardinality(S)
  BY Zenon DEF Cap!Cardinality, Slots!Cardinality, Cardinality

LEMMA CapAgrees == Cap!IInv => SlotsAgree /\ Slots!TypeOK
  BY SameCardinality DEF Cap!IInv, Cap!TypeOK, Cap!CounterAgrees, Cap!QueueSound,
     SlotsAgree, Slots!CounterAgrees, Slots!QueueSound, Slots!TypeOK

LEMMA CapKept == Cap!IInv /\ UNCHANGED slotVars => Cap!IInv'
  BY Zenon DEF slotVars, Cap!IInv, Cap!TypeOK, Cap!CounterAgrees, Cap!QueueSound

\* acquire() by a request that neither has a slot nor waits for one.
LEMMA SlotTaken ==
  ASSUME Cap!IInv, NEW r \in Request, r \notin slotOwners, ~Slots!Queued(r),
         Slots!AcquireNow(r) \/ Slots!AcquireLater(r)
  PROVE  /\ Cap!IInv'
         /\ \A p \in Request \ {r} : /\ p \in slotOwners' <=> p \in slotOwners
                                     /\ Slots!Queued(p)' => Slots!Queued(p)
         /\ Slots!AcquireNow(r) => r \in slotOwners' /\ ~Slots!Queued(r)'
<1>1. Cap!IInv'
  BY GatewayAssumption, Cap!AcquireIInv
     DEF Slots!AcquireNow, Slots!AcquireLater, Cap!Acquire, Cap!AcquireNow, Cap!AcquireLater,
         Slots!Queued, Cap!Queued
<1>2. slotQueue \in Seq(Request)
  BY DEF Cap!IInv, Cap!TypeOK
<1>3. CASE Slots!AcquireNow(r)
  BY <1>1, <1>3 DEF Slots!AcquireNow, Slots!Queued
<1>4. CASE Slots!AcquireLater(r)
  <2>1. /\ slotOwners' = slotOwners /\ DOMAIN slotQueue' = 1 .. Len(slotQueue) + 1
        /\ DOMAIN slotQueue = 1 .. Len(slotQueue) /\ Len(slotQueue) \in Nat
        /\ \A i \in DOMAIN slotQueue : slotQueue'[i] = slotQueue[i]
        /\ slotQueue'[Len(slotQueue) + 1] = r
    BY <1>2, <1>4 DEF Slots!AcquireLater
  <2>2. ~Slots!AcquireNow(r)
    BY <1>4 DEF Slots!AcquireLater, Slots!AcquireNow
  <2> QED
    BY <1>1, <2>1, <2>2 DEF Slots!Queued
<1> QED
  BY <1>3, <1>4

\* The slot of r goes, maybe to a queued request.
LEMMA SlotReleased ==
  ASSUME Cap!IInv, NEW r \in Request, r \in slotOwners, ReleaseSlot(r)
  PROVE  /\ Cap!IInv' /\ r \notin slotOwners'
         /\ \A p \in Request \ {r} :
              /\ p \in slotOwners => p \in slotOwners'
              /\ p \in slotOwners' => p \in slotOwners \/ Slots!Queued(p)
         /\ \A p \in Request : Slots!Queued(p)' => Slots!Queued(p)
<1>1. Slots!Release(r)
  BY DEF ReleaseSlot
<1>2. Cap!IInv'
  BY <1>1, GatewayAssumption, Cap!ReleaseIInv DEF Slots!Release, Cap!Release
<1>3. slotQueue \in Seq(Request) /\ \A i \in DOMAIN slotQueue : slotQueue[i] \notin slotOwners
  BY DEF Cap!IInv, Cap!TypeOK, Cap!QueueSound
<1>4. CASE slotQueue = <<>>
  BY <1>1, <1>2, <1>4 DEF Slots!Release, Slots!Queued
<1>5. CASE slotQueue # <<>>
  <2>1. /\ slotOwners' = (slotOwners \ {r}) \cup {Head(slotQueue)}
        /\ slotQueue' = Tail(slotQueue)
    BY <1>1, <1>5 DEF Slots!Release
  <2>2. /\ 1 \in DOMAIN slotQueue /\ Head(slotQueue) = slotQueue[1]
        /\ \A i \in DOMAIN slotQueue' : i + 1 \in DOMAIN slotQueue
                                        /\ slotQueue'[i] = slotQueue[i + 1]
    BY <1>3, <1>5, <2>1, HeadTailProperties
  <2> QED
    BY <1>2, <1>3, <2>1, <2>2 DEF Slots!Queued
<1> QED
  BY <1>4, <1>5

-----------------------------------------------------------------------------
(* The invariant. *)

Before == {"idle", "catalog", "matched", "queued", "resolving", "locking", "sending"}

\* TypeOK, the semaphore's part apart.
Types ==
  /\ pc \in [Request -> Location]
  /\ session \in [Request -> Session] /\ hold \subseteq Request
  /\ works \in [Request -> Request \cup {NoRequest}]
  /\ aborted \subseteq Request /\ timedOut \subseteq Request
  /\ lock \in [Session -> Seq(Request)]
  /\ held \in [Session -> Request \cup {NoRequest}]
  /\ index \subseteq Batch /\ toolTimer \subseteq Request
  /\ sdk \in [Request -> {"none", "running", "cancelling", "ended"}]
  /\ settled \subseteq Request
  /\ armed \in [Request -> Request \cup {NoRequest}]
  /\ segment \in [Request -> 0 .. MaxSegments]

\* What the stage of a request says of it.
Stages ==
  \A r \in Request :
    /\ pc[r] \in Before => works[r] = NoRequest /\ r \notin aborted /\ r \notin timedOut
    /\ Pumping(r) => works[r] \in hold /\ session[works[r]] = session[r]
    /\ pc[r] \in {"plain", "finishing"} => works[r] = r /\ r \notin hold

Runs ==
  /\ \A r \in Request : works[r] # NoRequest => works[works[r]] = works[r]
  /\ \A q \in settled : works[q] = q /\ q \in hold

\* Who pumps a run without having settled it is the one the run listens to.
Watched ==
  \A r \in Request :
    Pumping(r) /\ works[r] \notin settled =>
      armed[works[r]] = r /\ r \notin aborted /\ r \notin timedOut

\* From agent.send() to the step that settles the run.
Live(q) == Alive(q) \/ pc[q] \in {"sending", "plain", "finishing"}

Locked ==
  /\ \A s \in Session : \A i, j \in DOMAIN lock[s] :
       /\ session[lock[s][i]] = s
       /\ lock[s][i] = lock[s][j] => i = j
       /\ pc[lock[s][i]] = "locking" \/ Live(lock[s][i])
  /\ \A q \in Request : Live(q) => OwnsLock(q)

Slotted ==
  /\ Cap!IInv
  /\ \A q \in Request :
       /\ Slots!Queued(q) => pc[q] = "queued"
       /\ pc[q] \in {"resolving", "locking"} \/ Live(q) => q \in slotOwners
       /\ q \in slotOwners =>
            \/ pc[q] \in {"queued", "resolving", "locking"} \/ Live(q)
            \/ TranslationThrows /\ pc[q] = "done"

Registered ==
  /\ \A s \in Session : held[s] # NoRequest =>
       /\ session[held[s]] = s /\ Alive(held[s])
       /\ \A r \in Request : Pumping(r) => session[r] # s
  /\ \A q \in Request : q \in toolTimer <=> IsHeld(q)
  /\ index = {<<q, segment[q]>> : q \in {p \in Request : IsHeld(p)}}

Tended ==
  \A q \in Request : Alive(q) => IsHeld(q) \/ \E r \in Request : Pumping(r) /\ works[r] = q

IInv ==
  Types /\ Stages /\ Runs /\ Watched /\ Locked /\ Slotted /\ Registered /\ Tended

\* One live run per session.
LEMMA OneLive ==
  ASSUME IInv, NEW p \in Request, NEW q \in Request, Live(p), Live(q), session[p] = session[q]
  PROVE  p = q
  BY DEF IInv, Locked, OwnsLock

-----------------------------------------------------------------------------
(* Mutex and slot. *)

\* No request comes to, or leaves, the stages that depend on them.
SameStages ==
  /\ session' = session
  /\ \A p \in Request :
       /\ pc'[p] = "queued" <=> pc[p] = "queued"
       /\ pc'[p] = "resolving" <=> pc[p] = "resolving"
       /\ pc'[p] = "locking" <=> pc[p] = "locking"
       /\ pc[p] = "done" => pc'[p] = "done"

LEMMA KeepLive ==
  ASSUME IInv, SameStages, UNCHANGED <<lock, slotVars>>,
         \A p \in Request : Live(p)' <=> Live(p)
  PROVE  Locked' /\ Slotted'
<1>1. Locked'
  <2>1. \A s \in Session : \A i \in DOMAIN lock[s] : lock[s][i] \in Request
    BY DEF IInv, Types
  <2> QED
    BY <2>1 DEF IInv, SameStages, Locked, OwnsLock
<1>2. Cap!IInv'
  BY CapKept DEF IInv, Slotted
<1>3. \A p \in Request : Slots!Queued(p)' <=> Slots!Queued(p)
  BY DEF slotVars, Slots!Queued
<1>4. Slotted'
  BY <1>2, <1>3 DEF IInv, SameStages, Slotted, slotVars
<1> QED
  BY <1>1, <1>4

\* A live run ends, and gives back both.
LEMMA EndLive ==
  ASSUME IInv, SameStages, NEW q \in Request, Live(q), ReleaseMutex(q), ~Live(q)',
         \A p \in Request \ {q} : Live(p)' <=> Live(p)
  PROVE  Locked' /\ Slotted' /\ lock' \in [Session -> Seq(Request)]
<1> DEFINE t == session[q]
<1>1. /\ OwnsLock(q) /\ q \in slotOwners /\ t \in Session
      /\ lock' = [lock EXCEPT ![t] = Tail(lock[t])] /\ ReleaseSlot(q)
  BY DEF IInv, Types, Locked, Slotted, ReleaseMutex
<1>2. /\ lock[t] \in Seq(Request) /\ lock[t] # <<>> /\ lock[t][1] = q
      /\ Tail(lock[t]) \in Seq(Request)
      /\ 1 \in DOMAIN lock[t]
      /\ \A i \in DOMAIN Tail(lock[t]) :
           i + 1 \in DOMAIN lock[t] /\ i + 1 # 1 /\ Tail(lock[t])[i] = lock[t][i + 1]
      /\ DOMAIN Tail(lock[t]) \subseteq Nat
      /\ \A i \in DOMAIN lock[t] : lock[t][i] \in Request
  BY <1>1, HeadTailProperties DEF IInv, Types, OwnsLock
<1> HIDE DEF t
<1>3. /\ lock' \in [Session -> Seq(Request)] /\ lock'[t] = Tail(lock[t])
      /\ \A s \in Session \ {t} : lock'[s] = lock[s]
  BY <1>1, <1>2 DEF IInv, Types
<1>4. \A p \in Request : session[p] = t /\ p # q => ~Live(p)
  BY OneLive DEF t
<1>5. ASSUME NEW s \in Session, NEW i \in DOMAIN lock'[s], NEW j \in DOMAIN lock'[s]
      PROVE  /\ session[lock'[s][i]] = s
             /\ lock'[s][i] = lock'[s][j] => i = j
             /\ lock'[s][i] \in Request \ {q}
             /\ pc[lock'[s][i]] = "locking" \/ Live(lock'[s][i])
  <2>1. \A k, l \in DOMAIN lock[s] :
          /\ session[lock[s][k]] = s
          /\ lock[s][k] = lock[s][l] => k = l
          /\ pc[lock[s][k]] = "locking" \/ Live(lock[s][k])
    BY DEF IInv, Locked
  <2>2. CASE s = t
    <3>1. lock'[s] = Tail(lock[t])
      BY <1>3, <2>2
    <3>2. /\ i + 1 \in DOMAIN lock[t] /\ lock'[s][i] = lock[t][i + 1] /\ i \in Nat
          /\ j + 1 \in DOMAIN lock[t] /\ lock'[s][j] = lock[t][j + 1] /\ j \in Nat
          /\ lock[t][i + 1] \in Request /\ i + 1 # 1
      BY <1>2, <3>1
    <3>3. /\ session[lock[t][i + 1]] = t
          /\ lock[t][i + 1] = lock[t][j + 1] => i + 1 = j + 1
          /\ lock[t][i + 1] # q
          /\ pc[lock[t][i + 1]] = "locking" \/ Live(lock[t][i + 1])
      BY <1>2, <2>1, <2>2, <3>2
    <3> QED
      BY <2>2, <3>2, <3>3
  <2>3. CASE s # t
    <3>1. lock'[s] = lock[s] /\ lock[s][i] \in Request
      BY <1>3, <2>3 DEF IInv, Types
    <3>2. lock[s][i] # q
      BY <2>1, <2>3, <3>1 DEF t
    <3> QED
      BY <2>1, <3>1, <3>2
  <2> QED
    BY <2>2, <2>3
<1>6. ASSUME NEW p \in Request, Live(p)'
      PROVE  OwnsLock(p)'
  <2>1. p # q /\ Live(p)
    BY <1>6
  <2>2. session[p] # t /\ session[p] \in Session
    BY <1>4, <2>1 DEF IInv, Types
  <2> QED
    BY <1>3, <2>1, <2>2 DEF IInv, Locked, OwnsLock, SameStages
<1>7. Slotted'
  <2>1. /\ Cap!IInv' /\ q \notin slotOwners'
        /\ \A p \in Request \ {q} :
             /\ p \in slotOwners => p \in slotOwners'
             /\ p \in slotOwners' => p \in slotOwners \/ Slots!Queued(p)
        /\ \A p \in Request : Slots!Queued(p)' => Slots!Queued(p)
    BY <1>1, SlotReleased DEF IInv, Slotted
  <2>2. pc[q] \notin {"queued", "resolving", "locking"}
    BY GatewayAssumption DEF IInv, Stages, Live, Alive, Before
  <2> QED
    BY <2>1, <2>2 DEF IInv, Slotted, SameStages
<1>8. Locked'
  <2>1. \A p \in Request \ {q} : Live(p) => Live(p)'
    OBVIOUS
  <2>2. \A p \in Request : pc'[p] = "locking" <=> pc[p] = "locking"
    BY DEF SameStages
  <2> QED
    BY <1>5, <1>6, <2>1, <2>2 DEF Locked, SameStages
<1> QED
  BY <1>3, <1>7, <1>8

\* The queues of the mutexes are as before.
LEMMA LockedKept ==
  ASSUME IInv, UNCHANGED <<session, lock>>,
         \A p \in Request : pc'[p] = "locking" <=> pc[p] = "locking",
         \A p \in Request : Live(p)' <=> Live(p)
  PROVE  Locked'
<1>1. \A s \in Session : \A i \in DOMAIN lock[s] : lock[s][i] \in Request
  BY DEF IInv, Types
<1> QED
  BY <1>1 DEF IInv, Locked, OwnsLock

\* The runs and the registries are as before.
LEMMA Calm ==
  ASSUME IInv, UNCHANGED <<session, hold, works, settled, registryVars, segment>>,
         \A p \in Request : Pumping(p)' <=> Pumping(p)
  PROVE  Runs' /\ Registered' /\ Tended'
<1>1. Runs'
  BY DEF IInv, Runs
<1>2. \A p \in Request \cup {NoRequest} : Alive(p)' <=> Alive(p)
  BY DEF Alive
<1>3. \A p \in Request : IsHeld(p)' <=> IsHeld(p)
  BY DEF IsHeld, registryVars
<1>4. Registered'
  BY <1>2, <1>3 DEF IInv, Types, Registered, registryVars
<1>5. Tended'
  BY <1>2, <1>3 DEF IInv, Tended
<1> QED
  BY <1>1, <1>4, <1>5

-----------------------------------------------------------------------------
(* The end of run q, by whoever settles it or discards it once more. *)

Ended(q) ==
  /\ settled' = settled \cup {q}
  /\ \A p \in Request \ {q} : armed'[p] = armed[p]
  /\ \/ q \in settled /\ UNCHANGED <<lock, slotVars>>
     \/ q \notin settled /\ ReleaseMutex(q)

\* Nothing of the session of q is registered any more.
Cleared(q) ==
  /\ held' = [held EXCEPT ![session[q]] = NoRequest]
  /\ index' = {b \in index : session[b[1]] # session[q]}
  /\ toolTimer' = {p \in toolTimer : session[p] # session[q]}

LEMMA RunEnded ==
  ASSUME IInv, Types', SameStages, NEW q \in Request, works[q] = q, q \in hold,
         Ended(q), Cleared(q), held[session[q]] \in {q, NoRequest},
         UNCHANGED <<hold, works, segment>>,
         \A p \in Request : \/ pc'[p] = pc[p]
                            \/ Pumping(p) /\ works[p] = q /\ pc'[p] = "done",
         \A p \in Request : \/ Pumping(p) /\ works[p] = q
                            \/ /\ p \in aborted' => p \in aborted
                               /\ p \in timedOut' => p \in timedOut
  PROVE  IInv'
<1>1. session' = session /\ settled' = settled \cup {q}
  BY DEF SameStages, Ended
<1>2. \A p \in Request : Pumping(p)' => Pumping(p) /\ pc'[p] = pc[p]
  BY DEF Pumping
<1>3. Stages'
  BY <1>1, <1>2 DEF IInv, Stages, Pumping, Before
<1>4. Runs'
  BY <1>1 DEF IInv, Runs
<1>5. Watched'
  <2>1. SUFFICES ASSUME NEW r \in Request, Pumping(r)', works[r] \notin settled'
                 PROVE  armed'[works[r]] = r /\ r \notin aborted' /\ r \notin timedOut'
    BY DEF Watched
  <2>2. Pumping(r) /\ works[r] \notin settled /\ works[r] # q
    BY <1>1, <1>2, <2>1
  <2>3. armed[works[r]] = r /\ r \notin aborted /\ r \notin timedOut
    BY <2>2 DEF IInv, Watched
  <2>4. works[r] \in Request
    BY <2>2 DEF IInv, Stages, Types
  <2> QED
    BY <2>2, <2>3, <2>4 DEF Ended
<1>6. \A p \in Request \ {q} : (Alive(p)' <=> Alive(p)) /\ (Live(p)' <=> Live(p))
  BY <1>1 DEF Alive, Live, Pumping
<1>7. ~Live(q)' /\ (Live(q) <=> q \notin settled)
  BY <1>1, GatewayAssumption DEF IInv, Stages, Live, Alive, Before, Pumping
<1>8. Locked' /\ Slotted'
  <2>1. CASE q \in settled
    BY <1>6, <1>7, <2>1, KeepLive DEF Ended
  <2>2. CASE q \notin settled
    BY <1>6, <1>7, <2>2, EndLive DEF Ended
  <2> QED
    BY <2>1, <2>2
<1>9. /\ \A p \in Request : IsHeld(p)' <=> IsHeld(p) /\ session[p] # session[q]
      /\ \A s \in Session : held'[s] = IF s = session[q] THEN NoRequest ELSE held[s]
  BY <1>1, GatewayAssumption DEF Cleared, IInv, Types, IsHeld
<1>10. Registered'
  <2>1. ASSUME NEW s \in Session, held'[s] # NoRequest
        PROVE  /\ session[held'[s]] = s /\ Alive(held[s])' /\ held'[s] = held[s]
               /\ \A r \in Request : Pumping(r)' => session[r] # s
    <3>1. /\ held[s] = held'[s] /\ s # session[q] /\ session[held[s]] = s /\ Alive(held[s])
          /\ held[s] \in Request /\ \A r \in Request : Pumping(r) => session[r] # s
      BY <1>9, <2>1 DEF IInv, Registered, Types
    <3> QED
      BY <1>2, <1>6, <3>1
  <2>2. \A p \in Request : p \in toolTimer' <=> IsHeld(p)'
    BY <1>9 DEF IInv, Registered, Cleared
  <2>3. index' = {<<p, segment[p]>> : p \in {x \in Request : IsHeld(x)'}}
    BY <1>9 DEF IInv, Registered, Cleared
  <2> QED
    BY <1>1, <2>1, <2>2, <2>3 DEF Registered, Alive
<1>11. Tended'
  <2>1. SUFFICES ASSUME NEW p \in Request, Alive(p)'
                 PROVE  IsHeld(p)' \/ \E r \in Request : Pumping(r)' /\ works[r] = p
    BY DEF Tended
  <2>2. p # q /\ Alive(p)
    BY <1>6, <1>7, <2>1 DEF Live
  <2>3. CASE IsHeld(p)
    BY <1>9, <2>2, <2>3, GatewayAssumption DEF IsHeld
  <2>4. CASE \E r \in Request : Pumping(r) /\ works[r] = p
    BY <2>2, <2>4 DEF Pumping
  <2> QED
    BY <2>2, <2>3, <2>4 DEF IInv, Tended
<1> QED
  BY <1>3, <1>4, <1>5, <1>8, <1>10, <1>11 DEF IInv

LEMMA DiscardEnds ==
  ASSUME IInv, NEW q \in Request, Discard(q), held[session[q]] \in {q, NoRequest}
  PROVE  Ended(q) /\ Cleared(q)
<1>1. Ended(q)
  BY DEF Discard, Teardown, runVars, Ended, IInv, Types
<1>2. /\ held' = [held EXCEPT ![session[q]] = NoRequest]
      /\ index' = IF held[session[q]] = NoRequest THEN index
                  ELSE {b \in index : session[b[1]] # session[q]}
      /\ toolTimer' = toolTimer \ ({held[session[q]]} \cup (IF q \in settled THEN {} ELSE {q}))
  BY DEF Discard, Forget
<1>3. index' = {b \in index : session[b[1]] # session[q]}
  <2>1. CASE held[session[q]] = NoRequest
    <3>1. \A p \in Request : IsHeld(p) => session[p] # session[q]
      BY <2>1, GatewayAssumption DEF IsHeld
    <3> QED
      BY <1>2, <2>1, <3>1 DEF IInv, Registered
  <2> QED
    BY <1>2, <2>1
<1>4. \A p \in toolTimer : session[p] = session[q] <=> p = held[session[q]]
  BY GatewayAssumption DEF IInv, Registered, IsHeld, Types
<1>5. q \in toolTimer => q = held[session[q]]
  BY <1>4
<1>6. toolTimer' = {p \in toolTimer : session[p] # session[q]}
  BY <1>2, <1>4, <1>5
<1> QED
  BY <1>1, <1>2, <1>3, <1>6 DEF Cleared

\* Who pumps, pumps a started run of its session, which has no other.
LEMMA Pumped ==
  ASSUME IInv, NEW r \in Request, Pumping(r)
  PROVE  /\ works[r] \in Request /\ works[works[r]] = works[r] /\ works[r] \in hold
         /\ session[works[r]] = session[r] /\ held[session[r]] = NoRequest
         /\ session[r] \in Session
BY GatewayAssumption DEF IInv, Types, Stages, Runs, Registered

-----------------------------------------------------------------------------
(* Types. *)

LEMMA LockTyped ==
  ASSUME Types, NEW q \in Request, ReleaseMutex(q)
  PROVE  lock' \in [Session -> Seq(Request)]
<1>1. CASE OwnsLock(q)
  <2>1. lock[session[q]] \in Seq(Request) /\ lock[session[q]] # <<>> /\ session[q] \in Session
    BY <1>1 DEF Types, OwnsLock
  <2>2. Tail(lock[session[q]]) \in Seq(Request)
    BY <2>1, HeadTailProperties
  <2> QED
    BY <1>1, <2>1, <2>2 DEF ReleaseMutex, Types
<1>2. CASE ~OwnsLock(q)
  BY <1>2 DEF ReleaseMutex, Types
<1> QED
  BY <1>1, <1>2

LEMMA DiscardTyped ==
  ASSUME Types, NEW q \in Request, Discard(q)
  PROVE  /\ lock' \in [Session -> Seq(Request)]
         /\ held' \in [Session -> Request \cup {NoRequest}]
         /\ index' \subseteq Batch /\ toolTimer' \subseteq Request
         /\ sdk' \in [Request -> {"none", "running", "cancelling", "ended"}]
         /\ settled' \subseteq Request
         /\ armed' \in [Request -> Request \cup {NoRequest}]
<1>1. /\ held' \in [Session -> Request \cup {NoRequest}]
      /\ index' \subseteq Batch /\ toolTimer' \subseteq Request
  BY DEF Types, Discard, Forget
<1>2. CASE q \in settled
  BY <1>1, <1>2 DEF Types, Discard, Teardown, runVars
<1>3. CASE q \notin settled
  <2>1. /\ settled' = settled \cup {q} /\ armed' = [armed EXCEPT ![q] = NoRequest]
        /\ sdk' = [sdk EXCEPT ![q] = IF @ = "running" THEN "cancelling" ELSE @]
        /\ ReleaseMutex(q)
    BY <1>3 DEF Discard, Teardown
  <2> QED
    BY <1>1, <2>1, LockTyped DEF Types
<1> QED
  BY <1>2, <1>3

LEMMA TypesStep == IInv /\ [Next]_vars => Types'
<1> SUFFICES ASSUME IInv, Next PROVE Types'
  BY DEF vars, requestVars, slotVars, registryVars, runVars, IInv, Types
<1> USE DEF requestVars, slotVars, registryVars, runVars, Goto, Answer, Location
<1>1. PICK r \in Request :
        \/ Receive(r) \/ Prepare(r) \/ Execute(r)
        \/ SegmentTimeout(r) \/ PlainTimeout(r) \/ ToolTimeout(r)
        \/ ClientAborts(r) \/ RunEnds(r)
  BY DEF Next
<1>2. CASE Receive(r) \/ CatalogFails(r) \/ Match(r) \/ AcquireSlot(r) \/ SlotGranted(r)
           \/ PrepareFails(r) \/ StartSend(r) \/ PumpDrains(r) \/ PumpCancelled(r)
  <2>1. \E l \in Location : pc' = [pc EXCEPT ![r] = l]
    BY <1>2 DEF Receive, CatalogFails, Match, AcquireSlot, SlotGranted, PrepareFails, StartSend,
                PumpDrains, PumpCancelled
  <2>2. UNCHANGED <<session, hold, works, aborted, timedOut, lock, held, index, toolTimer, sdk,
                    settled, armed, segment>>
    BY <1>2 DEF Receive, CatalogFails, Match, AcquireSlot, SlotGranted, PrepareFails, StartSend,
                PumpDrains, PumpCancelled
  <2> QED
    BY <2>1, <2>2 DEF IInv, Types
<1>3. CASE Prepared(r)
  BY <1>3 DEF Prepared, IInv, Types
<1>4. CASE SendOk(r)
  BY <1>4 DEF SendOk, IInv, Types
<1>5. CASE PlainDrains(r) \/ PlainTimeout(r) \/ RunEnds(r)
  <2>1. pc' \in [Request -> Location]
    BY <1>5 DEF PlainDrains, PlainTimeout, RunEnds, IInv, Types
  <2>2. sdk' \in [Request -> {"none", "running", "cancelling", "ended"}]
    BY <1>5 DEF PlainDrains, PlainTimeout, RunEnds, PlainCancel, IInv, Types
  <2>3. timedOut' \subseteq Request
    BY <1>5 DEF PlainDrains, PlainTimeout, RunEnds, IInv, Types
  <2>4. UNCHANGED <<session, hold, works, aborted, lock, held, index, toolTimer,
                    settled, armed, segment>>
    BY <1>5 DEF PlainDrains, PlainTimeout, RunEnds
  <2> QED
    BY <2>1, <2>2, <2>3, <2>4 DEF IInv, Types
<1>12. CASE SendFails(r) \/ PlainFails(r) \/ PlainDone(r)
  <2>1. lock' \in [Session -> Seq(Request)]
    BY <1>12, LockTyped DEF SendFails, PlainFails, PlainDone, IInv
  <2>2. pc' = [pc EXCEPT ![r] = "done"]
    BY <1>12 DEF SendFails, PlainFails, PlainDone
  <2>3. armed' = armed \/ armed' = [armed EXCEPT ![r] = NoRequest]
    BY <1>12 DEF SendFails, PlainFails, PlainDone
  <2>4. UNCHANGED <<session, hold, works, aborted, timedOut, held, index, toolTimer, sdk,
                    settled, segment>>
    BY <1>12 DEF SendFails, PlainFails, PlainDone
  <2> QED
    BY <2>1, <2>2, <2>3, <2>4 DEF IInv, Types
<1>6. CASE Provide(r)
  <2> DEFINE q == held[session[r]]
  <2>1. UNCHANGED <<session, hold, aborted, timedOut, lock, sdk, settled, segment>>
    BY <1>6 DEF Provide
  <2>2. CASE q = NoRequest
    <3>1. pc' = [pc EXCEPT ![r] = "done"] /\ UNCHANGED <<works, held, index, toolTimer, armed>>
      BY <1>6, <2>2 DEF Provide
    <3> QED
      BY <2>1, <3>1 DEF IInv, Types
  <2>3. CASE q # NoRequest
    <3>1. /\ pc' = [pc EXCEPT ![r] = "pumping"] /\ works' = [works EXCEPT ![r] = q]
          /\ armed' = [armed EXCEPT ![q] = r] /\ toolTimer' = toolTimer \ {q}
          /\ held' = [held EXCEPT ![session[r]] = NoRequest] /\ index' \subseteq index
      BY <1>6, <2>3 DEF Provide, Forget
    <3>2. q \in Request \cup {NoRequest}
      BY DEF IInv, Types
    <3> HIDE DEF q
    <3> QED
      BY <2>1, <3>1, <3>2 DEF IInv, Types
  <2> QED
    BY <2>2, <2>3
<1>7. CASE PumpAsks(r)
  <2>1. works[r] \in Request
    BY <1>7, Pumped DEF PumpAsks, Pumping
  <2>2. segment[works[r]] \in 0 .. MaxSegments /\ segment[works[r]] < MaxSegments
    BY <1>7, <2>1 DEF PumpAsks, IInv, Types
  <2>3. segment[works[r]] + 1 \in 1 .. MaxSegments /\ segment[works[r]] + 1 \in 0 .. MaxSegments
    BY <2>2, GatewayAssumption
  <2> QED
    BY <1>7, <2>1, <2>3 DEF PumpAsks, IInv, Types, Batch
<1>8. CASE PumpTimedOut(r) \/ PumpFails(r) \/ SegmentTimeout(r)
  <2>1. works[r] \in Request /\ Discard(works[r])
    BY <1>8, Pumped DEF PumpTimedOut, PumpFails, SegmentTimeout, Pumping
  <2> QED
    BY <1>8, <2>1, DiscardTyped DEF PumpTimedOut, PumpFails, SegmentTimeout, IInv, Types
<1>9. CASE WaitDone(r)
  <2>1. works[r] \in Request
    BY <1>9, Pumped DEF WaitDone, Pumping
  <2>2. lock' \in [Session -> Seq(Request)]
    BY <1>9, <2>1, LockTyped DEF WaitDone, IInv, Types
  <2> QED
    BY <1>9, <2>1, <2>2 DEF WaitDone, Forget, IInv, Types
<1>10. CASE ToolTimeout(r)
  BY <1>10, DiscardTyped DEF ToolTimeout, IInv, Types
<1>11. CASE ClientAborts(r)
  <2>1. CASE Discard(works[r]) /\ works[r] # NoRequest
    BY <1>11, <2>1, DiscardTyped DEF ClientAborts, IInv, Types
  <2>2. CASE ~(Discard(works[r]) /\ works[r] # NoRequest)
    BY <1>11, <2>2 DEF ClientAborts, PlainCancel, IInv, Types
  <2> QED
    BY <2>1, <2>2
<1> QED
  BY <1>1, <1>2, <1>3, <1>4, <1>5, <1>6, <1>7, <1>8, <1>9, <1>10, <1>11, <1>12
     DEF Prepare, Execute

-----------------------------------------------------------------------------
(* Steps that leave runs and registries alone. *)

\* Request r goes on to stage l without coming to or leaving a run.
Moves(r, l) ==
  /\ pc' = [pc EXCEPT ![r] = l]
  /\ UNCHANGED <<session, hold, works, aborted, timedOut, registryVars, settled, armed, segment>>

LEMMA Outside ==
  ASSUME IInv, NEW r \in Request, pc[r] \in Before, NEW l, Moves(r, l),
         l \in (Before \ {"sending"}) \cup {"done"},
         pc[r] # "sending"
  PROVE  /\ Stages' /\ Runs' /\ Watched' /\ Registered' /\ Tended'
         /\ \A p \in Request : (Live(p)' <=> Live(p)) /\ (p # r => pc'[p] = pc[p])
         /\ pc'[r] = l /\ ~Live(r)
<1>1. pc'[r] = l /\ \A p \in Request \ {r} : pc'[p] = pc[p]
  BY DEF Moves, IInv, Types
<1>2. \A p \in Request : Pumping(p)' <=> Pumping(p)
  BY <1>1 DEF Pumping, Before
<1>3. Runs' /\ Registered' /\ Tended'
  BY <1>2, Calm DEF Moves
<1>4. Stages'
  BY <1>1, <1>2 DEF Moves, IInv, Stages, Before
<1>5. Watched'
  BY <1>2 DEF Moves, IInv, Watched
<1>6. \A p \in Request : Live(p)' <=> Live(p)
  BY <1>1 DEF Moves, Live, Alive, Before
<1>7. ~Live(r)
  BY GatewayAssumption DEF IInv, Stages, Live, Alive, Before
<1> QED
  BY <1>1, <1>3, <1>4, <1>5, <1>6, <1>7

\* Nor does it take or leave a slot or a mutex.
LEMMA PassInv ==
  ASSUME IInv, Types', NEW r \in Request,
         Receive(r) \/ CatalogFails(r) \/ Match(r)
  PROVE  IInv'
<1>1. PICK l \in {"catalog", "done", "matched"} : Moves(r, l)
  BY DEF Receive, CatalogFails, Match, Moves, Goto, Answer, requestVars, runVars
<1>2. pc[r] \in {"idle", "catalog"} /\ UNCHANGED <<lock, slotVars>>
  BY DEF Receive, CatalogFails, Match
<1>3. /\ Stages' /\ Runs' /\ Watched' /\ Registered' /\ Tended'
      /\ \A p \in Request : (Live(p)' <=> Live(p)) /\ (p # r => pc'[p] = pc[p])
      /\ pc'[r] = l
  BY <1>1, <1>2, Outside DEF Before
<1>4. SameStages
  BY <1>1, <1>2, <1>3 DEF SameStages, Moves
<1>5. Locked' /\ Slotted'
  BY <1>2, <1>3, <1>4, KeepLive
<1> QED
  BY <1>3, <1>5 DEF IInv

LEMMA AcquireSlotInv ==
  ASSUME IInv, Types', NEW r \in Request, AcquireSlot(r)
  PROVE  IInv'
<1>1. /\ pc[r] = "catalog" /\ UNCHANGED <<lock, session>>
      /\ \/ Slots!AcquireNow(r) /\ Moves(r, "resolving")
         \/ Slots!AcquireLater(r) /\ Moves(r, "queued")
  BY DEF AcquireSlot, Moves, Goto, requestVars, runVars
<1>2. PICK l \in {"resolving", "queued"} :
        Moves(r, l) /\ \/ l = "resolving" /\ Slots!AcquireNow(r)
                       \/ l = "queued" /\ Slots!AcquireLater(r)
  BY <1>1
<1>3. /\ Stages' /\ Runs' /\ Watched' /\ Registered' /\ Tended'
      /\ \A p \in Request : (Live(p)' <=> Live(p)) /\ (p # r => pc'[p] = pc[p])
      /\ pc'[r] = l /\ ~Live(r)
  BY <1>1, <1>2, Outside DEF Before
<1>4. r \notin slotOwners /\ ~Slots!Queued(r)
  BY <1>1, <1>3 DEF IInv, Slotted
<1>5. Locked'
  BY <1>1, <1>3, LockedKept
<1>6. Slotted'
  <2>1. /\ Cap!IInv'
        /\ \A p \in Request \ {r} : /\ p \in slotOwners' <=> p \in slotOwners
                                    /\ Slots!Queued(p)' => Slots!Queued(p)
        /\ Slots!AcquireNow(r) => r \in slotOwners' /\ ~Slots!Queued(r)'
    BY <1>2, <1>4, SlotTaken DEF IInv, Slotted
  <2> QED
    BY <1>1, <1>2, <1>3, <2>1 DEF IInv, Slotted
<1> QED
  BY <1>3, <1>5, <1>6 DEF IInv

LEMMA SlotGrantedInv ==
  ASSUME IInv, Types', NEW r \in Request, SlotGranted(r)
  PROVE  IInv'
<1>1. /\ pc[r] = "queued" /\ r \in slotOwners /\ UNCHANGED <<lock, slotVars, session>>
      /\ Moves(r, "resolving")
  BY DEF SlotGranted, Moves, Goto, requestVars, runVars
<1>2. /\ Stages' /\ Runs' /\ Watched' /\ Registered' /\ Tended'
      /\ \A p \in Request : (Live(p)' <=> Live(p)) /\ (p # r => pc'[p] = pc[p])
      /\ pc'[r] = "resolving"
  BY <1>1, Outside DEF Before
<1>3. Locked'
  BY <1>1, <1>2, LockedKept
<1>4. Slotted'
  <2>1. ~Slots!Queued(r)
    BY <1>1 DEF IInv, Slotted, Slots!Queued, Cap!IInv, Cap!QueueSound
  <2>2. \A p \in Request : Slots!Queued(p)' <=> Slots!Queued(p)
    BY <1>1 DEF slotVars, Slots!Queued
  <2> QED
    BY <1>1, <1>2, <2>1, <2>2, CapKept DEF IInv, Slotted, slotVars
<1> QED
  BY <1>2, <1>3, <1>4 DEF IInv

LEMMA PrepareFailsInv ==
  ASSUME IInv, Types', NEW r \in Request, PrepareFails(r)
  PROVE  IInv'
<1>1. /\ pc[r] = "resolving" /\ UNCHANGED <<lock, session>> /\ Moves(r, "done")
      /\ ReleaseSlot(r) \/ (TranslationThrows /\ UNCHANGED slotVars)
  BY DEF PrepareFails, Moves, Answer, requestVars, runVars
<1>2. /\ Stages' /\ Runs' /\ Watched' /\ Registered' /\ Tended'
      /\ \A p \in Request : (Live(p)' <=> Live(p)) /\ (p # r => pc'[p] = pc[p])
      /\ pc'[r] = "done" /\ ~Live(r)
  BY <1>1, Outside DEF Before
<1>3. Locked'
  BY <1>1, <1>2, LockedKept
<1>4. CASE ReleaseSlot(r)
  <2>1. r \in slotOwners
    BY <1>1 DEF IInv, Slotted
  <2>2. /\ Cap!IInv' /\ r \notin slotOwners'
        /\ \A p \in Request \ {r} :
             /\ p \in slotOwners => p \in slotOwners'
             /\ p \in slotOwners' => p \in slotOwners \/ Slots!Queued(p)
        /\ \A p \in Request : Slots!Queued(p)' => Slots!Queued(p)
    BY <1>4, <2>1, SlotReleased DEF IInv, Slotted
  <2>3. Slotted'
    BY <1>1, <1>2, <2>2 DEF IInv, Slotted
  <2> QED
    BY <1>2, <1>3, <2>3 DEF IInv
<1>5. CASE TranslationThrows /\ UNCHANGED slotVars
  <2>1. \A p \in Request : Slots!Queued(p)' <=> Slots!Queued(p)
    BY <1>5 DEF slotVars, Slots!Queued
  <2>2. ~Slots!Queued(r)
    BY <1>1 DEF IInv, Slotted
  <2>3. Slotted'
    BY <1>1, <1>2, <1>5, <2>1, <2>2, CapKept DEF IInv, Slotted, slotVars
  <2> QED
    BY <1>2, <1>3, <2>3 DEF IInv
<1> QED
  BY <1>1, <1>4, <1>5

\* Request r joins the queue of its session's mutex.
LEMMA PreparedInv ==
  ASSUME IInv, Types', NEW r \in Request, Prepared(r)
  PROVE  IInv'
<1> DEFINE t == session[r]
<1>1. /\ pc[r] = "resolving" /\ UNCHANGED <<slotVars, session>> /\ Moves(r, "locking")
      /\ lock' = [lock EXCEPT ![t] = Append(lock[t], r)]
  BY DEF Prepared, Moves, Goto, requestVars, runVars
<1>2. /\ Stages' /\ Runs' /\ Watched' /\ Registered' /\ Tended'
      /\ \A p \in Request : (Live(p)' <=> Live(p)) /\ (p # r => pc'[p] = pc[p])
      /\ pc'[r] = "locking" /\ ~Live(r)
  BY <1>1, Outside DEF Before
<1>3. t \in Session /\ \A s \in Session : lock[s] \in Seq(Request)
  BY DEF IInv, Types
<1> HIDE DEF t
<1>4. /\ \A s \in Session \ {t} : lock'[s] = lock[s]
      /\ DOMAIN lock'[t] = 1 .. Len(lock[t]) + 1 /\ DOMAIN lock[t] = 1 .. Len(lock[t])
      /\ Len(lock[t]) \in Nat /\ lock'[t][Len(lock[t]) + 1] = r
      /\ \A i \in DOMAIN lock[t] : lock'[t][i] = lock[t][i]
  <2>1. lock'[t] = Append(lock[t], r) /\ \A s \in Session \ {t} : lock'[s] = lock[s]
    BY <1>1, <1>3 DEF IInv, Types
  <2> QED
    BY <1>3, <2>1
<1>5. /\ \A s \in Session : \A i \in DOMAIN lock[s] : lock[s][i] \in Request \ {r}
      /\ \A s \in Session : \A i, j \in DOMAIN lock[s] :
           /\ session[lock[s][i]] = s
           /\ lock[s][i] = lock[s][j] => i = j
           /\ pc[lock[s][i]] = "locking" \/ Live(lock[s][i])
  <2>1. \A s \in Session : \A i \in DOMAIN lock[s] :
          pc[lock[s][i]] = "locking" \/ Live(lock[s][i])
    BY DEF IInv, Locked
  <2>2. pc[r] # "locking" /\ ~Live(r)
    BY <1>1, <1>2
  <2> QED
    BY <1>3, <2>1, <2>2 DEF IInv, Locked
<1>6. ASSUME NEW s \in Session, NEW i \in DOMAIN lock'[s], NEW j \in DOMAIN lock'[s]
      PROVE  /\ session'[lock'[s][i]] = s
             /\ lock'[s][i] = lock'[s][j] => i = j
             /\ lock'[s][i] \in Request
             /\ lock'[s][i] = r \/ pc[lock'[s][i]] = "locking" \/ Live(lock'[s][i])
  <2>1. CASE s # t
    <3>1. lock'[s] = lock[s]
      BY <1>4, <2>1
    <3>2. i \in DOMAIN lock[s] /\ j \in DOMAIN lock[s] /\ session' = session
      BY <1>1, <3>1
    <3>3. /\ session[lock[s][i]] = s
          /\ lock[s][i] = lock[s][j] => i = j
          /\ lock[s][i] \in Request
          /\ pc[lock[s][i]] = "locking" \/ Live(lock[s][i])
      BY <1>5, <3>2
    <3> QED
      BY <3>1, <3>2, <3>3
  <2>2. CASE s = t /\ i = Len(lock[t]) + 1
    <3>1. lock'[s][i] = r /\ session'[r] = s
      BY <1>1, <1>4, <2>2 DEF t
    <3>2. j = i \/ j \in DOMAIN lock[t]
      BY <1>4, <2>2
    <3>3. j \in DOMAIN lock[t] => lock'[s][j] # r
      BY <1>3, <1>4, <1>5, <2>2
    <3> QED
      BY <1>2, <3>1, <3>2, <3>3
  <2>3. CASE s = t /\ i # Len(lock[t]) + 1
    <3>1. i \in DOMAIN lock[t] /\ lock'[s][i] = lock[t][i]
      BY <1>4, <2>3
    <3>2. lock[t][i] \in Request \ {r}
      BY <1>3, <1>5, <3>1
    <3>3. /\ session'[lock'[s][i]] = s
          /\ pc[lock'[s][i]] = "locking" \/ Live(lock'[s][i])
      BY <1>1, <1>3, <1>5, <2>3, <3>1, <3>2
    <3>4. CASE j = Len(lock[t]) + 1
      BY <1>4, <2>3, <3>1, <3>2, <3>3, <3>4
    <3>5. CASE j # Len(lock[t]) + 1
      <4>1. j \in DOMAIN lock[t] /\ lock'[s][j] = lock[t][j]
        BY <1>4, <2>3, <3>5
      <4> QED
        BY <1>3, <1>5, <3>1, <3>3, <4>1
    <3> QED
      BY <3>4, <3>5
  <2> QED
    BY <2>1, <2>2, <2>3
<1>7. ASSUME NEW p \in Request, Live(p)'
      PROVE  OwnsLock(p)'
  <2>1. OwnsLock(p) /\ session'[p] = session[p] /\ session[p] \in Session
    BY <1>1, <1>2, <1>7 DEF IInv, Types, Locked
  <2>2. CASE session[p] # t
    BY <1>4, <2>1, <2>2 DEF OwnsLock
  <2>3. CASE session[p] = t
    <3>1. lock[t] \in Seq(Request) /\ lock[t] # <<>> /\ lock[t][1] = p /\ 1 \in DOMAIN lock[t]
      BY <1>3, <2>1, <2>3 DEF OwnsLock
    <3>2. lock'[t] \in Seq(Request)
      BY <1>3 DEF Types
    <3>3. lock'[t][1] = p /\ lock'[t] # <<>>
      BY <1>4, <3>1
    <3> QED
      BY <2>1, <2>3, <3>2, <3>3 DEF OwnsLock
  <2> QED
    BY <2>2, <2>3
<1>8. Locked'
  <2>1. \A p \in Request : pc[p] = "locking" \/ Live(p) \/ p = r
                           => pc'[p] = "locking" \/ Live(p)'
    BY <1>2
  <2> QED
    BY <1>6, <1>7, <2>1 DEF Locked
<1>9. Slotted'
  <2>1. \A p \in Request : Slots!Queued(p)' <=> Slots!Queued(p)
    BY <1>1 DEF slotVars, Slots!Queued
  <2>2. ~Slots!Queued(r) /\ r \in slotOwners
    BY <1>1 DEF IInv, Slotted
  <2> QED
    BY <1>1, <1>2, <2>1, <2>2, CapKept DEF IInv, Slotted, slotVars
<1> QED
  BY <1>2, <1>8, <1>9 DEF IInv

-----------------------------------------------------------------------------
(* A run starts. *)

LEMMA StartSendInv ==
  ASSUME IInv, Types', NEW r \in Request, StartSend(r)
  PROVE  IInv'
<1>1. /\ pc[r] = "locking" /\ OwnsLock(r) /\ Moves(r, "sending")
      /\ UNCHANGED <<lock, slotVars, session>>
  BY DEF StartSend, Moves, Goto, requestVars, runVars
<1>2. pc'[r] = "sending" /\ \A p \in Request \ {r} : pc'[p] = pc[p]
  BY <1>1 DEF Moves, IInv, Types
<1>3. \A p \in Request : Pumping(p)' <=> Pumping(p)
  BY <1>1, <1>2 DEF Pumping
<1>4. Runs' /\ Registered' /\ Tended'
  BY <1>1, <1>3, Calm DEF Moves
<1>5. Stages' /\ Watched'
  BY <1>1, <1>2, <1>3 DEF Moves, IInv, Stages, Watched, Before
<1>6. \A p \in Request : Live(p)' <=> Live(p) \/ p = r
  BY <1>1, <1>2 DEF Moves, Live, Alive
<1>7. Locked'
  <2>1. \A s \in Session : \A i \in DOMAIN lock[s] : lock[s][i] \in Request
    BY DEF IInv, Types
  <2>2. \A p \in Request : OwnsLock(p)' <=> OwnsLock(p)
    BY <1>1 DEF OwnsLock
  <2> QED
    BY <1>1, <1>2, <1>6, <2>1, <2>2 DEF IInv, Locked
<1>8. Slotted'
  <2>1. \A p \in Request : Slots!Queued(p)' <=> Slots!Queued(p)
    BY <1>1 DEF slotVars, Slots!Queued
  <2>2. ~Slots!Queued(r) /\ r \in slotOwners
    BY <1>1 DEF IInv, Slotted
  <2> QED
    BY <1>1, <1>2, <1>6, <2>1, <2>2, CapKept DEF IInv, Slotted, slotVars
<1> QED
  BY <1>4, <1>5, <1>7, <1>8 DEF IInv

LEMMA SendOkInv ==
  ASSUME IInv, Types', NEW r \in Request, SendOk(r)
  PROVE  IInv'
<1>1. /\ pc[r] = "sending"
      /\ works[r] = NoRequest /\ r \notin aborted /\ r \notin timedOut /\ r \notin settled
  BY GatewayAssumption DEF SendOk, IInv, Stages, Runs, Before
<1>2. /\ UNCHANGED <<session, hold, aborted, timedOut, slotVars, lock, registryVars, held, index,
                     toolTimer, settled, segment>>
      /\ works'[r] = r /\ armed'[r] = r
      /\ r \in hold => pc'[r] = "pumping"
      /\ r \notin hold => pc'[r] = "plain"
      /\ \A p \in Request \ {r} : /\ pc'[p] = pc[p] /\ works'[p] = works[p]
                                  /\ armed'[p] = armed[p]
  BY <1>1 DEF SendOk, Goto, requestVars, registryVars, IInv, Types
<1>3. \A p \in Request : p # r =>
        /\ works[p] # r
        /\ Pumping(p)' <=> Pumping(p)
        /\ Alive(p)' <=> Alive(p)
        /\ Live(p)' <=> Live(p)
  BY <1>1, <1>2, GatewayAssumption DEF IInv, Runs, Pumping, Alive, Live
<1>4. Live(r) /\ Live(r)' /\ (Pumping(r)' <=> r \in hold) /\ ~Pumping(r)
  BY <1>1, <1>2 DEF Live, Alive, Pumping
<1>5. Stages'
  BY <1>1, <1>2, <1>3, <1>4 DEF IInv, Stages, Pumping, Before
<1>6. Runs'
  BY <1>1, <1>2, <1>3, GatewayAssumption DEF IInv, Runs, Types
<1>7. Watched'
  <2>1. \A p \in Request : Pumping(p) => works[p] \in Request
    BY Pumped
  <2> QED
    BY <1>1, <1>2, <1>3, <1>4, <2>1 DEF IInv, Watched
<1>8. Locked' /\ Slotted'
  <2>1. SameStages
    BY <1>1, <1>2 DEF SameStages
  <2> QED
    BY <1>2, <1>3, <1>4, <2>1, KeepLive
<1>9. held[session[r]] = NoRequest
  <2>1. SUFFICES ASSUME held[session[r]] # NoRequest PROVE FALSE
    OBVIOUS
  <2>2. PICK p \in Request : p = held[session[r]]
    BY <2>1 DEF IInv, Types
  <2>3. Alive(p) /\ session[p] = session[r]
    BY <2>1, <2>2 DEF IInv, Types, Registered
  <2>4. p = r
    BY <1>4, <2>3, OneLive DEF Live
  <2> QED
    BY <1>1, <2>3, <2>4, GatewayAssumption DEF Alive
<1>10. Registered'
  <2>1. \A p \in Request : IsHeld(p)' <=> IsHeld(p)
    BY <1>2 DEF IsHeld
  <2>2. ASSUME NEW s \in Session, held[s] # NoRequest
        PROVE  /\ session[held[s]] = s /\ Alive(held[s])'
               /\ \A p \in Request : Pumping(p)' => session[p] # s
    <3>1. s # session[r] /\ held[s] \in Request
      BY <1>9, <2>2 DEF IInv, Types
    <3>2. session[held[s]] = s /\ Alive(held[s]) /\ \A p \in Request : Pumping(p) => session[p] # s
      BY <2>2 DEF IInv, Registered
    <3> QED
      BY <1>2, <1>3, <3>1, <3>2 DEF Alive
  <2> QED
    BY <1>2, <2>1, <2>2 DEF IInv, Registered, Alive
<1>11. Tended'
  <2>1. SUFFICES ASSUME NEW p \in Request, Alive(p)'
                 PROVE  IsHeld(p)' \/ \E x \in Request : Pumping(x)' /\ works'[x] = p
    BY DEF Tended
  <2>2. CASE p = r
    BY <1>2, <1>4, <2>1, <2>2 DEF Alive
  <2>3. CASE p # r
    BY <1>1, <1>2, <1>3, <1>4, <2>1, <2>3 DEF IInv, Tended, IsHeld
  <2> QED
    BY <2>2, <2>3
<1> QED
  BY <1>5, <1>6, <1>7, <1>8, <1>10, <1>11 DEF IInv

\* agent.send() rejects, or a run that is not held is over.
LEMMA UnheldEndsInv ==
  ASSUME IInv, Types', NEW r \in Request, SendFails(r) \/ PlainFails(r) \/ PlainDone(r)
  PROVE  IInv'
<1>1. /\ pc[r] \in {"sending", "plain", "finishing"} /\ pc'[r] = "done"
      /\ ReleaseMutex(r)
      /\ \A p \in Request \ {r} : pc'[p] = pc[p]
      /\ UNCHANGED <<session, hold, works, aborted, timedOut, registryVars, settled, segment>>
      /\ r \in hold => armed' = armed
      /\ \A p \in Request \ {r} : armed'[p] = armed[p]
  BY DEF SendFails, PlainFails, PlainDone, Answer, requestVars, runVars, IInv, Types, Stages
<1>2. \A p \in Request : Pumping(p)' <=> Pumping(p)
  BY <1>1 DEF Pumping
<1>3. Runs' /\ Registered' /\ Tended'
  BY <1>1, <1>2, Calm
<1>4. Stages'
  BY <1>1, <1>2 DEF IInv, Stages, Before
<1>5. Watched'
  <2>1. \A p \in Request : Pumping(p) => works[p] \in Request /\ works[p] \in hold
    BY Pumped
  <2> QED
    BY <1>1, <1>2, <2>1 DEF IInv, Watched
<1>6. Live(r) /\ ~Live(r)'
  BY <1>1, GatewayAssumption DEF Live, Alive, IInv, Stages, Before
<1>7. \A p \in Request \ {r} : Live(p)' <=> Live(p)
  BY <1>1 DEF Live, Alive
<1>8. SameStages
  BY <1>1 DEF SameStages
<1>9. Locked' /\ Slotted'
  BY <1>1, <1>6, <1>7, <1>8, EndLive
<1> QED
  BY <1>3, <1>4, <1>5, <1>9 DEF IInv

-----------------------------------------------------------------------------
(* A run goes from hand to hand. *)

\* The continuation takes the held run of its session, if there still is one.
LEMMA ProvideInv ==
  ASSUME IInv, Types', NEW r \in Request, Provide(r)
  PROVE  IInv'
<1> DEFINE s == session[r]
           q == held[s]
<1>1. /\ pc[r] = "matched" /\ works[r] = NoRequest
      /\ r \notin aborted /\ r \notin timedOut /\ r \notin settled /\ s \in Session
      /\ UNCHANGED <<session, hold, aborted, timedOut, slotVars, lock, settled, segment>>
  BY GatewayAssumption DEF Provide, requestVars, IInv, Types, Stages, Runs, Before
<1>2. CASE q = NoRequest
  <2>1. Moves(r, "done") /\ UNCHANGED <<lock, slotVars>>
    BY <1>1, <1>2 DEF Provide, Moves, Answer
  <2>2. /\ Stages' /\ Runs' /\ Watched' /\ Registered' /\ Tended'
        /\ \A p \in Request : (Live(p)' <=> Live(p)) /\ (p # r => pc'[p] = pc[p])
        /\ pc'[r] = "done"
    BY <1>1, <2>1, Outside DEF Before
  <2>3. SameStages
    BY <1>1, <2>2 DEF SameStages
  <2>4. Locked' /\ Slotted'
    BY <2>1, <2>2, <2>3, KeepLive
  <2> QED
    BY <2>2, <2>4 DEF IInv
<1>3. CASE q # NoRequest
  <2>1. /\ q \in Request /\ session[q] = s /\ Alive(q)
        /\ \A p \in Request : Pumping(p) => session[p] # s
    BY <1>1, <1>3 DEF IInv, Types, Registered
  <2>2. /\ q # r /\ works[q] = q /\ q \in hold /\ q \notin settled
    BY <1>1, <2>1, GatewayAssumption DEF Alive
  <2>3. /\ pc' = [pc EXCEPT ![r] = "pumping"] /\ works' = [works EXCEPT ![r] = q]
        /\ armed' = [armed EXCEPT ![q] = r] /\ toolTimer' = toolTimer \ {q}
        /\ held' = [held EXCEPT ![s] = NoRequest]
        /\ index' = {b \in index : session[b[1]] # s}
    BY <1>3 DEF Provide, Forget, Goto
  <2> HIDE DEF q
  <2>4. /\ pc'[r] = "pumping" /\ works'[r] = q /\ armed'[q] = r
        /\ \A p \in Request \ {r} : pc'[p] = pc[p] /\ works'[p] = works[p]
        /\ \A p \in Request \ {q} : armed'[p] = armed[p]
        /\ \A t \in Session : held'[t] = IF t = s THEN NoRequest ELSE held[t]
    BY <1>1, <2>1, <2>3 DEF IInv, Types
  <2>5. \A p \in Request :
          /\ Pumping(p)' <=> Pumping(p) \/ p = r
          /\ Alive(p)' <=> Alive(p)
          /\ Live(p)' <=> Live(p)
    BY <1>1, <2>2, <2>4, GatewayAssumption DEF Pumping, Alive, Live
  <2>6. Stages'
    BY <1>1, <2>1, <2>2, <2>4, <2>5 DEF IInv, Stages, Pumping, Before
  <2>7. \A p \in Request : works[p] # r
    BY <1>1, GatewayAssumption DEF IInv, Runs
  <2>8. Runs'
    <3>1. \A p \in Request : works'[p] # NoRequest => works'[works'[p]] = works'[p]
      <4>1. \A p \in Request : works[p] \in Request \cup {NoRequest}
        BY DEF IInv, Types
      <4>2. works'[q] = q
        BY <2>1, <2>2, <2>4
      <4> QED
        BY <2>4, <2>7, <4>1, <4>2 DEF IInv, Runs
    <3> QED
      BY <1>1, <2>4, <3>1 DEF IInv, Runs, Types
  <2>9. Watched'
    <3>1. \A p \in Request : Pumping(p) => works[p] \in Request /\ works[p] # q
      BY <2>1, Pumped
    <3> QED
      BY <1>1, <2>4, <2>5, <3>1 DEF IInv, Watched
  <2>10. Locked' /\ Slotted'
    <3>1. SameStages
      BY <1>1, <2>4 DEF SameStages
    <3> QED
      BY <1>1, <2>5, <3>1, KeepLive
  <2>11. \A p \in Request : /\ IsHeld(p)' <=> IsHeld(p) /\ p # q
                            /\ IsHeld(p) /\ p # q => session[p] # s
    BY <1>1, <2>1, <2>4, GatewayAssumption DEF IsHeld, IInv, Types, q
  <2>12. Registered'
    <3>1. ASSUME NEW t \in Session, held'[t] # NoRequest
          PROVE  /\ session[held'[t]] = t /\ Alive(held[t])' /\ held'[t] = held[t]
                 /\ \A p \in Request : Pumping(p)' => session[p] # t
      <4>1. held'[t] = held[t] /\ t # s /\ held[t] \in Request
        BY <2>4, <3>1 DEF IInv, Types
      <4>2. /\ session[held[t]] = t /\ Alive(held[t])
            /\ \A p \in Request : Pumping(p) => session[p] # t
        BY <3>1, <4>1 DEF IInv, Registered
      <4> QED
        BY <1>1, <2>5, <4>1, <4>2 DEF Alive
    <3>2. \A p \in Request : p \in toolTimer' <=> IsHeld(p)'
      BY <2>3, <2>11 DEF IInv, Registered
    <3>3. index' = {<<p, segment[p]>> : p \in {x \in Request : IsHeld(x)'}}
      BY <2>1, <2>3, <2>11 DEF IInv, Registered
    <3> QED
      BY <1>1, <3>1, <3>2, <3>3 DEF Registered, Alive
  <2>13. Tended'
    <3>1. SUFFICES ASSUME NEW p \in Request, Alive(p)'
                   PROVE  IsHeld(p)' \/ \E x \in Request : Pumping(x)' /\ works'[x] = p
      BY DEF Tended
    <3>2. CASE p = q
      BY <2>4, <2>5, <3>2
    <3>3. CASE p # q
      <4>1. IsHeld(p) \/ \E x \in Request : Pumping(x) /\ works[x] = p
        BY <2>5, <3>1 DEF IInv, Tended
      <4>2. \A x \in Request : Pumping(x) => x # r
        BY <2>1
      <4> QED
        BY <2>4, <2>5, <2>11, <3>3, <4>1, <4>2
    <3> QED
      BY <3>2, <3>3
  <2> QED
    BY <2>6, <2>8, <2>9, <2>10, <2>12, <2>13 DEF IInv
<1> QED
  BY <1>2, <1>3

\* The run asks for a batch: it is registered, and nobody else pumps in its
\* session.
LEMMA PumpAsksInv ==
  ASSUME IInv, Types', NEW r \in Request, PumpAsks(r)
  PROVE  IInv'
<1> DEFINE q == works[r]
           s == session[q]
<1>1. Pumping(r) /\ pc[r] = "pumping" /\ q \notin settled /\ ~Unwinding(r)
  BY DEF PumpAsks, Pumping
<1>2. /\ q \in Request /\ works[q] = q /\ q \in hold /\ session[r] = s
      /\ held[s] = NoRequest /\ s \in Session
  BY <1>1, Pumped
<1>3. Alive(q) /\ armed[q] = r
  BY <1>1, <1>2 DEF Alive, IInv, Watched
<1>4. /\ UNCHANGED <<session, hold, works, aborted, timedOut, slotVars, lock, settled, armed>>
      /\ pc' = [pc EXCEPT ![r] = "done"] /\ segment' = [segment EXCEPT ![q] = @ + 1]
      /\ held' = [held EXCEPT ![s] = q] /\ index' = index \cup {<<q, segment[q] + 1>>}
      /\ toolTimer' = toolTimer \cup {q}
  BY DEF PumpAsks, Answer, requestVars, runVars
<1> HIDE DEF q, s
<1>5. /\ pc'[r] = "done" /\ \A p \in Request \ {r} : pc'[p] = pc[p]
      /\ segment'[q] = segment[q] + 1
      /\ \A p \in Request \ {q} : segment'[p] = segment[p]
      /\ \A t \in Session : held'[t] = IF t = s THEN q ELSE held[t]
  BY <1>2, <1>4 DEF IInv, Types
<1>6. \A p \in Request :
        /\ Pumping(p)' <=> Pumping(p) /\ p # r
        /\ Alive(p)' <=> Alive(p)
        /\ Live(p)' <=> Live(p)
  BY <1>1, <1>4, <1>5 DEF Pumping, Alive, Live
<1>7. Stages' /\ Runs' /\ Watched'
  BY <1>4, <1>5, <1>6 DEF IInv, Stages, Runs, Watched, Pumping, Before
<1>8. Locked' /\ Slotted'
  <2>1. SameStages
    BY <1>1, <1>4, <1>5 DEF SameStages
  <2> QED
    BY <1>4, <1>6, <2>1, KeepLive
<1>9. \A p \in Request : Pumping(p) /\ p # r => session[p] # s
  <2>1. SUFFICES ASSUME NEW p \in Request, Pumping(p), p # r, session[p] = s
                 PROVE  FALSE
    OBVIOUS
  <2>2. /\ works[p] \in Request /\ works[works[p]] = works[p] /\ works[p] \in hold
        /\ session[works[p]] = s
    BY <2>1, Pumped
  <2>3. works[p] \notin settled
    BY <1>1, <1>2, <2>1 DEF Unwinding
  <2>4. works[p] = q
    BY <1>2, <1>3, <2>2, <2>3, OneLive DEF Live, Alive, s
  <2>5. armed[q] = p
    BY <2>1, <2>3, <2>4 DEF IInv, Watched
  <2> QED
    BY <1>3, <2>1, <2>5
<1>10. \A p \in Request : /\ IsHeld(p)' <=> IsHeld(p) \/ p = q
                          /\ IsHeld(p) => p # q /\ session[p] # s
  BY <1>2, <1>4, <1>5, GatewayAssumption DEF IsHeld, IInv, Types, s
<1>11. Registered'
  <2>1. ASSUME NEW t \in Session, held'[t] # NoRequest
        PROVE  /\ session[held'[t]] = t /\ Alive(held'[t])
               /\ \A p \in Request : Pumping(p)' => session[p] # t
    <3>1. CASE t = s
      BY <1>2, <1>3, <1>5, <1>6, <1>9, <3>1 DEF s
    <3>2. CASE t # s
      <4>1. held'[t] = held[t]
        BY <1>5, <3>2
      <4> QED
        BY <1>6, <2>1, <4>1 DEF IInv, Registered
    <3> QED
      BY <3>1, <3>2
  <2>2. \A p \in Request : p \in toolTimer' <=> IsHeld(p)'
    BY <1>2, <1>4, <1>10 DEF IInv, Registered
  <2>3. index' = {<<p, segment'[p]>> : p \in {x \in Request : IsHeld(x)'}}
    BY <1>2, <1>4, <1>5, <1>10 DEF IInv, Registered
  <2>4. \A t \in Session : held'[t] # NoRequest => Alive(held[t])'
    BY <1>4, <2>1 DEF Alive
  <2> QED
    BY <1>4, <2>1, <2>2, <2>3, <2>4 DEF Registered
<1>12. Tended'
  <2>1. SUFFICES ASSUME NEW p \in Request, Alive(p), p # q
                 PROVE  IsHeld(p)' \/ \E x \in Request : Pumping(x)' /\ works[x] = p
    BY <1>4, <1>6, <1>10 DEF Tended
  <2>2. IsHeld(p) \/ \E x \in Request : Pumping(x) /\ works[x] = p
    BY <2>1 DEF IInv, Tended
  <2> QED
    BY <1>6, <1>10, <2>1, <2>2 DEF q
<1> QED
  BY <1>7, <1>8, <1>11, <1>12 DEF IInv

\* The client went away: the abort listener has settled the run, and its slot
\* is back.
LEMMA PumpCancelledInv ==
  ASSUME IInv, Types', NEW r \in Request, PumpCancelled(r)
  PROVE  IInv'
<1>1. /\ Pumping(r) /\ pc[r] = "pumping" /\ r \in aborted
      /\ UNCHANGED <<session, hold, works, aborted, timedOut, lock, registryVars, settled, armed,
                     segment>>
      /\ pc' = [pc EXCEPT ![r] = "done"]
  BY DEF PumpCancelled, Pumping, Answer, requestVars, runVars
<1>2. works[r] \in settled
  BY <1>1 DEF IInv, Watched
<1>3. UNCHANGED slotVars
  <2>1. CASE works[r] # r
    BY <2>1 DEF PumpCancelled
  <2>2. CASE works[r] = r
    <3>1. r \notin slotOwners
      BY <1>1, <1>2, <2>2 DEF IInv, Slotted, Live, Alive
    <3> QED
      BY <2>2, <3>1 DEF PumpCancelled, ReleaseSlot
  <2> QED
    BY <2>1, <2>2
<1>4. pc'[r] = "done" /\ \A p \in Request \ {r} : pc'[p] = pc[p]
  BY <1>1 DEF IInv, Types
<1>5. /\ \A p \in Request : /\ Pumping(p)' <=> Pumping(p) /\ p # r
                            /\ Live(p)' <=> Live(p)
                            /\ IsHeld(p)' <=> IsHeld(p)
      /\ \A p \in Request \cup {NoRequest} : Alive(p)' <=> Alive(p)
  BY <1>1, <1>4 DEF Pumping, Alive, Live, IsHeld, registryVars
<1>6. Stages' /\ Runs' /\ Watched'
  BY <1>1, <1>4, <1>5 DEF IInv, Stages, Runs, Watched, Pumping, Before
<1>7. Locked' /\ Slotted'
  <2>1. SameStages
    BY <1>1, <1>4 DEF SameStages
  <2> QED
    BY <1>1, <1>3, <1>5, <2>1, KeepLive
<1>8. Registered'
  BY <1>1, <1>5 DEF IInv, Types, Registered, registryVars
<1>9. Tended'
  <2>1. \A p \in Request : Alive(p) => p # works[r]
    BY <1>2 DEF Alive
  <2> QED
    BY <1>1, <1>5, <2>1 DEF IInv, Tended
<1> QED
  BY <1>6, <1>7, <1>8, <1>9 DEF IInv

\* The stream of a run is over; a plain run is cancelled; a run ends.
LEMMA QuietInv ==
  ASSUME IInv, Types', NEW r \in Request,
         PumpDrains(r) \/ PlainDrains(r) \/ PlainTimeout(r) \/ RunEnds(r)
  PROVE  IInv'
<1>1. /\ UNCHANGED <<session, hold, works, aborted, slotVars, lock, registryVars, settled, armed,
                     segment>>
      /\ \/ pc' = pc
         \/ pc[r] = "pumping" /\ pc' = [pc EXCEPT ![r] = "waiting"]
         \/ pc[r] = "plain" /\ pc' = [pc EXCEPT ![r] = "finishing"]
      /\ timedOut' = timedOut \/ (pc[r] = "plain" /\ timedOut' = timedOut \cup {r})
  BY DEF PumpDrains, PlainDrains, PlainTimeout, RunEnds, Goto, requestVars, runVars
<1>2. /\ \A p \in Request \ {r} : pc'[p] = pc[p]
      /\ \/ pc'[r] = pc[r]
         \/ pc[r] = "pumping" /\ pc'[r] = "waiting"
         \/ pc[r] = "plain" /\ pc'[r] = "finishing"
  BY <1>1 DEF IInv, Types
<1>3. \A p \in Request : (Pumping(p)' <=> Pumping(p)) /\ (Live(p)' <=> Live(p))
  BY <1>1, <1>2 DEF Pumping, Alive, Live
<1>4. Runs' /\ Registered' /\ Tended'
  BY <1>1, <1>3, Calm
<1>5. Stages'
  BY <1>1, <1>2, <1>3 DEF IInv, Stages, Before
<1>6. Watched'
  <2>1. pc[r] = "plain" => ~Pumping(r)
    BY DEF Pumping
  <2> QED
    BY <1>1, <1>3, <2>1 DEF IInv, Watched
<1>7. SameStages
  BY <1>1, <1>2 DEF SameStages
<1>8. Locked' /\ Slotted'
  BY <1>1, <1>3, <1>7, KeepLive
<1> QED
  BY <1>4, <1>5, <1>6, <1>8 DEF IInv

-----------------------------------------------------------------------------
(* A run is discarded, or is over. *)

LEMMA PumpDiscardsInv ==
  ASSUME IInv, Types', NEW r \in Request,
         PumpTimedOut(r) \/ PumpFails(r) \/ SegmentTimeout(r)
  PROVE  IInv'
<1> DEFINE q == works[r]
<1>1. /\ Pumping(r) /\ Discard(q) /\ UNCHANGED <<session, hold, works, aborted, segment>>
      /\ pc' = pc \/ pc' = [pc EXCEPT ![r] = "done"]
      /\ timedOut' = timedOut \/ timedOut' = timedOut \cup {r}
  BY DEF PumpTimedOut, PumpFails, SegmentTimeout, Pumping, Answer, requestVars
<1>2. /\ q \in Request /\ works[q] = q /\ q \in hold /\ session[q] = session[r]
      /\ held[session[q]] = NoRequest
  BY <1>1, Pumped
<1>3. Ended(q) /\ Cleared(q)
  BY <1>1, <1>2, DiscardEnds
<1>4. /\ pc'[r] = pc[r] \/ pc'[r] = "done"
      /\ \A p \in Request \ {r} : pc'[p] = pc[p]
  BY <1>1 DEF IInv, Types
<1>5. SameStages
  BY <1>1, <1>4 DEF SameStages, Pumping
<1> HIDE DEF q
<1>6. /\ \A p \in Request : \/ pc'[p] = pc[p]
                            \/ Pumping(p) /\ works[p] = q /\ pc'[p] = "done"
      /\ \A p \in Request : \/ Pumping(p) /\ works[p] = q
                            \/ /\ p \in aborted' => p \in aborted
                               /\ p \in timedOut' => p \in timedOut
  BY <1>1, <1>4 DEF q
<1> QED
  BY <1>1, <1>2, <1>3, <1>5, <1>6, RunEnded

LEMMA ToolTimeoutInv ==
  ASSUME IInv, Types', NEW q \in Request, ToolTimeout(q)
  PROVE  IInv'
<1>1. /\ q \in toolTimer /\ Discard(q)
      /\ UNCHANGED <<pc, session, hold, works, aborted, timedOut, segment>>
  BY DEF ToolTimeout, requestVars
<1>2. held[session[q]] = q /\ works[q] = q /\ q \in hold
  <2>1. held[session[q]] = q /\ session[q] \in Session
    BY <1>1 DEF IInv, Registered, IsHeld, Types
  <2> QED
    BY <2>1, GatewayAssumption DEF IInv, Registered, Alive
<1>3. Ended(q) /\ Cleared(q)
  BY <1>1, <1>2, DiscardEnds
<1>4. SameStages
  BY <1>1 DEF SameStages
<1> QED
  BY <1>1, <1>2, <1>3, <1>4, RunEnded

LEMMA WaitDoneInv ==
  ASSUME IInv, Types', NEW r \in Request, WaitDone(r)
  PROVE  IInv'
<1> DEFINE q == works[r]
           s == session[q]
<1>1. /\ Pumping(r) /\ UNCHANGED <<session, hold, works, aborted, timedOut, segment>>
      /\ pc' = [pc EXCEPT ![r] = "done"]
  BY DEF WaitDone, Pumping, Answer, requestVars
<1>2. /\ q \in Request /\ works[q] = q /\ q \in hold /\ session[r] = s
      /\ held[s] = NoRequest /\ s \in Session
  BY <1>1, Pumped
<1>3. Ended(q)
  <2>1. CASE q \in settled
    BY <2>1 DEF WaitDone, Ended, slotVars
  <2>2. CASE q \notin settled
    BY <2>2 DEF WaitDone, Ended, IInv, Types
  <2> QED
    BY <2>1, <2>2
<1>4. Cleared(q)
  <2>1. \A p \in Request : IsHeld(p) => session[p] # s
    BY <1>2, GatewayAssumption DEF IsHeld
  <2>2. \A p \in toolTimer : session[p] # s
    BY <2>1 DEF IInv, Types, Registered
  <2>3. index = {b \in index : session[b[1]] # s}
    BY <2>1 DEF IInv, Registered
  <2>4. held = [held EXCEPT ![s] = NoRequest]
    BY <1>2 DEF IInv, Types
  <2>5. /\ held' = held \/ held' = [held EXCEPT ![s] = NoRequest]
        /\ index' = index
        /\ toolTimer' \in {toolTimer \ {q}, toolTimer \ {q, held[s]}}
    BY <1>2 DEF WaitDone, Forget
  <2>6. NoRequest \notin toolTimer /\ q \notin toolTimer
    BY <2>2, GatewayAssumption DEF IInv, Types
  <2>7. toolTimer' = toolTimer
    BY <1>2, <2>5, <2>6
  <2> QED
    BY <2>2, <2>3, <2>4, <2>5, <2>7 DEF Cleared
<1>5. pc'[r] = "done" /\ \A p \in Request \ {r} : pc'[p] = pc[p]
  BY <1>1 DEF IInv, Types
<1>6. SameStages
  BY <1>1, <1>5 DEF SameStages, Pumping
<1> QED
  BY <1>1, <1>2, <1>3, <1>4, <1>5, <1>6, RunEnded

LEMMA ClientAbortsInv ==
  ASSUME IInv, Types', ~EarlyAbort, NEW r \in Request, ClientAborts(r)
  PROVE  IInv'
<1> DEFINE q == works[r]
<1>1. /\ pc[r] \in {"pumping", "waiting", "plain"} /\ aborted' = aborted \cup {r}
      /\ UNCHANGED <<pc, session, hold, works, timedOut, segment>>
  BY DEF ClientAborts, requestVars
<1>2. SameStages
  BY <1>1 DEF SameStages
<1>3. CASE Pumping(r) /\ Discard(q)
  <2>1. /\ q \in Request /\ works[q] = q /\ q \in hold /\ session[q] = session[r]
        /\ held[session[q]] = NoRequest
    BY <1>3, Pumped
  <2>2. Ended(q) /\ Cleared(q)
    BY <1>3, <2>1, DiscardEnds
  <2> QED
    BY <1>1, <1>2, <1>3, <2>1, <2>2, RunEnded
<1>4. CASE /\ UNCHANGED <<slotVars, lock, registryVars, settled, armed>>
           /\ pc[r] = "plain" \/ armed[q] # r \/ q = NoRequest
  <2>1. /\ \A p \in Request : /\ Pumping(p)' <=> Pumping(p)
                              /\ Live(p)' <=> Live(p)
    BY <1>1, <1>4 DEF Pumping, Live, Alive
  <2>2. Runs' /\ Registered' /\ Tended'
    BY <1>1, <1>4, <2>1, Calm
  <2>3. Locked' /\ Slotted'
    BY <1>2, <1>4, <2>1, KeepLive
  <2>4. Stages'
    BY <1>1, <2>1 DEF IInv, Stages, Before
  <2>5. Pumping(r) => works[r] \in settled
    <3>1. Pumping(r) => works[r] # NoRequest
      BY Pumped, GatewayAssumption
    <3> QED
      BY <1>4, <3>1 DEF IInv, Watched, Pumping
  <2>6. Watched'
    BY <1>1, <1>4, <2>1, <2>5 DEF IInv, Watched
  <2> QED
    BY <2>2, <2>3, <2>4, <2>6 DEF IInv
<1> QED
  BY <1>1, <1>3, <1>4 DEF ClientAborts, runVars, Pumping

-----------------------------------------------------------------------------
(* The theorems. *)

LEMMA InitIInv == Init => IInv
<1> SUFFICES ASSUME Init PROVE IInv
  OBVIOUS
<1>1. Cap!IInv
  BY GatewayAssumption, Cap!InitIInv DEF Init, Slots!Init, Cap!Init
<1>2. slotQueue = <<>> /\ slotOwners = {}
  BY DEF Init, Slots!Init
<1>3. Types
  BY GatewayAssumption DEF Init, Types, Location
<1>4. \A q \in Request : pc[q] = "idle" /\ works[q] = NoRequest /\ works[q] # q
  BY GatewayAssumption DEF Init
<1>5. \A q \in Request : ~Live(q) /\ ~Alive(q) /\ ~Pumping(q) /\ ~IsHeld(q) /\ ~Slots!Queued(q)
  BY <1>2, <1>4, GatewayAssumption DEF Init, Live, Alive, Pumping, IsHeld, Slots!Queued
<1>6. Stages /\ Runs /\ Watched /\ Tended
  BY <1>4, <1>5 DEF Init, Stages, Runs, Watched, Tended, Before
<1>7. Locked
  BY <1>5 DEF Init, Locked
<1>8. Slotted
  BY <1>1, <1>2, <1>4, <1>5 DEF Slotted
<1>9. Registered
  BY <1>5 DEF Init, Registered
<1> QED
  BY <1>3, <1>6, <1>7, <1>8, <1>9 DEF IInv

LEMMA NextIInv == IInv /\ ~EarlyAbort /\ [Next]_vars => IInv'
<1> SUFFICES ASSUME IInv, ~EarlyAbort, [Next]_vars PROVE IInv'
  OBVIOUS
<1>1. Types'
  BY TypesStep
<1>2. CASE Next
  <2>1. PICK r \in Request :
          \/ Receive(r) \/ Prepare(r) \/ Execute(r)
          \/ SegmentTimeout(r) \/ PlainTimeout(r) \/ ToolTimeout(r)
          \/ ClientAborts(r) \/ RunEnds(r)
    BY <1>2 DEF Next
  <2> QED
    BY <1>1, <2>1, PassInv, AcquireSlotInv, SlotGrantedInv, PrepareFailsInv, PreparedInv,
       StartSendInv, SendOkInv, UnheldEndsInv, ProvideInv, PumpAsksInv, PumpCancelledInv,
       QuietInv, PumpDiscardsInv, ToolTimeoutInv, WaitDoneInv, ClientAbortsInv
       DEF Prepare, Execute
<1>3. CASE UNCHANGED vars
  <2>1. UNCHANGED <<pc, session, hold, works, aborted, timedOut, slotVars, lock, registryVars,
                    settled, armed, segment>>
    BY <1>3 DEF vars, requestVars, runVars
  <2>2. SameStages /\ \A p \in Request : (Pumping(p)' <=> Pumping(p)) /\ (Live(p)' <=> Live(p))
    BY <2>1 DEF SameStages, Pumping, Live, Alive
  <2>3. Locked' /\ Slotted' /\ Runs' /\ Registered' /\ Tended'
    BY <2>1, <2>2, KeepLive, Calm
  <2>4. Stages' /\ Watched'
    BY <2>1, <2>2 DEF IInv, Stages, Watched
  <2> QED
    BY <1>1, <2>3, <2>4 DEF IInv
<1> QED
  BY <1>2, <1>3

LEMMA Invariance ==
  ASSUME ~EarlyAbort
  PROVE  Spec => []IInv
<1>1. IInv /\ [Next]_vars => IInv'
  BY NextIInv
<1> QED
  BY InitIInv, <1>1, PTL DEF Spec

\* What the variables say only to the outside.
Answers ==
  /\ asks \in [Request -> Batch \cup {NoRequest}]
  /\ outcome \in [Request -> {"none", "tool_calls", "final", "cancelled", "error"}]

LEMMA AnswersStep == Answers /\ [Next]_vars => Answers'
<1> SUFFICES ASSUME Answers, Next PROVE Answers'
  BY DEF vars, requestVars, Answers
<1>1. PICK r \in Request :
        \/ Receive(r) \/ Prepare(r) \/ Execute(r)
        \/ SegmentTimeout(r) \/ PlainTimeout(r) \/ ToolTimeout(r)
        \/ ClientAborts(r) \/ RunEnds(r)
  BY DEF Next
<1>2. CASE Receive(r)
  BY <1>2 DEF Receive, Answers, Batch
<1>3. CASE ~Receive(r)
  <2>1. asks' = asks
    BY <1>1, <1>3 DEF Prepare, Execute, CatalogFails, Match, AcquireSlot, SlotGranted,
       PrepareFails, Prepared, StartSend, SendOk, SendFails, Provide, PumpAsks, PumpDrains,
       PumpCancelled, PumpTimedOut, PumpFails, WaitDone, PlainDrains, PlainFails, PlainDone,
       SegmentTimeout, PlainTimeout, ToolTimeout, ClientAborts, RunEnds, requestVars
  <2>2. \/ outcome' = outcome
        \/ \E what \in {"tool_calls", "final", "cancelled", "error"} :
             outcome' = [outcome EXCEPT ![r] = what]
    BY <1>1, <1>3 DEF Prepare, Execute, CatalogFails, Match, AcquireSlot, SlotGranted,
       PrepareFails, Prepared, StartSend, SendOk, SendFails, Provide, PumpAsks, PumpDrains,
       PumpCancelled, PumpTimedOut, PumpFails, WaitDone, PlainDrains, PlainFails, PlainDone,
       SegmentTimeout, PlainTimeout, ToolTimeout, ClientAborts, RunEnds, Answer
  <2> QED
    BY <2>1, <2>2 DEF Answers
<1> QED
  BY <1>2, <1>3

\* Every variable of Gateway stays in its type.
THEOREM TypeCorrect ==
  ASSUME ~EarlyAbort
  PROVE  Spec => []TypeOK
<1>1. Init => Answers
  BY DEF Init, Answers
<1>2. IInv /\ Answers => TypeOK
  BY CapAgrees DEF IInv, Types, Slotted, Answers, TypeOK
<1> QED
  BY <1>1, <1>2, AnswersStep, Invariance, PTL DEF Spec

\* The semaphore's counter and its queue stay right although routes, catch
\* blocks, timers, disconnects and settled runs give slots back.
THEOREM SlotsStayRight ==
  ASSUME ~EarlyAbort
  PROVE  Spec => []SlotsAgree
<1>1. IInv => SlotsAgree
  BY CapAgrees DEF IInv, Slotted
<1> QED
  BY <1>1, Invariance, PTL

\* Whatever happens to a run, its session's mutex and its slot are its own until
\* it is settled.
THEOREM LiveRunsOwn ==
  ASSUME ~EarlyAbort
  PROVE  Spec => []LiveRunOwns
<1>1. IInv => LiveRunOwns
  BY DEF IInv, Locked, Slotted, Live, LiveRunOwns
<1> QED
  BY <1>1, Invariance, PTL

\* A session whose mutex is taken, or waited for, has a request in progress or
\* a run that is held or worked on, which will give it back.
THEOREM MutexIsNeverLost ==
  ASSUME ~EarlyAbort
  PROVE  Spec => []NoMutexLost
<1>1. IInv => NoMutexLost
  <2>1. SUFFICES ASSUME IInv, NEW s \in Session, NEW i \in DOMAIN lock[s]
                 PROVE  \/ pc[lock[s][i]] \in {"locking", "sending", "pumping", "waiting",
                                               "plain", "finishing"}
                        \/ /\ Alive(lock[s][i])
                           /\ \/ IsHeld(lock[s][i])
                              \/ \E r \in Request : Pumping(r) /\ works[r] = lock[s][i]
    BY DEF IInv, Locked, NoMutexLost
  <2>2. lock[s][i] \in Request
    BY <2>1 DEF IInv, Types
  <2>3. pc[lock[s][i]] = "locking" \/ Live(lock[s][i])
    BY <2>1 DEF IInv, Locked
  <2> QED
    BY <2>1, <2>2, <2>3 DEF IInv, Tended, Live
<1> QED
  BY <1>1, Invariance, PTL

\* So has every slot, if translating a turn never throws.
THEOREM SlotIsNeverLost ==
  ASSUME ~EarlyAbort, ~TranslationThrows
  PROVE  Spec => []NoSlotLost
<1>1. IInv => NoSlotLost
  <2>1. SUFFICES ASSUME IInv, NEW q \in slotOwners
                 PROVE  \/ InProgress(q)
                        \/ /\ Alive(q)
                           /\ IsHeld(q) \/ \E r \in Request : Pumping(r) /\ works[r] = q
    BY DEF NoSlotLost
  <2>2. q \in Request
    BY <2>1 DEF IInv, Slotted, Cap!IInv, Cap!TypeOK
  <2>3. pc[q] \in {"queued", "resolving", "locking"} \/ Live(q)
    BY <2>1, <2>2 DEF IInv, Slotted
  <2> QED
    BY <2>1, <2>2, <2>3 DEF IInv, Tended, Live, InProgress
<1> QED
  BY <1>1, Invariance, PTL

\* Both registries and the tool-result timers speak of the same runs, each alive
\* and pumped by nobody.
THEOREM RegistriesStayExact ==
  ASSUME ~EarlyAbort
  PROVE  Spec => []RegistriesAgree
<1>1. IInv => RegistriesAgree
  <2>1. SUFFICES ASSUME IInv PROVE RegistriesAgree
    OBVIOUS
  <2>2. \A s \in Session : held[s] # NoRequest =>
          \A r \in Request : Pumping(r) => works[r] # held[s]
    BY <2>1, Pumped DEF IInv, Registered
  <2>3. {p \in Request : IsHeld(p)} = {held[s] : s \in Session} \ {NoRequest}
    BY <2>1, GatewayAssumption DEF IInv, Registered, IsHeld, Types
  <2> QED
    BY <2>1, <2>2, <2>3 DEF IInv, Registered, RegistriesAgree
<1> QED
  BY <1>1, Invariance, PTL

\* However often the results of a batch are sent, one request works on the run,
\* and the run listens to that request's disconnect.
THEOREM OneRequestWorks ==
  ASSUME ~EarlyAbort
  PROVE  Spec => []OneWorker
<1>1. IInv => OneWorker
  BY DEF IInv, Watched, OneWorker, Alive
<1> QED
  BY <1>1, Invariance, PTL

\* No step brings a settled run back: not to the registries, not to a request.
THEOREM SettledRunsStaySettled ==
  ASSUME ~EarlyAbort
  PROVE  Spec => SettledIsFinal
<1> DEFINE Final ==
      \A q \in settled : /\ q \in settled'
                         /\ held'[session[q]] # q
                         /\ \A r \in Request : works'[r] = q => works[r] = q
<1>1. IInv /\ IInv' /\ [Next]_vars => [Final]_vars
  <2>1. SUFFICES ASSUME IInv, IInv', Next, NEW q \in settled PROVE
                 /\ q \in settled' /\ held'[session[q]] # q
                 /\ \A r \in Request : works'[r] = q => works[r] = q
    OBVIOUS
  <2>2. PICK r \in Request :
          \/ Receive(r) \/ Prepare(r) \/ Execute(r)
          \/ SegmentTimeout(r) \/ PlainTimeout(r) \/ ToolTimeout(r)
          \/ ClientAborts(r) \/ RunEnds(r)
    BY <2>1 DEF Next
  <2>3. settled \subseteq settled' /\ session' = session
    BY <2>2 DEF Receive, Prepare, Execute, CatalogFails, Match, AcquireSlot, SlotGranted,
       PrepareFails, Prepared, StartSend, SendOk, SendFails, Provide, PumpAsks, PumpDrains,
       PumpCancelled, PumpTimedOut, PumpFails, WaitDone, PlainDrains, PlainFails, PlainDone,
       SegmentTimeout, PlainTimeout, ToolTimeout, ClientAborts, RunEnds, Discard, Teardown,
       requestVars, runVars
  <2>4. q \in Request /\ session[q] \in Session
    BY <2>1 DEF IInv, Types
  <2>5. held'[session[q]] # q
    <3>1. SUFFICES ASSUME held'[session[q]] = q PROVE FALSE
      OBVIOUS
    <3>2. Alive(q)'
      BY <2>1, <2>4, <3>1, GatewayAssumption DEF IInv, Registered, Alive
    <3> QED
      BY <2>1, <2>3, <3>2 DEF Alive
  <2>6. CASE SendOk(r)
    <3>1. r \notin settled
      BY <2>1, <2>6, GatewayAssumption DEF SendOk, IInv, Stages, Runs, Before
    <3>2. works'[r] = r /\ \A p \in Request \ {r} : works'[p] = works[p]
      BY <2>1, <2>6 DEF SendOk, IInv, Types
    <3> QED
      BY <2>1, <2>3, <2>5, <3>1, <3>2
  <2>7. CASE Provide(r)
    <3>1. /\ works'[r] \in {works[r], held[session[r]]}
          /\ \A p \in Request \ {r} : works'[p] = works[p]
      BY <2>1, <2>7 DEF Provide, IInv, Types
    <3>2. held[session[r]] # q
      BY <2>1, <2>4, GatewayAssumption DEF IInv, Registered, Alive, Types
    <3> QED
      BY <2>1, <2>3, <2>5, <3>1, <3>2
  <2>8. CASE ~SendOk(r) /\ ~Provide(r)
    <3>1. works' = works
      BY <2>2, <2>8 DEF Receive, Prepare, Execute, CatalogFails, Match, AcquireSlot, SlotGranted,
         PrepareFails, Prepared, StartSend, SendFails, PumpAsks, PumpDrains, PumpCancelled,
         PumpTimedOut, PumpFails, WaitDone, PlainDrains, PlainFails, PlainDone, SegmentTimeout,
         PlainTimeout, ToolTimeout, ClientAborts, RunEnds
    <3> QED
      BY <2>1, <2>3, <2>5, <3>1
  <2> QED
    BY <2>6, <2>7, <2>8
<1> QED
  BY <1>1, Invariance, PTL DEF Spec, SettledIsFinal
=============================================================================
