------------------------------ MODULE Semaphore ------------------------------
(***************************************************************************)
(* The counting semaphore of src/utils/concurrency.ts that caps the Cursor *)
(* runs of the whole gateway (MAX_CONCURRENT_RUNS).  The code keeps only a *)
(* counter and a queue of resolvers; `holders` records whose acquire()     *)
(* promise has been resolved and whose release closure has not been called.*)
(* A client asks again only after it released: each closure is called once *)
(* (the gateway wraps it in an idempotent function, see Gateway).          *)
(***************************************************************************)
EXTENDS Naturals, Sequences, FiniteSets

CONSTANTS Client,  \* the callers of acquire()
          Max      \* a positive number, see GatewayAssumption in Gateway

VARIABLES available, \* this.available
          queue,     \* this.queue: the resolvers of the waiting acquire() calls
          holders    \* the clients that own a slot

semVars == <<available, queue, holders>>

Queued(c) == \E i \in DOMAIN queue : queue[i] = c

Init ==
  /\ available = Max
  /\ queue = <<>>
  /\ holders = {}

\* (mutant: the last slot is given out twice)
AcquireNowOnceMore(c) ==
  /\ available >= 0
  /\ available' = available - 1
  /\ holders' = holders \cup {c}
  /\ UNCHANGED queue

\* acquire() with a free slot: the promise is resolved at once.
AcquireNow(c) ==
  /\ available > 0
  /\ available' = available - 1
  /\ holders' = holders \cup {c}
  /\ UNCHANGED queue

\* acquire() with no free slot: a resolver is pushed.
AcquireLater(c) ==
  /\ ~(available > 0)
  /\ queue' = Append(queue, c)
  /\ UNCHANGED <<available, holders>>

Acquire(c) == AcquireNow(c) \/ AcquireLater(c)

\* (mutant: the resolver that is run does not take the slot again)
ReleaseForgetsCount(c) ==
  /\ available' = available + 1
  /\ \/ queue = <<>> /\ holders' = holders \ {c} /\ UNCHANGED queue
     \/ /\ queue # <<>>
        /\ holders' = (holders \ {c}) \cup {Head(queue)}
        /\ queue' = Tail(queue)

\* (mutant: queue.pop() for queue.shift())
ReleaseNewestFirst(c) ==
  \/ /\ queue = <<>>
     /\ available' = available + 1
     /\ holders' = holders \ {c}
     /\ UNCHANGED queue
  \/ /\ queue # <<>>
     /\ holders' = (holders \ {c}) \cup {queue[Len(queue)]}
     /\ queue' = SubSeq(queue, 1, Len(queue) - 1)
     /\ UNCHANGED available

\* release(): give the slot back and, in the same synchronous call, run the
\* first resolver of the queue, which takes it again for its client.
Release(c) ==
  \/ /\ queue = <<>>
     /\ available' = available + 1
     /\ holders' = holders \ {c}
     /\ UNCHANGED queue
  \/ /\ queue # <<>>
     /\ available' = (available + 1) - 1
     /\ holders' = (holders \ {c}) \cup {Head(queue)}
     /\ queue' = Tail(queue)

Next ==
  \E c \in Client :
    \/ c \notin holders /\ ~Queued(c) /\ Acquire(c)
    \/ c \in holders /\ Release(c)

\* A caller keeps its slot for a finite time (every path of a request ends in
\* the release closure; Gateway models which).
Fairness == \A c \in Client : WF_semVars(c \in holders /\ Release(c))

Spec == Init /\ [][Next]_semVars /\ Fairness

-----------------------------------------------------------------------------
\* Types of the three variables.
TypeOK ==
  /\ available \in 0 .. Max
  /\ queue \in Seq(Client)
  /\ holders \subseteq Client

\* The counter agrees with who owns a slot: no release is lost and none is
\* counted twice, although the counter goes up and down again when a slot is
\* handed to a queued client.
CounterAgrees == available + Cardinality(holders) = Max

\* No slot lies idle while somebody waits for one, and nobody is queued twice
\* or queued while it owns a slot.
QueueSound ==
  /\ queue # <<>> => available = 0
  /\ \A i, j \in DOMAIN queue : queue[i] = queue[j] => i = j
  /\ \A i \in DOMAIN queue : queue[i] \notin holders

\* The semaphore is a FIFO resource of Max units: acquire() never overtakes
\* the queue, release() serves its head, and every waiting client is served.
Resource == INSTANCE FifoResource WITH Capacity <- Max, waiting <- queue
ImplementsFifoResource == Resource!Spec

\* Every queued acquire() is eventually resolved.
WaiterServed == \A c \in Client : Queued(c) ~> c \in holders
=============================================================================
