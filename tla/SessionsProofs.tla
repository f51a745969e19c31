--------------------------- MODULE SessionsProofs ---------------------------
(***************************************************************************)
(* Proofs about Sessions, for any number of clients, requests and          *)
(* evictions and any size of the caches.                                   *)
(*                                                                         *)
(* Turns on one agent are serial although the mutex is kept in the cache   *)
(* entry, which is evicted, renamed, replaced and put back: an agent and   *)
(* its mutex are made together, and no entry or handle ever pairs them     *)
(* otherwise (Entries, Handles), so that two turns on one agent stand in   *)
(* one queue, whose head is the only one that is busy (Locks).             *)
(*                                                                         *)
(* A turn leaves out only what its agent was told (Knowledge), and both    *)
(* caches hold a key once and no more than they may (Typed).               *)
(***************************************************************************)
EXTENDS Sessions, SequenceTheorems, TLAPS

\* A sequence, of whatever elements.
IsList(s) == s \in Seq(Range(s))

LEMMA Appended ==
  ASSUME NEW s, IsList(s), NEW e
  PROVE  /\ IsList(Append(s, e)) /\ Len(Append(s, e)) = Len(s) + 1
         /\ Range(Append(s, e)) = Range(s) \cup {e}
<1> DEFINE S == Range(s) \cup {e}
<1>1. s \in Seq(S) /\ Len(s) \in Nat
  BY SeqMonotonic, LenProperties DEF IsList
<1>2. Append(s, e) \in Seq(S) /\ Len(Append(s, e)) = Len(s) + 1
  BY <1>1, AppendProperties
<1>3. Range(Append(s, e)) = S
  <2>1. \A i \in 1 .. Len(s) : Append(s, e)[i] = s[i]
    BY <1>1, AppendProperties
  <2>2. Append(s, e)[Len(s) + 1] = e
    BY <1>1, AppendProperties
  <2>3. Range(Append(s, e)) = {Append(s, e)[i] : i \in 1 .. Len(s) + 1}
    BY <1>2, RangeEquality
  <2>4. Range(s) = {s[i] : i \in 1 .. Len(s)}
    BY <1>1, RangeEquality
  <2>5. 1 .. Len(s) + 1 = 1 .. Len(s) \cup {Len(s) + 1}
    BY <1>1
  <2> QED
    BY <2>1, <2>2, <2>3, <2>4, <2>5
<1> QED
  BY <1>2, <1>3, SeqOfRange DEF IsList

LEMMA Cut ==
  ASSUME NEW s, IsList(s), NEW m \in Int, NEW n \in Int, 1 <= m, n <= Len(s)
  PROVE  IsList(SubSeq(s, m, n)) /\ Range(SubSeq(s, m, n)) \subseteq Range(s)
<1>1. Len(s) \in Nat /\ \A i \in 1 .. Len(s) : s[i] \in Range(s)
  BY ElementOfSeq, LenProperties DEF IsList
<1>2. \A i \in m .. n : s[i] \in Range(s)
  BY <1>1
<1>3. SubSeq(s, m, n) \in Seq(Range(s))
  BY <1>2, SubSeqProperties
<1> QED
  BY <1>3, RangeOfSeq, SeqOfRange DEF IsList

LEMMA Removed ==
  ASSUME NEW s, IsList(s), NEW i \in DOMAIN s
  PROVE  IsList(RemoveAt(s, i)) /\ Range(RemoveAt(s, i)) \subseteq Range(s)
<1>1. Len(s) \in Nat /\ i \in 1 .. Len(s)
  BY LenProperties DEF IsList
<1>2. /\ SubSeq(s, 1, i - 1) \in Seq(Range(s))
      /\ SubSeq(s, i + 1, Len(s)) \in Seq(Range(s))
  <2>1. \A S : S \subseteq Range(s) => \A t \in Seq(S) : t \in Seq(Range(s))
    BY SeqMonotonic
  <2>2. /\ IsList(SubSeq(s, 1, i - 1)) /\ Range(SubSeq(s, 1, i - 1)) \subseteq Range(s)
        /\ IsList(SubSeq(s, i + 1, Len(s))) /\ Range(SubSeq(s, i + 1, Len(s))) \subseteq Range(s)
    BY <1>1, Cut
  <2> QED
    BY <2>1, <2>2 DEF IsList
<1>3. RemoveAt(s, i) \in Seq(Range(s))
  BY <1>2, ConcatProperties DEF RemoveAt
<1> QED
  BY <1>3, RangeOfSeq, SeqOfRange DEF IsList

-----------------------------------------------------------------------------
(* The cache. *)

LEMMA Dropped ==
  ASSUME NEW cache, IsList(cache), NEW key
  PROVE  IsList(Drop(cache, key)) /\ Range(Drop(cache, key)) \subseteq Range(cache)
<1>1. CASE Lookup(cache, key) = {}
  BY <1>1 DEF Drop
<1>2. CASE Lookup(cache, key) # {}
  <2> DEFINE i == CHOOSE j \in DOMAIN cache : cache[j].key = key
  <2>1. \E j \in DOMAIN cache : cache[j].key = key
    BY <1>2 DEF Lookup
  <2>2. i \in DOMAIN cache
    BY <2>1
  <2>3. Drop(cache, key) = RemoveAt(cache, i)
    BY <1>2 DEF Drop
  <2> HIDE DEF i
  <2> QED
    BY <2>2, <2>3, Removed
<1> QED
  BY <1>1, <1>2

LEMMA Trimmed ==
  ASSUME NEW cache, IsList(cache)
  PROVE  IsList(Trim(cache)) /\ Range(Trim(cache)) \subseteq Range(cache)
<1>1. Len(cache) \in Nat
  BY LenProperties DEF IsList
<1>2. CASE Len(cache) > MaxCached
  <2>1. cache # <<>>
    BY <1>1, <1>2, EmptySeq, SessionsAssumption
  <2>2. Tail(cache) = SubSeq(cache, 2, Len(cache))
    BY <2>1, TailIsSubSeq DEF IsList
  <2>3. /\ IsList(SubSeq(cache, 2, Len(cache)))
        /\ Range(SubSeq(cache, 2, Len(cache))) \subseteq Range(cache)
    BY <1>1, Cut
  <2>4. Trim(cache) = Tail(cache)
    BY <1>2 DEF Trim
  <2> QED
    BY <2>2, <2>3, <2>4
<1>3. CASE ~(Len(cache) > MaxCached)
  BY <1>3 DEF Trim
<1> QED
  BY <1>2, <1>3

LEMMA Inserted ==
  ASSUME NEW cache, IsList(cache), NEW entry, Insert(cache, entry)
  PROVE  IsList(entries') /\ Range(entries') \subseteq Range(cache) \cup {entry}
<1> DEFINE all == Append(Drop(cache, entry.key), entry)
<1>1. IsList(all) /\ Range(all) \subseteq Range(cache) \cup {entry}
  BY Dropped, Appended
<1>2. entries' = Trim(all)
  BY DEF Insert
<1> HIDE DEF all
<1> QED
  BY <1>1, <1>2, Trimmed

LEMMA Found ==
  ASSUME NEW cache, NEW key, NEW e \in Lookup(cache, key)
  PROVE  e \in Range(cache)
  BY DEF Lookup, Range

-----------------------------------------------------------------------------
(* The invariant. *)

Location ==
  {"idle", "creating", "resolved", "waiting", "running", "held", "continuing"}

\* The requests and their handles are records.
Requests ==
  /\ pc \in [Clients -> Location]
  /\ DOMAIN req = Clients
  /\ \A c \in Clients : /\ DOMAIN req[c] = DOMAIN NoRequest
                        /\ DOMAIN req[c].handle = DOMAIN NoHandle

\* Agents and mutexes are made together.
Pairs ==
  /\ IsList(agents) /\ mutexes \in Seq(Seq(Clients))
  /\ Len(agents) = Len(mutexes)

\* x names an agent and the mutex that was made with it.
Paired(x) == x.agent \in 1 .. Len(mutexes) /\ x.mutex = x.agent

Entries == IsList(entries) /\ \A e \in Range(entries) : Paired(e)

Handles ==
  \A c \in Clients : pc[c] \notin {"idle", "creating"} => Paired(req[c].handle)

\* A busy client heads the queue of its agent's mutex.
Locks == \A c \in Clients : Busy(c) => Owns(c)

IInv == Requests /\ Pairs /\ Entries /\ Handles /\ Locks

LEMMA InitInv == Init => IInv
<1> SUFFICES ASSUME Init PROVE IInv
  OBVIOUS
<1>1. Requests /\ Handles /\ Locks
  BY DEF Init, Requests, Handles, Locks, Location, Busy, NoRequest, NoHandle
<1>2. Pairs /\ Entries
  BY EmptySeq DEF Init, Pairs, Entries, IsList, Range
<1> QED
  BY <1>1, <1>2 DEF IInv

-----------------------------------------------------------------------------
(* A step of one client: c goes to location l with the request r, and does *)
(* not take another busy client's place in its queue.                      *)

Wellformed(r) == DOMAIN r = DOMAIN NoRequest /\ DOMAIN r.handle = DOMAIN NoHandle

Becomes(c, r) ==
  DOMAIN req' = Clients /\ req'[c] = r /\ \A d \in Clients \ {c} : req'[d] = req[d]

KeepsOthers(c) ==
  \A d \in Clients \ {c} :
    Busy(d) => /\ mutexes'[req[d].handle.mutex] # <<>>
               /\ Head(mutexes'[req[d].handle.mutex]) = d

LEMMA Stepped ==
  ASSUME IInv, NEW c \in Clients, NEW l \in Location, NEW r, Wellformed(r),
         pc' = [pc EXCEPT ![c] = l], Becomes(c, r),
         Pairs', Entries', Len(mutexes) <= Len(mutexes'), KeepsOthers(c),
         l \notin {"idle", "creating"} =>
           r.handle.agent \in 1 .. Len(mutexes') /\ r.handle.mutex = r.handle.agent,
         l \in {"running", "held", "continuing"} =>
           mutexes'[r.handle.mutex] # <<>> /\ Head(mutexes'[r.handle.mutex]) = c
  PROVE  IInv'
<1>1. /\ pc' \in [Clients -> Location] /\ DOMAIN req' = Clients
      /\ pc'[c] = l /\ req'[c] = r
      /\ \A d \in Clients \ {c} : pc'[d] = pc[d] /\ req'[d] = req[d]
  BY DEF IInv, Requests, Becomes
<1>2. Requests'
  BY <1>1 DEF IInv, Requests, Wellformed
<1>3. Len(mutexes) \in Nat /\ Len(mutexes') \in Nat
  BY LenProperties DEF IInv, Pairs
<1>4. Handles'
  BY <1>1, <1>3 DEF IInv, Handles, Paired
<1>5. Locks'
  BY <1>1 DEF Locks, KeepsOthers, Busy, Owns, Queue
<1> QED
  BY <1>2, <1>4, <1>5 DEF IInv

\* What a busy client stands at the head of.
LEMMA Heads ==
  ASSUME IInv, NEW d \in Clients, Busy(d)
  PROVE  /\ req[d].handle.mutex \in 1 .. Len(mutexes)
         /\ Queue(d) # <<>> /\ Head(Queue(d)) = d /\ Queue(d) \in Seq(Clients)
<1>1. Paired(req[d].handle) /\ Owns(d)
  BY DEF IInv, Handles, Locks, Busy
<1> QED
  BY <1>1, ElementOfSeq DEF IInv, Pairs, Paired, Owns, Queue

LEMMA MutexesKept ==
  ASSUME IInv, NEW c \in Clients, UNCHANGED mutexes
  PROVE  KeepsOthers(c) /\ Len(mutexes) <= Len(mutexes')
<1>1. Len(mutexes) \in Nat
  BY LenProperties DEF IInv, Pairs
<1> QED
  BY <1>1, Heads DEF KeepsOthers, Queue

LEMMA PairsKept ==
  ASSUME IInv, UNCHANGED <<agents, mutexes>>
  PROVE  Pairs'
  BY DEF IInv, Pairs

\* Entries that stay, or are found, are as good as before.
LEMMA EntriesKept ==
  ASSUME IInv, UNCHANGED mutexes, IsList(entries'), NEW E,
         \A e \in E : Paired(e),
         Range(entries') \subseteq Range(entries) \cup E
  PROVE  Entries'
  BY DEF IInv, Entries, Paired

\* The owner of a mutex releases it.
LEMMA Unlocked ==
  ASSUME IInv, NEW c \in Clients, pc[c] \notin {"idle", "creating"}, Owns(c), Unlock(c),
         UNCHANGED agents
  PROVE  KeepsOthers(c) /\ Pairs' /\ Len(mutexes) = Len(mutexes')
<1> DEFINE m == req[c].handle.mutex
<1>1. m \in 1 .. Len(mutexes)
  BY DEF IInv, Handles, Paired
<1>2. mutexes[m] \in Seq(Clients) /\ mutexes[m] # <<>> /\ Head(mutexes[m]) = c
  BY <1>1, ElementOfSeq DEF IInv, Pairs, Owns, Queue
<1>3. Tail(mutexes[m]) \in Seq(Clients)
  BY <1>2, HeadTailProperties
<1>4. mutexes' = [mutexes EXCEPT ![m] = Tail(mutexes[m])]
  BY DEF Unlock
<1>5. /\ mutexes' \in Seq(Seq(Clients)) /\ Len(mutexes') = Len(mutexes)
      /\ \A j \in 1 .. Len(mutexes) : j # m => mutexes'[j] = mutexes[j]
  <2> HIDE DEF m
  <2> QED
    BY <1>1, <1>3, <1>4, ExceptSeq DEF IInv, Pairs
<1>6. ASSUME NEW d \in Clients \ {c}, Busy(d)
      PROVE  req[d].handle.mutex # m
  BY <1>2, <1>6, Heads DEF Queue
<1>7. KeepsOthers(c)
  BY <1>5, <1>6, Heads DEF KeepsOthers, Queue
<1> QED
  BY <1>5, <1>7 DEF IInv, Pairs

-----------------------------------------------------------------------------
(* The requests. *)

LEMMA ResolveInv ==
  ASSUME IInv, NEW c \in Clients, pc[c] = "idle", UNCHANGED <<agents, mutexes>>,
         NEW key, NEW messages, NEW id, NEW session,
         \/ ResolveCached(c, key, messages, id, session)
         \/ ResolveMiss(c, key, messages, id, session)
  PROVE  IInv'
<1>1. Pairs' /\ KeepsOthers(c) /\ Len(mutexes) <= Len(mutexes')
  BY MutexesKept, PairsKept
<1>2. CASE ResolveCached(c, key, messages, id, session)
  <2>1. PICK entry \in Lookup(entries, key) :
          /\ entries' = Append(Drop(entries, key), entry)
          /\ req' = [req EXCEPT ![c] =
               [messages |-> messages, id |-> id, session |-> session,
                handle |-> [key |-> key, agent |-> entry.agent, mutex |-> entry.mutex,
                            news |-> computeNewSuffix(entry.lastMessages, messages)]]]
          /\ pc' = [pc EXCEPT ![c] = "resolved"]
    BY <1>2 DEF ResolveCached
  <2> DEFINE news == computeNewSuffix(entry.lastMessages, messages)
             r == [messages |-> messages, id |-> id, session |-> session,
                   handle |-> [key |-> key, agent |-> entry.agent, mutex |-> entry.mutex,
                               news |-> news]]
  <2>2. entry \in Range(entries) /\ Paired(entry)
    BY Found DEF IInv, Entries
  <2>3. IsList(entries') /\ Range(entries') \subseteq Range(entries)
    BY <2>1, <2>2, Dropped, Appended DEF IInv, Entries
  <2>4. Entries'
    BY <2>3 DEF IInv, Entries, Paired
  <2>5. Becomes(c, r)
    BY <2>1 DEF IInv, Requests, Becomes
  <2> HIDE DEF news
  <2>6. /\ Wellformed(r)
        /\ r.handle.agent \in 1 .. Len(mutexes') /\ r.handle.mutex = r.handle.agent
    BY <2>2 DEF Wellformed, NoRequest, NoHandle, Paired
  <2> HIDE DEF r
  <2> QED
    BY <1>1, <2>1, <2>4, <2>5, <2>6, Stepped DEF Location
<1>3. CASE ResolveMiss(c, key, messages, id, session)
  <2> DEFINE r == [messages |-> messages, id |-> id, session |-> session,
                   handle |-> [key |-> IF key[1] = "auto"
                                       THEN <<"fresh", <<c, requests[c]>>>> ELSE key,
                               agent |-> req[c].handle.agent, mutex |-> 0,
                               news |-> messages]]
  <2>1. /\ Becomes(c, r) /\ pc' = [pc EXCEPT ![c] = "creating"]
        /\ UNCHANGED entries
    BY <1>3 DEF ResolveMiss, IInv, Requests, Becomes
  <2>2. Entries'
    BY <2>1, EntriesKept DEF IInv, Entries
  <2>3. Wellformed(r)
    BY DEF Wellformed, NoRequest, NoHandle
  <2> HIDE DEF r
  <2> QED
    BY <1>1, <2>1, <2>2, <2>3, Stepped DEF Location
<1> QED
  BY <1>2, <1>3

LEMMA CreatedInv == ASSUME IInv, NEW c \in Clients, Created(c) PROVE IInv'
<1> DEFINE h == req[c].handle
           new == Len(agents) + 1
           id == IF h.key[1] = "resume" THEN agents[h.agent] ELSE new
           e == [key |-> h.key, agent |-> new, mutex |-> Len(mutexes) + 1,
                 lastMessages |-> <<>>]
           r == [req[c] EXCEPT !.handle = [h EXCEPT !.agent = new, !.mutex = Len(mutexes) + 1]]
<1>1. /\ pc[c] = "creating" /\ pc' = [pc EXCEPT ![c] = "resolved"]
      /\ agents' = Append(agents, id) /\ mutexes' = Append(mutexes, <<>>)
      /\ Insert(entries, e)
      /\ req' = [req EXCEPT ![c].handle.agent = new, ![c].handle.mutex = Len(mutexes) + 1]
  BY DEF Created
<1>2. Becomes(c, r) /\ Wellformed(r)
  BY <1>1 DEF IInv, Requests, Becomes, Wellformed, NoRequest, NoHandle
<1>3. /\ r.handle.agent = Len(mutexes) + 1 /\ r.handle.mutex = Len(mutexes) + 1
  BY <1>1 DEF IInv, Requests, Handles, Pairs, NoRequest, NoHandle
<1>4. e.agent = Len(mutexes) + 1 /\ e.mutex = Len(mutexes) + 1
  BY <1>3 DEF IInv, Pairs
<1> HIDE DEF id, e, r
<1>5. /\ Len(mutexes) \in Nat
      /\ mutexes' \in Seq(Seq(Clients)) /\ Len(mutexes') = Len(mutexes) + 1
      /\ \A j \in 1 .. Len(mutexes) : mutexes'[j] = mutexes[j]
  BY <1>1, AppendProperties, EmptySeq, LenProperties DEF IInv, Pairs
<1>6. Pairs'
  BY <1>1, <1>5, Appended DEF IInv, Pairs
<1>7. Entries'
  <2>1. IsList(entries') /\ Range(entries') \subseteq Range(entries) \cup {e}
    BY <1>1, Inserted DEF IInv, Entries
  <2> QED
    BY <1>4, <1>5, <2>1 DEF IInv, Entries, Paired
<1>8. KeepsOthers(c)
  BY <1>5, Heads DEF KeepsOthers, Queue
<1>9. /\ Len(mutexes) <= Len(mutexes')
      /\ r.handle.agent \in 1 .. Len(mutexes') /\ r.handle.mutex = r.handle.agent
  BY <1>3, <1>5
<1> QED
  BY <1>1, <1>2, <1>6, <1>7, <1>8, <1>9, Stepped DEF Location

\* The request keeps its session.
KeepsHandle(c) ==
  \E r : Becomes(c, r) /\ Wellformed(r) /\ r.handle = req[c].handle

LEMMA RequestKept == ASSUME IInv, NEW c \in Clients, UNCHANGED req PROVE KeepsHandle(c)
  BY DEF IInv, Requests, KeepsHandle, Becomes, Wellformed

\* The turn goes on, or ends.
LEMMA TurnStep ==
  ASSUME IInv, NEW c \in Clients, NEW l \in Location \ {"creating"},
         pc' = [pc EXCEPT ![c] = l], KeepsHandle(c),
         Entries', Pairs', KeepsOthers(c), Len(mutexes') = Len(mutexes),
         pc[c] \in {"idle", "creating"} => l = "idle",
         l \in {"running", "held", "continuing"} =>
           mutexes'[req[c].handle.mutex] # <<>> /\ Head(mutexes'[req[c].handle.mutex]) = c
  PROVE  IInv'
<1>1. PICK r : Becomes(c, r) /\ Wellformed(r) /\ r.handle = req[c].handle
  BY DEF KeepsHandle
<1>2. Len(mutexes) \in Nat
  BY LenProperties DEF IInv, Pairs
<1>3. pc[c] \notin {"idle", "creating"} =>
        r.handle.agent \in 1 .. Len(mutexes') /\ r.handle.mutex = r.handle.agent
  BY <1>1 DEF IInv, Handles, Paired
<1>4. l \in Location /\ Len(mutexes) <= Len(mutexes')
  BY <1>2
<1>5. l \notin {"idle", "creating"} =>
        r.handle.agent \in 1 .. Len(mutexes') /\ r.handle.mutex = r.handle.agent
  BY <1>3
<1> QED
  BY <1>1, <1>4, <1>5, Stepped

LEMMA EntriesSame ==
  ASSUME IInv, UNCHANGED entries, Len(mutexes') = Len(mutexes)
  PROVE  Entries'
  BY DEF IInv, Entries, Paired

LEMMA CreateFailsInv == ASSUME IInv, NEW c \in Clients, CreateFails(c) PROVE IInv'
<1>1. /\ pc[c] = "creating" /\ pc' = [pc EXCEPT ![c] = "idle"]
      /\ UNCHANGED <<req, agents, mutexes, entries>>
  BY DEF CreateFails, cacheVars
<1> QED
  BY <1>1, TurnStep, RequestKept, EntriesSame, PairsKept, MutexesKept DEF Location

LEMMA EnqueueInv == ASSUME IInv, NEW c \in Clients, Enqueue(c) PROVE IInv'
<1> DEFINE m == req[c].handle.mutex
<1>1. /\ pc[c] = "resolved" /\ pc' = [pc EXCEPT ![c] = "waiting"]
      /\ mutexes' = [mutexes EXCEPT ![m] = Append(mutexes[m], c)]
      /\ UNCHANGED <<req, agents, entries>>
  BY DEF Enqueue, cacheVars
<1>2. m \in 1 .. Len(mutexes)
  BY <1>1 DEF IInv, Handles, Paired
<1>3. mutexes[m] \in Seq(Clients)
  BY <1>2, ElementOfSeq DEF IInv, Pairs
<1>4. Append(mutexes[m], c) \in Seq(Clients) /\ Append(mutexes[m], c) # <<>>
  BY <1>3, AppendProperties
<1>5. mutexes[m] # <<>> => Head(Append(mutexes[m], c)) = Head(mutexes[m])
  BY <1>3, HeadTailAppend
<1> HIDE DEF m
<1>6. /\ mutexes' \in Seq(Seq(Clients)) /\ Len(mutexes') = Len(mutexes)
      /\ \A j \in 1 .. Len(mutexes) :
           mutexes'[j] = IF j = m THEN Append(mutexes[m], c) ELSE mutexes[j]
  BY <1>1, <1>2, <1>4, ExceptSeq DEF IInv, Pairs
<1>7. KeepsOthers(c)
  BY <1>4, <1>5, <1>6, Heads DEF KeepsOthers, Queue
<1>8. Pairs'
  BY <1>1, <1>6 DEF IInv, Pairs
<1> QED
  BY <1>1, <1>6, <1>7, <1>8, TurnStep, RequestKept, EntriesSame DEF Location

LEMMA SendInv == ASSUME IInv, NEW c \in Clients, Send(c) PROVE IInv'
<1>1. /\ pc[c] = "waiting" /\ Owns(c) /\ pc' = [pc EXCEPT ![c] = "running"]
      /\ UNCHANGED <<req, agents, mutexes, entries>>
  BY DEF Send, cacheVars
<1> QED
  BY <1>1, TurnStep, RequestKept, EntriesSame, PairsKept, MutexesKept
     DEF Location, Owns, Queue

LEMMA FailInv == ASSUME IInv, NEW c \in Clients, Fail(c) PROVE IInv'
<1>1. /\ pc[c] \in {"waiting", "running", "continuing", "held"} /\ Unlock(c)
      /\ pc' = [pc EXCEPT ![c] = "idle"]
      /\ UNCHANGED <<req, agents, entries>>
  BY DEF Fail, cacheVars
<1>2. Owns(c)
  BY DEF Fail, IInv, Locks, Busy
<1> QED
  BY <1>1, <1>2, TurnStep, RequestKept, EntriesSame, Unlocked DEF Location

\* An entry that is put back has the agent and the mutex of the handle.
LEMMA Remembered ==
  ASSUME IInv, NEW c \in Clients, pc[c] \notin {"idle", "creating"},
         NEW messages, remember(req[c].handle, messages), Len(mutexes') = Len(mutexes)
  PROVE  Entries'
<1> DEFINE h == req[c].handle
           found == Lookup(entries, h.key)
           entry == IF found = {} THEN EntryFromHandle(h) ELSE CHOOSE e \in found : TRUE
           key == IF isStableKey(h.key) THEN h.key ELSE AutoKey(messages)
           new == [key |-> key, agent |-> entry.agent, mutex |-> entry.mutex,
                   lastMessages |-> messages]
<1>1. Paired(entry)
  <2>1. CASE found = {}
    BY <2>1 DEF IInv, Handles, Paired, EntryFromHandle
  <2>2. CASE found # {}
    <3>1. entry \in found
      BY <2>2
    <3> HIDE DEF entry
    <3> QED
      BY <3>1, Found DEF IInv, Entries
  <2> QED
    BY <2>1, <2>2
<1>2. Insert(Drop(entries, h.key), new)
  BY DEF remember
<1> HIDE DEF entry, key
<1>3. Paired(new)
  BY <1>1 DEF Paired
<1> HIDE DEF new
<1>4. IsList(entries') /\ Range(entries') \subseteq Range(entries) \cup {new}
  <2>1. IsList(Drop(entries, h.key)) /\ Range(Drop(entries, h.key)) \subseteq Range(entries)
    BY Dropped DEF IInv, Entries
  <2> QED
    BY <1>2, <2>1, Inserted
<1> QED
  BY <1>3, <1>4 DEF IInv, Entries, Paired

LEMMA AnswerInv == ASSUME IInv, NEW c \in Clients, Answer(c) PROVE IInv'
<1>1. pc[c] \in {"running", "continuing"} /\ UNCHANGED agents
  BY DEF Answer
<1>2. PICK kind, messages :
        /\ IF pc[c] = "running" THEN remember(req[c].handle, messages)
           ELSE UNCHANGED cacheVars
        /\ req' = [req EXCEPT ![c].messages = messages]
        /\ IF kind = "call" THEN UNCHANGED mutexes ELSE Unlock(c)
        /\ pc' = [pc EXCEPT ![c] = IF kind = "call" THEN "held" ELSE "idle"]
  BY DEF Answer
<1>3. Owns(c)
  BY <1>1 DEF IInv, Locks, Busy
<1>4. /\ Pairs' /\ KeepsOthers(c) /\ Len(mutexes') = Len(mutexes)
  BY <1>1, <1>2, <1>3, MutexesKept, PairsKept, Unlocked
<1>5. Entries'
  BY <1>1, <1>2, <1>4, Remembered, EntriesSame DEF cacheVars
<1>6. KeepsHandle(c)
  <2> DEFINE r == [req[c] EXCEPT !.messages = messages]
  <2>1. Becomes(c, r) /\ Wellformed(r) /\ r.handle = req[c].handle
    BY <1>2 DEF IInv, Requests, Becomes, Wellformed, NoRequest
  <2> QED
    BY <2>1 DEF KeepsHandle
<1>7. CASE kind = "call"
  BY <1>1, <1>2, <1>3, <1>4, <1>5, <1>6, <1>7, TurnStep DEF Location, Owns, Queue
<1>8. CASE kind # "call"
  BY <1>1, <1>2, <1>4, <1>5, <1>6, <1>8, TurnStep DEF Location
<1> QED
  BY <1>7, <1>8

LEMMA ContinueInv == ASSUME IInv, NEW c \in Clients, ContinueHeld(c) PROVE IInv'
<1>1. PICK result : req' = [req EXCEPT ![c].messages = Append(@, result),
                                       ![c].id = <<c, requests[c]>>]
  BY DEF ContinueHeld
<1>2. /\ pc[c] = "held" /\ pc' = [pc EXCEPT ![c] = "continuing"]
      /\ UNCHANGED <<agents, mutexes, entries>>
  BY DEF ContinueHeld, cacheVars
<1>3. KeepsHandle(c)
  <2> DEFINE r == [req[c] EXCEPT !.messages = Append(@, result), !.id = <<c, requests[c]>>]
  <2>1. Becomes(c, r) /\ Wellformed(r) /\ r.handle = req[c].handle
    BY <1>1 DEF IInv, Requests, Becomes, Wellformed, NoRequest
  <2> QED
    BY <2>1 DEF KeepsHandle
<1>4. Owns(c)
  BY <1>2 DEF IInv, Locks, Busy
<1> QED
  BY <1>2, <1>3, <1>4, TurnStep, EntriesSame, PairsKept, MutexesKept
     DEF Location, Owns, Queue

\* Eviction takes entries away, and nothing else.
LEMMA EvictionInv == ASSUME IInv, Evict \/ Expire PROVE IInv'
<1>1. UNCHANGED <<pc, req, agents, mutexes>>
  BY DEF Evict, Expire
<1>2. IsList(entries') /\ Range(entries') \subseteq Range(entries)
  <2>1. IsList(entries) /\ Len(entries) \in Nat /\ DOMAIN entries = 1 .. Len(entries)
    BY LenProperties DEF IInv, Entries, IsList
  <2>2. CASE Evict
    BY <2>1, <2>2, Dropped DEF Evict, Install
  <2>3. CASE Expire
    <3>1. CASE UNCHANGED entries
      BY <2>1, <3>1
    <3>2. CASE \E n \in DOMAIN entries : Install(SubSeq(entries, n + 1, Len(entries)))
      BY <2>1, <3>2, Cut DEF Install
    <3> QED
      BY <2>3, <3>1, <3>2 DEF Expire
  <2> QED
    BY <2>2, <2>3
<1>3. Entries'
  BY <1>1, <1>2 DEF IInv, Entries, Paired
<1> QED
  BY <1>1, <1>3 DEF IInv, Requests, Pairs, Handles, Locks, Paired, Busy, Owns, Queue

LEMMA StepInv == IInv /\ [Next]_vars => IInv'
<1> SUFFICES ASSUME IInv, [Next]_vars PROVE IInv'
  OBVIOUS
<1>1. ASSUME NEW c \in Clients, Ask(c) PROVE IInv'
  <2>1. pc[c] = "idle" /\ UNCHANGED <<agents, mutexes>>
    BY <1>1 DEF Ask, NewRequest
  <2>2. \E key, messages, id, session :
          \/ ResolveCached(c, key, messages, id, session)
          \/ ResolveMiss(c, key, messages, id, session)
    BY <1>1 DEF Ask
  <2> QED
    BY <2>1, <2>2, ResolveInv
<1>2. ASSUME NEW c \in Clients, AskResponses(c) PROVE IInv'
  <2>1. pc[c] = "idle" /\ UNCHANGED <<agents, mutexes>>
    BY <1>2 DEF AskResponses, NewRequest
  <2>2. \E key, messages, id, session :
          \/ ResolveCached(c, key, messages, id, session)
          \/ ResolveMiss(c, key, messages, id, session)
    BY <1>2 DEF AskResponses
  <2> QED
    BY <2>1, <2>2, ResolveInv
<1>3. ASSUME NEW c \in Clients, Created(c) \/ CreateFails(c) \/ Enqueue(c) PROVE IInv'
  BY <1>3, CreatedInv, CreateFailsInv, EnqueueInv
<1>4. ASSUME NEW c \in Clients, Send(c) \/ Fail(c) \/ Answer(c) \/ ContinueHeld(c) PROVE IInv'
  BY <1>4, SendInv, FailInv, AnswerInv, ContinueInv
<1>5. CASE UNCHANGED vars
  BY <1>5 DEF vars, IInv, Requests, Pairs, Entries, Handles, Locks, Paired, Busy, Owns, Queue
<1> QED
  BY <1>1, <1>2, <1>3, <1>4, <1>5, EvictionInv DEF Next, ClientStep

LEMMA Invariance == Spec => []IInv
  BY InitInv, StepInv, PTL DEF Spec

\* Two turns never run on one agent at a time: whatever is evicted, renamed,
\* replaced or put back in the session cache while requests create agents, wait
\* and run, whoever reaches an agent reaches its mutex.
THEOREM TurnsAreSerial == Spec => []SerialTurns
<1>1. ASSUME IInv PROVE SerialTurns
  BY <1>1, Heads DEF SerialTurns, IInv, Handles, Paired, Busy, Queue
<1>2. IInv => SerialTurns
  BY <1>1
<1> QED
  BY <1>2, Invariance, PTL

-----------------------------------------------------------------------------
(***************************************************************************)
(* What the agents know.  The messages of a request that was resolved are  *)
(* those its agent was told before (Kept) and those it is going to be told *)
(* (news); an entry remembers only what its agent was told.  Both are said *)
(* of the agents no other agent's turn was stamped on, and of messages as  *)
(* normalizeContent() leaves them (Gist).                                  *)
(***************************************************************************)
Gist(messages) == {normalizeContent(m) : m \in Range(messages)}
Told(a) == Gist(history[agents[a]])
Kept(r) == SubSeq(r.messages, 1, Len(r.messages) - Len(r.handle.news))

Histories ==
  /\ IsList(history) /\ Len(history) = Len(agents)
  /\ \A a \in 1 .. Len(agents) : agents[a] \in 1 .. a /\ IsList(history[a])

\* A request r of a client that is at l.
Heard(l, r) ==
  /\ IsList(r.messages) /\ r.handle.agent \in 0 .. Len(agents)
  /\ l = "creating" => /\ r.handle.news = r.messages
                       /\ r.handle.key[1] = "resume" => r.handle.agent # 0
  /\ l \in {"resolved", "waiting"} =>
       /\ IsList(r.handle.news)
       /\ Gist(r.messages) \subseteq Gist(Kept(r)) \cup Gist(r.handle.news)
       /\ r.handle.agent \notin mixed => Gist(Kept(r)) \subseteq Told(r.handle.agent)
  /\ l = "running" /\ r.handle.agent \notin mixed =>
       Gist(r.messages) \subseteq Told(r.handle.agent)

Recalled(e) ==
  /\ IsList(e.lastMessages)
  /\ e.agent \notin mixed => Gist(e.lastMessages) \subseteq Told(e.agent)

Transcripts ==
  /\ DOMAIN seen = Clients /\ \A c \in Clients : IsList(seen[c])
  /\ IsList(responses) /\ \A r \in Range(responses) : IsList(r.messages)

Knowledge ==
  /\ Histories /\ Transcripts
  /\ \A c \in Clients : Heard(pc[c], req[c])
  /\ \A e \in Range(entries) : Recalled(e)

\* Nothing is forgotten.
Grown ==
  /\ Len(agents) <= Len(agents') /\ mixed \subseteq mixed'
  /\ \A a \in 1 .. Len(agents) : Told(a) \subseteq Told(a)'

LEMMA EmptyList == IsList(<<>>) /\ Range(<<>>) = {}
  BY EmptySeq DEF IsList, Range

LEMMA Single == ASSUME NEW m PROVE IsList(<<m>>) /\ Range(<<m>>) = {m}
<1>1. PICK s : s = <<>>
  OBVIOUS
<1>2. IsList(Append(s, m)) /\ Range(Append(s, m)) = {m}
  <2>1. IsList(s) /\ Range(s) = {}
    BY <1>1, EmptyList
  <2> QED
    BY <2>1, Appended
<1>3. <<m>> = Append(s, m)
  BY <1>1
<1> QED
  BY <1>2, <1>3

LEMMA Updated ==
  ASSUME NEW s, IsList(s), NEW i \in 1 .. Len(s), NEW e, NEW t, t = [s EXCEPT ![i] = e]
  PROVE  /\ IsList(t) /\ Len(t) = Len(s)
         /\ \A j \in 1 .. Len(s) : t[j] = IF j = i THEN e ELSE s[j]
<1> DEFINE S == Range(s) \cup {e}
<1>1. s \in Seq(S) /\ e \in S
  BY SeqMonotonic DEF IsList
<1> HIDE DEF S
<1>2. /\ t \in Seq(S) /\ Len(t) = Len(s)
      /\ \A j \in 1 .. Len(s) : t[j] = IF j = i THEN e ELSE s[j]
  BY <1>1, ExceptSeq
<1> QED
  BY <1>2, SeqOfRange DEF IsList

LEMMA Joined ==
  ASSUME NEW s, NEW t, IsList(s), IsList(t)
  PROVE  IsList(s \o t) /\ Range(s \o t) = Range(s) \cup Range(t)
<1> DEFINE S == Range(s) \cup Range(t)
<1>1. s \in Seq(S) /\ t \in Seq(S)
  BY SeqMonotonic DEF IsList
<1> HIDE DEF S
<1>2. s \o t \in Seq(S)
  BY <1>1, ConcatProperties
<1> QED
  BY <1>1, <1>2, RangeConcatenation, SeqOfRange DEF IsList, S

\* A list is what comes before and what comes after.
LEMMA Split ==
  ASSUME NEW s, IsList(s), NEW n \in 0 .. Len(s)
  PROVE  /\ IsList(SubSeq(s, n + 1, Len(s))) /\ Len(SubSeq(s, n + 1, Len(s))) = Len(s) - n
         /\ IsList(SubSeq(s, 1, n))
         /\ Range(s) = Range(SubSeq(s, 1, n)) \cup Range(SubSeq(s, n + 1, Len(s)))
<1>1. Len(s) \in Nat /\ n \in Nat /\ \A i \in 1 .. Len(s) : s[i] \in Range(s)
  BY ElementOfSeq, LenProperties DEF IsList
<1>2. IsList(SubSeq(s, 1, n)) /\ IsList(SubSeq(s, n + 1, Len(s)))
  BY <1>1, Cut
<1>3. Len(SubSeq(s, n + 1, Len(s))) = Len(s) - n
  BY <1>1, SubSeqProperties
<1>4. SubSeq(s, 1, n) \o SubSeq(s, n + 1, Len(s)) = s
  <2>1. s \in Seq(Range(s)) /\ 1 \in 1 .. Len(s) + 1 /\ n \in 1 - 1 .. Len(s) /\ Len(s) \in n .. Len(s)
    BY <1>1 DEF IsList
  <2>2. SubSeq(s, 1, n) \o SubSeq(s, n + 1, Len(s)) = SubSeq(s, 1, Len(s))
    BY <2>1, ConcatAdjacentSubSeq
  <2> QED
    BY <2>1, <2>2, SubSeqFull
<1> QED
  BY <1>2, <1>3, <1>4, Joined

LEMMA Indexed ==
  ASSUME NEW s, IsList(s)
  PROVE  Len(s) \in Nat /\ DOMAIN s = 1 .. Len(s) /\ Range(s) = {s[i] : i \in 1 .. Len(s)}
  BY LenProperties, RangeEquality DEF IsList

LEMMA Beginning ==
  ASSUME NEW s, IsList(s), NEW n \in 0 .. Len(s), NEW m \in Range(SubSeq(s, 1, n))
  PROVE  \E i \in 1 .. n : m = s[i]
<1>1. Len(s) \in Nat /\ n \in Nat /\ \A i \in 1 .. n : s[i] \in Range(s)
  BY Indexed
<1>2. PICK t : t = SubSeq(s, 1, n)
  OBVIOUS
<1>3. IsList(t)
  BY <1>2, Split
<1>4. Len(t) = n /\ \A i \in 1 .. n : t[i] = s[i]
  <2>1. 1 \in Int /\ n \in Int
    BY <1>1
  <2> QED
    BY <1>1, <1>2, <2>1, SubSeqProperties
<1>5. Range(t) = {t[i] : i \in 1 .. n}
  BY <1>3, <1>4, Indexed
<1>6. m \in Range(t)
  BY <1>2
<1> QED
  BY <1>4, <1>5, <1>6

LEMMA SamePrefix ==
  ASSUME NEW s, IsList(s), NEW t, IsList(t), IsPrefix(Normalized(s), Normalized(t))
  PROVE  /\ Len(s) \in 0 .. Len(t)
         /\ \A i \in 1 .. Len(s) : normalizeContent(s[i]) = normalizeContent(t[i])
<1>1. ASSUME NEW u, IsList(u)
      PROVE  /\ Normalized(u) \in Seq(Gist(u)) /\ Len(Normalized(u)) = Len(u)
             /\ \A i \in 1 .. Len(u) : Normalized(u)[i] = normalizeContent(u[i])
  <2>1. Len(u) \in Nat /\ DOMAIN u = 1 .. Len(u) /\ \A i \in 1 .. Len(u) : u[i] \in Range(u)
    BY <1>1, Indexed
  <2>2. Normalized(u) = [i \in 1 .. Len(u) |-> normalizeContent(u[i])]
    BY <2>1 DEF Normalized
  <2> QED
    BY <2>1, <2>2 DEF Gist
<1>2. PICK a, b : a = Normalized(s) /\ b = Normalized(t)
  OBVIOUS
<1>3. /\ Len(a) = Len(s) /\ Len(b) = Len(t) /\ Len(s) \in Nat /\ Len(t) \in Nat
      /\ \A i \in 1 .. Len(s) : a[i] = normalizeContent(s[i])
      /\ \A i \in 1 .. Len(t) : b[i] = normalizeContent(t[i])
  BY <1>1, <1>2, Indexed
<1>4. Len(s) <= Len(t) /\ SubSeq(a, 1, Len(s)) = SubSeq(b, 1, Len(s))
  BY <1>2, <1>3 DEF IsPrefix
<1>5. \A i \in 1 .. Len(s) : SubSeq(a, 1, Len(s))[i] = a[i] /\ SubSeq(b, 1, Len(s))[i] = b[i]
  <2>1. /\ 1 \in Int /\ Len(s) \in Int
        /\ \A i \in 1 .. Len(s) : a[i] \in Gist(s) /\ b[i] \in Gist(t)
    BY <1>1, <1>2, <1>3, <1>4, ElementOfSeq
  <2> QED
    BY <1>3, <2>1, SubSeqProperties
<1> QED
  BY <1>3, <1>4, <1>5

\* What computeNewSuffix() cuts off was remembered, and nothing gets lost.
LEMMA SuffixKeeps ==
  ASSUME NEW remembered, IsList(remembered), NEW r, IsList(r.messages),
         r.handle.news = computeNewSuffix(remembered, r.messages)
  PROVE  /\ IsList(r.handle.news) /\ Gist(Kept(r)) \subseteq Gist(remembered)
         /\ Gist(r.messages) \subseteq Gist(Kept(r)) \cup Gist(r.handle.news)
<1>1. PICK current, news, kept : current = r.messages /\ news = r.handle.news /\ kept = Kept(r)
  OBVIOUS
<1>2. /\ IsList(current) /\ news = computeNewSuffix(remembered, current)
      /\ kept = SubSeq(current, 1, Len(current) - Len(news))
  BY <1>1 DEF Kept
<1>3. Len(current) \in Nat /\ Len(remembered) \in Nat
  BY <1>2, LenProperties DEF IsList
<1>4. CASE IsPrefix(Normalized(remembered), Normalized(current))
  <2> DEFINE n == Len(remembered)
  <2>1. /\ n \in 0 .. Len(current)
        /\ \A i \in 1 .. n : normalizeContent(remembered[i]) = normalizeContent(current[i])
    BY <1>2, <1>4, SamePrefix
  <2>2. news = SubSeq(current, n + 1, Len(current))
    BY <1>2, <1>4 DEF computeNewSuffix
  <2>3. IsList(news) /\ Len(news) = Len(current) - n
    BY <1>2, <2>1, <2>2, Split
  <2>4. kept = SubSeq(current, 1, n)
    <3>1. Len(current) - Len(news) = n
      BY <1>3, <2>3
    <3> QED
      BY <1>2, <3>1
  <2>5. ASSUME NEW m \in Range(kept) PROVE normalizeContent(m) \in Gist(remembered)
    <3>1. m \in Range(SubSeq(current, 1, n)) /\ n \in 0 .. Len(current) /\ IsList(current)
      BY <1>2, <2>1, <2>4
    <3> HIDE DEF n
    <3>2. PICK i \in 1 .. n : m = current[i]
      BY <3>1, Beginning
    <3> USE DEF n
    <3>3. remembered[i] \in Range(remembered)
      BY <3>2, Indexed
    <3>4. normalizeContent(m) = normalizeContent(remembered[i])
      BY <2>1, <3>2
    <3> QED
      BY <3>3, <3>4 DEF Gist
  <2>6. Range(current) = Range(SubSeq(current, 1, n)) \cup Range(SubSeq(current, n + 1, Len(current)))
    BY <1>2, <2>1, Split
  <2>7. Gist(kept) \subseteq Gist(remembered)
    BY <2>5 DEF Gist
  <2>8. Gist(current) \subseteq Gist(kept) \cup Gist(news)
    BY <2>2, <2>4, <2>6 DEF Gist
  <2> QED
    BY <1>1, <2>3, <2>7, <2>8
<1>5. CASE ~IsPrefix(Normalized(remembered), Normalized(current))
  <2>1. news = current
    BY <1>2, <1>5 DEF computeNewSuffix
  <2>2. kept = SubSeq(current, 1, 0)
    <3>1. Len(current) - Len(news) = 0
      BY <1>3, <2>1
    <3> QED
      BY <1>2, <3>1
  <2>3. kept = <<>>
    BY <2>2, SubSeqEmpty
  <2> QED
    BY <1>1, <1>2, <2>1, <2>3, EmptyList DEF Gist
<1> QED
  BY <1>4, <1>5

LEMMA Overwritten ==
  ASSUME IsList(history), NEW k \in 1 .. Len(history), NEW x,
         history' = [history EXCEPT ![k] = x]
  PROVE  /\ IsList(history') /\ Len(history') = Len(history)
         /\ \A j \in 1 .. Len(history) : history'[j] = IF j = k THEN x ELSE history[j]
<1>1. IsList(history') /\ Len(history') = Len(history)
  BY Updated
<1>2. \A j \in 1 .. Len(history) : history'[j] = IF j = k THEN x ELSE history[j]
  BY Updated
<1> QED
  BY <1>1, <1>2

\* agent.send() and the answer: one agent is told something, none forgets.
LEMMA Said ==
  ASSUME Histories, NEW a \in 1 .. Len(agents), NEW m, IsList(m),
         history' = [history EXCEPT ![agents[a]] = @ \o m],
         UNCHANGED agents, mixed \subseteq mixed'
  PROVE  Histories' /\ Grown /\ Told(a)' = Told(a) \cup Gist(m)
<1>1. Len(agents) = Len(history) /\ Len(history) \in Nat /\ IsList(history)
  BY LenProperties DEF Histories, IsList
<1>2. PICK k \in 1 .. Len(history) : k = agents[a]
  BY <1>1 DEF Histories
<1>3. PICK x : x = history[k] \o m
  OBVIOUS
<1>4. IsList(history[k]) /\ IsList(x) /\ Range(x) = Range(history[k]) \cup Range(m)
  BY <1>1, <1>3, Joined DEF Histories
<1>5. history' = [history EXCEPT ![k] = x]
  BY <1>2, <1>3
<1>6. /\ IsList(history') /\ Len(history') = Len(history)
      /\ \A j \in 1 .. Len(history) : history'[j] = IF j = k THEN x ELSE history[j]
  BY <1>1, <1>5, Overwritten
<1>7. Histories'
  BY <1>1, <1>4, <1>6 DEF Histories
<1>8. \A b \in 1 .. Len(agents) : agents[b] \in 1 .. Len(history)
  BY <1>1 DEF Histories
<1>9. Grown
  <2>1. Gist(history[k]) \subseteq Gist(x)
    BY <1>4 DEF Gist
  <2>2. ASSUME NEW b \in 1 .. Len(agents) PROVE Told(b) \subseteq Told(b)'
    <3>1. history'[agents'[b]] = IF agents[b] = k THEN x ELSE history[agents[b]]
      BY <1>6, <1>8
    <3>2. Gist(history[agents[b]]) \subseteq Gist(history'[agents'[b]])
      BY <2>1, <3>1
    <3> QED
      BY <3>2 DEF Told, Gist
  <2> QED
    BY <1>1, <2>2 DEF Grown
<1>10. Told(a)' = Told(a) \cup Gist(m)
  BY <1>1, <1>2, <1>4, <1>6 DEF Told, Gist
<1> QED
  BY <1>7, <1>9, <1>10

LEMMA Silent ==
  ASSUME Histories, UNCHANGED <<agents, history, mixed>>
  PROVE  Histories' /\ Grown
<1>1. Len(agents) \in Nat
  BY LenProperties DEF Histories, IsList
<1> QED
  BY <1>1 DEF Histories, Grown, Told

Others(c) == \A d \in Clients \ {c} : pc'[d] = pc[d] /\ req'[d] = req[d]

\* The other clients and the entries that stay are as well informed as before.
LEMMA Learned ==
  ASSUME IInv, Knowledge, NEW c \in Clients, Others(c), Grown, Histories', Transcripts',
         Heard(pc[c], req[c])', \A e \in Range(entries') : e \in Range(entries) \/ Recalled(e)'
  PROVE  Knowledge'
<1>1. Len(agents) \in Nat /\ Len(agents') \in Nat /\ Len(mutexes) = Len(agents)
  BY LenProperties DEF IInv, Pairs, Histories, IsList, Knowledge
<1>2. ASSUME NEW d \in Clients \ {c} PROVE Heard(pc[d], req[d])'
  <2>1. Heard(pc[d], req[d]) /\ pc'[d] = pc[d] /\ req'[d] = req[d]
    BY DEF Knowledge, Others
  <2>2. pc[d] \notin {"idle", "creating"} => req[d].handle.agent \in 1 .. Len(agents)
    BY <1>1 DEF IInv, Handles, Paired
  <2>3. Kept(req[d])' = Kept(req[d])
    BY <2>1 DEF Kept
  <2> QED
    BY <1>1, <2>1, <2>2, <2>3 DEF Heard, Grown
<1>3. ASSUME NEW e \in Range(entries') PROVE Recalled(e)'
  <2>1. CASE e \in Range(entries)
    <3>1. Recalled(e) /\ e.agent \in 1 .. Len(agents)
      BY <1>1, <2>1 DEF Knowledge, IInv, Entries, Paired
    <3> QED
      BY <3>1 DEF Recalled, Grown
  <2> QED
    BY <2>1
<1> QED
  BY <1>2, <1>3 DEF Knowledge

LEMMA InitKnows == Init => Knowledge
<1> SUFFICES ASSUME Init PROVE Knowledge
  OBVIOUS
<1>1. Len(agents) = 0 /\ Histories /\ Transcripts
  BY EmptyList, EmptySeq DEF Init, Histories, Transcripts
<1>2. \A c \in Clients : Heard(pc[c], req[c])
  BY <1>1, EmptyList DEF Init, Heard, NoRequest, NoHandle
<1> QED
  BY <1>1, <1>2, EmptyList DEF Init, Knowledge

LEMMA ResolveKnows ==
  ASSUME IInv, Knowledge, NEW c \in Clients, pc[c] = "idle",
         UNCHANGED <<agents, history, mixed>>, Transcripts',
         NEW key, NEW messages, NEW id, NEW session, IsList(messages),
         key[1] = "resume" => req[c].handle.agent # 0,
         \/ ResolveCached(c, key, messages, id, session)
         \/ ResolveMiss(c, key, messages, id, session)
  PROVE  Knowledge'
<1>1. Histories' /\ Grown
  BY Silent DEF Knowledge
<1>2. Len(agents) \in Nat /\ Len(mutexes) = Len(agents)
  BY LenProperties DEF IInv, Pairs, IsList
<1>3. CASE ResolveCached(c, key, messages, id, session)
  <2>1. PICK entry \in Lookup(entries, key) :
          /\ entries' = Append(Drop(entries, key), entry)
          /\ req' = [req EXCEPT ![c] =
               [messages |-> messages, id |-> id, session |-> session,
                handle |-> [key |-> key, agent |-> entry.agent, mutex |-> entry.mutex,
                            news |-> computeNewSuffix(entry.lastMessages, messages)]]]
          /\ pc' = [pc EXCEPT ![c] = "resolved"]
    BY <1>3 DEF ResolveCached
  <2>2. entry \in Range(entries)
    BY Found
  <2>3. Range(entries') \subseteq Range(entries)
    BY <2>1, <2>2, Dropped, Appended DEF IInv, Entries
  <2>4. PICK r : r = req'[c]
    OBVIOUS
  <2>5. /\ pc'[c] = "resolved" /\ Others(c)
        /\ r.messages = messages /\ r.handle.agent = entry.agent
        /\ r.handle.news = computeNewSuffix(entry.lastMessages, messages)
    BY <2>1, <2>4 DEF IInv, Requests, Others
  <2>6. entry.agent \in 1 .. Len(agents) /\ Recalled(entry)
    BY <1>2, <2>2 DEF IInv, Entries, Paired, Knowledge
  <2>7. /\ IsList(r.handle.news) /\ Gist(Kept(r)) \subseteq Gist(entry.lastMessages)
        /\ Gist(messages) \subseteq Gist(Kept(r)) \cup Gist(r.handle.news)
    BY <2>5, <2>6, SuffixKeeps DEF Recalled
  <2>8. entry.agent \notin mixed => Gist(Kept(r)) \subseteq Told(entry.agent)'
    BY <2>6, <2>7 DEF Recalled, Told
  <2>9. Heard("resolved", r)'
    BY <1>2, <2>5, <2>6, <2>7, <2>8 DEF Heard
  <2>10. Heard(pc[c], req[c])'
    BY <2>4, <2>5, <2>9
  <2> QED
    BY <1>1, <2>3, <2>5, <2>10, Learned
<1>4. CASE ResolveMiss(c, key, messages, id, session)
  <2>1. /\ pc'[c] = "creating" /\ Others(c) /\ UNCHANGED entries
        /\ req'[c].messages = messages /\ req'[c].handle.news = messages
        /\ req'[c].handle.agent = req[c].handle.agent
        /\ req'[c].handle.key[1] = "resume" => key[1] = "resume"
    BY <1>4 DEF ResolveMiss, IInv, Requests, Others
  <2>2. req[c].handle.agent \in 0 .. Len(agents)
    BY DEF Knowledge, Heard
  <2>3. Heard(pc[c], req[c])'
    BY <2>1, <2>2 DEF Heard
  <2> QED
    BY <1>1, <2>1, <2>3, Learned
<1> QED
  BY <1>3, <1>4

\* A response that is found is the youngest again.
LEMMA Refreshed ==
  ASSUME Transcripts, NEW key, NEW previous \in Range(responses),
         responses' = Append(Drop(responses, key), previous)
  PROVE  IsList(responses') /\ \A r \in Range(responses') : IsList(r.messages)
  BY Dropped, Appended DEF Transcripts

LEMMA AskKnows == ASSUME IInv, Knowledge, NEW c \in Clients, Ask(c) PROVE Knowledge'
<1>1. PICK message : message = Message(c, Len(seen[c]) + 1)
  OBVIOUS
<1>2. PICK messages : messages = Outgoing(c, message)
  OBVIOUS
<1>3. PICK key : key = KeyFor(c, messages, <<"none", 0>>)
  OBVIOUS
<1>4. /\ pc[c] = "idle" /\ UNCHANGED <<agents, history, mixed, responses>>
      /\ seen' = [seen EXCEPT ![c] = Append(seen[c], message)]
      /\ \/ ResolveCached(c, key, messages, <<c, requests[c]>>, <<"none", 0>>)
         \/ ResolveMiss(c, key, messages, <<c, requests[c]>>, <<"none", 0>>)
  BY <1>1, <1>2, <1>3 DEF Ask, NewRequest
<1>5. IsList(seen[c]) /\ IsList(Append(seen[c], message)) /\ IsList(<<message>>)
  BY Appended, Single DEF Knowledge, Transcripts
<1>6. IsList(messages)
  BY <1>2, <1>5 DEF Outgoing
<1>7. Transcripts'
  BY <1>4, <1>5 DEF Knowledge, Transcripts
<1>8. key[1] = "resume" => req[c].handle.agent # 0
  BY <1>3 DEF KeyFor, AutoKey, Responds
<1> QED
  BY <1>4, <1>6, <1>7, <1>8, ResolveKnows

\* A response keeps to the session of its chain.
LEMMA ChainKey ==
  ASSUME NEW c \in Clients, Responds(c), NEW messages, NEW session
  PROVE  KeyFor(c, messages, session)[1] = "explicit"
<1>1. mode[c] \in {"responses", "named"}
  BY DEF Responds
<1>2. KeyFor(c, messages, session) = <<"explicit", session>>
  BY <1>1 DEF KeyFor, Responds
<1> QED
  BY <1>2

LEMMA AskResponsesKnows ==
  ASSUME IInv, Knowledge, NEW c \in Clients, AskResponses(c) PROVE Knowledge'
<1> DEFINE Resolved(key, messages, session) ==
      \/ ResolveCached(c, key, messages, <<c, requests[c]>>, session)
      \/ ResolveMiss(c, key, messages, <<c, requests[c]>>, session)
<1>1. pc[c] = "idle" /\ UNCHANGED <<agents, history, mixed>> /\ Responds(c)
  BY DEF AskResponses, NewRequest
<1> HIDE DEF Resolved
<1>2. PICK messages, session :
        /\ seen' = [seen EXCEPT ![c] = messages]
        /\ Resolved(KeyFor(c, messages, session), messages, session)
        /\ \/ messages = <<Message(c, 1)>> /\ UNCHANGED responses
           \/ \E previous \in Range(responses) :
                /\ messages = Append(previous.messages,
                                     Message(c, Len(previous.messages) + 1))
                /\ responses' = Append(Drop(responses, previous.key), previous)
  BY DEF AskResponses, Resolved
<1>3. /\ IsList(messages)
      /\ IsList(responses') /\ \A r \in Range(responses') : IsList(r.messages)
  <2>1. CASE messages = <<Message(c, 1)>> /\ UNCHANGED responses
    BY <2>1, Single DEF Knowledge, Transcripts
  <2>2. ASSUME NEW previous \in Range(responses),
               messages = Append(previous.messages, Message(c, Len(previous.messages) + 1)),
               responses' = Append(Drop(responses, previous.key), previous)
        PROVE  /\ IsList(messages)
               /\ IsList(responses') /\ \A r \in Range(responses') : IsList(r.messages)
    BY <2>2, Appended, Refreshed DEF Knowledge, Transcripts
  <2> QED
    BY <1>2, <2>1, <2>2
<1>4. Transcripts'
  BY <1>2, <1>3 DEF Knowledge, Transcripts
<1>5. PICK key : key = KeyFor(c, messages, session)
  OBVIOUS
<1>6. key[1] = "explicit" /\ Resolved(key, messages, session)
  BY <1>1, <1>2, <1>5, ChainKey
<1> QED
  BY <1>1, <1>3, <1>4, <1>6, ResolveKnows DEF Resolved

\* Agent.create(): an agent that was told nothing, or one more way to reach an
\* old one.
LEMMA Another ==
  ASSUME IInv, Knowledge, NEW id \in 1 .. Len(agents) + 1,
         agents' = Append(agents, id), history' = Append(history, <<>>), UNCHANGED mixed
  PROVE  Histories' /\ Grown /\ Len(agents') = Len(agents) + 1
<1>1. /\ Len(agents) \in Nat /\ Len(history) = Len(agents)
      /\ IsList(agents) /\ IsList(history)
  BY LenProperties DEF IInv, Pairs, IsList, Knowledge, Histories
<1>2. /\ Len(agents') = Len(agents) + 1 /\ agents'[Len(agents) + 1] = id
      /\ \A a \in 1 .. Len(agents) : agents'[a] = agents[a]
  BY <1>1, AppendProperties DEF IsList
<1>3. /\ IsList(history') /\ Len(history') = Len(history) + 1
      /\ history'[Len(history) + 1] = <<>>
      /\ \A a \in 1 .. Len(history) : history'[a] = history[a]
  <2>1. IsList(history')
    BY <1>1, Appended
  <2>2. PICK e : e = <<>>
    OBVIOUS
  <2>3. history' = Append(history, e)
    BY <2>2
  <2>4. /\ Len(history') = Len(history) + 1 /\ history'[Len(history) + 1] = e
        /\ \A a \in 1 .. Len(history) : history'[a] = history[a]
    BY <1>1, <2>3, AppendProperties DEF IsList
  <2> QED
    BY <2>1, <2>2, <2>4
<1>4. Histories'
  <2>1. ASSUME NEW a \in 1 .. Len(agents')
        PROVE  agents'[a] \in 1 .. a /\ IsList(history'[a])
    <3>1. CASE a = Len(agents) + 1
      BY <1>1, <1>2, <1>3, <3>1, EmptyList
    <3>2. CASE a \in 1 .. Len(agents)
      BY <1>1, <1>2, <1>3, <3>2 DEF Knowledge, Histories
    <3> QED
      BY <1>1, <1>2, <3>1, <3>2
  <2> QED
    BY <1>1, <1>2, <1>3, <2>1 DEF Histories
<1>5. \A a \in 1 .. Len(agents) : agents[a] \in 1 .. Len(history)
  BY <1>1 DEF Knowledge, Histories
<1>6. Grown
  BY <1>1, <1>2, <1>3, <1>5 DEF Grown, Told
<1> QED
  BY <1>2, <1>4, <1>6

LEMMA CreatedKnows ==
  ASSUME IInv, Knowledge, NEW c \in Clients, Created(c) PROVE Knowledge'
<1> DEFINE h == req[c].handle
           new == Len(agents) + 1
<1>1. PICK id : id = IF h.key[1] = "resume" THEN agents[h.agent] ELSE new
  OBVIOUS
<1>2. PICK e : e = [key |-> h.key, agent |-> new, mutex |-> Len(mutexes) + 1,
                    lastMessages |-> <<>>]
  OBVIOUS
<1>3. /\ pc[c] = "creating" /\ pc' = [pc EXCEPT ![c] = "resolved"]
      /\ agents' = Append(agents, id) /\ history' = Append(history, <<>>)
      /\ Insert(entries, e) /\ UNCHANGED <<seen, responses, mixed>>
      /\ req' = [req EXCEPT ![c].handle.agent = new, ![c].handle.mutex = Len(mutexes) + 1]
  BY <1>1, <1>2 DEF Created
<1>4. Heard("creating", req[c]) /\ Histories /\ Len(agents) \in Nat
  <2>1. Heard(pc[c], req[c]) /\ Histories
    BY DEF Knowledge
  <2> QED
    BY <1>3, <2>1, LenProperties DEF IInv, Pairs, IsList
<1>5. id \in 1 .. Len(agents) + 1
  BY <1>1, <1>4 DEF Heard, Histories
<1>6. Histories' /\ Grown /\ Len(agents') = Len(agents) + 1
  BY <1>3, <1>5, Another
<1>7. Transcripts'
  BY <1>3 DEF Knowledge, Transcripts
<1>8. /\ pc'[c] = "resolved" /\ Others(c)
      /\ req'[c].messages = req[c].messages /\ req'[c].handle.news = req[c].messages
      /\ req'[c].handle.agent = new
  BY <1>3, <1>4 DEF IInv, Requests, Others, Heard, NoRequest, NoHandle
<1>9. Heard(pc[c], req[c])'
  <2>1. IsList(req[c].messages) /\ Len(req[c].messages) \in Nat
    BY <1>4, LenProperties DEF Heard, IsList
  <2>2. Kept(req[c])' = SubSeq(req[c].messages, 1, 0)
    BY <1>8, <2>1 DEF Kept
  <2>3. Kept(req[c])' = <<>>
    BY <2>2, SubSeqEmpty
  <2>4. Gist(Kept(req[c])') = {}
    BY <2>3, EmptyList DEF Gist
  <2>5. new \in 0 .. Len(agents')
    BY <1>4, <1>6
  <2> HIDE DEF new
  <2> QED
    BY <1>8, <2>1, <2>4, <2>5 DEF Heard
<1>10. \A x \in Range(entries') : x \in Range(entries) \/ Recalled(x)'
  <2>1. Range(entries') \subseteq Range(entries) \cup {e}
    BY <1>3, Inserted DEF IInv, Entries
  <2>2. e.lastMessages = <<>>
    BY <1>2
  <2>3. Recalled(e)'
    BY <2>2, EmptyList DEF Recalled, Gist
  <2> QED
    BY <2>1, <2>3
<1> QED
  BY <1>6, <1>7, <1>8, <1>9, <1>10, Learned

\* A step that only moves the client on.
LEMMA Moves ==
  ASSUME IInv, Knowledge, NEW c \in Clients, NEW l,
         pc' = [pc EXCEPT ![c] = l], UNCHANGED <<req, agents, history, mixed, seen, responses, entries>>,
         l \in {"resolved", "waiting"} => pc[c] \in {"resolved", "waiting"},
         l \notin {"creating", "running"}
  PROVE  Knowledge'
<1>1. Histories' /\ Grown
  BY Silent DEF Knowledge
<1>2. Transcripts'
  BY DEF Knowledge, Transcripts
<1>3. pc'[c] = l /\ Others(c) /\ Heard(pc[c], req[c])
  BY DEF IInv, Requests, Others, Knowledge
<1>4. Kept(req[c])' = Kept(req[c])
  BY DEF Kept
<1>5. Heard(pc[c], req[c])'
  BY <1>3, <1>4 DEF Heard, Told
<1> QED
  BY <1>1, <1>2, <1>3, <1>5, Learned

LEMMA SendKnows == ASSUME IInv, Knowledge, NEW c \in Clients, Send(c) PROVE Knowledge'
<1>1. /\ pc[c] = "waiting" /\ pc' = [pc EXCEPT ![c] = "running"]
      /\ UNCHANGED <<seen, req, entries, mixed, responses, agents>>
  BY DEF Send, cacheVars
<1>2. PICK news : news = req[c].handle.news
  OBVIOUS
<1>3. PICK a : a = req[c].handle.agent
  OBVIOUS
<1>4. Len(mutexes) = Len(agents) /\ a \in 1 .. Len(agents)
  BY <1>1, <1>3 DEF IInv, Pairs, Handles, Paired
<1>5. Heard("waiting", req[c]) /\ Histories
  BY <1>1 DEF Knowledge
<1>6. history' = [history EXCEPT ![agents[a]] = @ \o news]
  BY <1>2, <1>3 DEF Send, Say
<1>7. Histories' /\ Grown /\ Told(a)' = Told(a) \cup Gist(news)
  BY <1>1, <1>2, <1>4, <1>5, <1>6, Said DEF Heard
<1>8. Transcripts'
  BY <1>1 DEF Knowledge, Transcripts
<1>9. pc'[c] = "running" /\ Others(c)
  BY <1>1 DEF IInv, Requests, Others
<1>10. Heard(pc[c], req[c])'
  BY <1>1, <1>2, <1>3, <1>4, <1>5, <1>7, <1>9 DEF Heard
<1> QED
  BY <1>1, <1>7, <1>8, <1>9, <1>10, Learned

\* A message of a turn that runs: it is the agent's, the request's and the
\* client's.
LEMMA Exchanged ==
  ASSUME IInv, Knowledge, NEW c \in Clients, pc[c] \notin {"idle", "creating"},
         NEW message, Say(c, <<message>>), seen' = [seen EXCEPT ![c] = Append(@, message)],
         UNCHANGED agents, mixed \subseteq mixed'
  PROVE  /\ Histories' /\ Grown
         /\ DOMAIN seen' = Clients /\ \A d \in Clients : IsList(seen'[d])
         /\ req[c].handle.agent \in 1 .. Len(agents)
         /\ Told(req[c].handle.agent) \cup {normalizeContent(message)} =
           Gist(history'[agents'[req[c].handle.agent]])
<1>1. PICK a : a = req[c].handle.agent
  OBVIOUS
<1>2. Len(mutexes) = Len(agents) /\ a \in 1 .. Len(agents) /\ Histories
  BY <1>1 DEF IInv, Pairs, Handles, Paired, Knowledge
<1>3. PICK m : m = <<message>>
  OBVIOUS
<1>4. IsList(m) /\ Range(m) = {message}
  BY <1>3, Single
<1>5. history' = [history EXCEPT ![agents[a]] = @ \o m]
  BY <1>1, <1>3 DEF Say
<1>6. Histories' /\ Grown /\ Told(a)' = Told(a) \cup Gist(m)
  BY <1>2, <1>4, <1>5, Said
<1>7. IsList(Append(seen[c], message))
  BY Appended DEF Knowledge, Transcripts
<1>8. DOMAIN seen' = Clients /\ \A d \in Clients : IsList(seen'[d])
  BY <1>7 DEF Knowledge, Transcripts
<1>9. Gist(m) = {normalizeContent(message)}
  BY <1>4 DEF Gist
<1> QED
  BY <1>1, <1>2, <1>6, <1>8, <1>9 DEF Told

\* An entry that is stamped with a turn of its own agent remembers what this
\* agent was told; any other agent is mixed from now on.
LEMMA RememberedKnows ==
  ASSUME IInv, Knowledge, NEW c \in Clients, pc[c] = "running",
         NEW message, NEW messages, messages = Append(req[c].messages, message),
         Told(req[c].handle.agent) \cup {normalizeContent(message)} =
           Gist(history'[agents'[req[c].handle.agent]]),
         remember(req[c].handle, messages)
  PROVE  /\ mixed \subseteq mixed'
         /\ \A e \in Range(entries') : e \in Range(entries) \/ Recalled(e)'
<1> DEFINE h == req[c].handle
           found == Lookup(entries, h.key)
           entry == IF found = {} THEN EntryFromHandle(h) ELSE CHOOSE e \in found : TRUE
           key == IF isStableKey(h.key) THEN h.key ELSE AutoKey(messages)
<1>1. PICK new : new = [key |-> key, agent |-> entry.agent, mutex |-> entry.mutex,
                        lastMessages |-> messages]
  OBVIOUS
<1>2. /\ Insert(Drop(entries, h.key), new)
      /\ mixed' = IF entry.agent = h.agent THEN mixed ELSE mixed \cup {entry.agent}
      /\ new.agent = entry.agent /\ new.lastMessages = messages
  BY <1>1 DEF remember
<1> HIDE DEF entry, key
<1>3. Range(entries') \subseteq Range(entries) \cup {new}
  <2>1. IsList(Drop(entries, h.key)) /\ Range(Drop(entries, h.key)) \subseteq Range(entries)
    BY Dropped DEF IInv, Entries
  <2> QED
    BY <1>2, <2>1, Inserted
<1>4. Heard("running", req[c])
  BY DEF Knowledge
<1>5. IsList(messages) /\ Range(messages) = Range(req[c].messages) \cup {message}
  BY <1>4, Appended DEF Heard
<1>6. Recalled(new)'
  <2>1. CASE entry.agent = h.agent
    <3>1. Gist(messages) = Gist(req[c].messages) \cup {normalizeContent(message)}
      BY <1>5 DEF Gist
    <3> QED
      BY <1>2, <1>4, <1>5, <2>1, <3>1 DEF Recalled, Heard, Told
  <2>2. CASE entry.agent # h.agent
    BY <1>2, <1>5, <2>2 DEF Recalled
  <2> QED
    BY <2>1, <2>2
<1> QED
  BY <1>2, <1>3, <1>6

LEMMA AnswerKnows == ASSUME IInv, Knowledge, NEW c \in Clients, Answer(c) PROVE Knowledge'
<1>1. pc[c] \in {"running", "continuing"} /\ UNCHANGED agents
  BY DEF Answer
<1>2. PICK kind, message, messages :
        /\ messages = Append(req[c].messages, message)
        /\ Say(c, <<message>>) /\ seen' = [seen EXCEPT ![c] = Append(@, message)]
        /\ IF pc[c] = "running" THEN remember(req[c].handle, messages)
           ELSE UNCHANGED cacheVars
        /\ Persist(c, messages)
        /\ req' = [req EXCEPT ![c].messages = messages]
        /\ pc' = [pc EXCEPT ![c] = IF kind = "call" THEN "held" ELSE "idle"]
  BY DEF Answer
<1>3. mixed \subseteq mixed'
  BY <1>2 DEF remember, cacheVars
<1>4. /\ Histories' /\ Grown
      /\ DOMAIN seen' = Clients /\ \A d \in Clients : IsList(seen'[d])
      /\ req[c].handle.agent \in 1 .. Len(agents)
      /\ Told(req[c].handle.agent) \cup {normalizeContent(message)} =
           Gist(history'[agents'[req[c].handle.agent]])
  BY <1>1, <1>2, <1>3, Exchanged
<1>5. \A e \in Range(entries') : e \in Range(entries) \/ Recalled(e)'
  <2>1. CASE pc[c] = "running"
    BY <1>2, <1>4, <2>1, RememberedKnows
  <2>2. CASE pc[c] # "running"
    BY <1>2, <2>2 DEF cacheVars
  <2> QED
    BY <2>1, <2>2
<1>6. IsList(messages)
  BY <1>2, Appended DEF Knowledge, Heard
<1>7. Transcripts'
  <2>1. PICK new : new = [key |-> req[c].id, session |-> req[c].session, messages |-> messages]
    OBVIOUS
  <2>2. /\ IsList(Append(responses, new))
        /\ Range(Append(responses, new)) = Range(responses) \cup {new}
    BY Appended DEF Knowledge, Transcripts
  <2>3. /\ IsList(Trim(Append(responses, new)))
        /\ Range(Trim(Append(responses, new))) \subseteq Range(responses) \cup {new}
    BY <2>2, Trimmed
  <2>4. responses' = responses \/ responses' = Trim(Append(responses, new))
    BY <1>2, <2>1 DEF Persist
  <2> QED
    BY <1>4, <1>6, <2>1, <2>3, <2>4 DEF Knowledge, Transcripts
<1>8. /\ pc'[c] \in {"held", "idle"} /\ Others(c)
      /\ req'[c].messages = messages /\ req'[c].handle = req[c].handle
  BY <1>2 DEF IInv, Requests, Others, NoRequest
<1>9. Heard(pc[c], req[c])'
  BY <1>1, <1>4, <1>6, <1>8 DEF Heard, Grown, Histories
<1> QED
  BY <1>4, <1>5, <1>7, <1>8, <1>9, Learned

LEMMA ContinueKnows ==
  ASSUME IInv, Knowledge, NEW c \in Clients, ContinueHeld(c) PROVE Knowledge'
<1>1. pc[c] = "held" /\ pc' = [pc EXCEPT ![c] = "continuing"] /\ UNCHANGED <<agents, entries, mixed>>
  BY DEF ContinueHeld, cacheVars
<1>2. PICK result :
        /\ Say(c, <<result>>) /\ seen' = [seen EXCEPT ![c] = Append(@, result)]
        /\ req' = [req EXCEPT ![c].messages = Append(@, result),
                              ![c].id = <<c, requests[c]>>]
  BY DEF ContinueHeld
<1>3. /\ Histories' /\ Grown
      /\ DOMAIN seen' = Clients /\ \A d \in Clients : IsList(seen'[d])
      /\ req[c].handle.agent \in 1 .. Len(agents)
  BY <1>1, <1>2, Exchanged
<1>4. IsList(responses') /\ \A r \in Range(responses') : IsList(r.messages)
  <2>1. CASE UNCHANGED responses
    BY <2>1 DEF Knowledge, Transcripts
  <2>2. ASSUME NEW previous \in Lookup(responses, req[c].id),
               responses' = Append(Drop(responses, previous.key), previous)
        PROVE  IsList(responses') /\ \A r \in Range(responses') : IsList(r.messages)
    BY <2>2, Found, Refreshed DEF Knowledge
  <2> QED
    BY <2>1, <2>2 DEF ContinueHeld
<1>5. Transcripts'
  BY <1>3, <1>4 DEF Transcripts
<1>6. IsList(Append(req[c].messages, result))
  BY Appended DEF Knowledge, Heard
<1>7. /\ pc'[c] = "continuing" /\ Others(c)
      /\ req'[c].messages = Append(req[c].messages, result) /\ req'[c].handle = req[c].handle
  BY <1>1, <1>2 DEF IInv, Requests, Others, NoRequest
<1>8. Heard(pc[c], req[c])'
  BY <1>1, <1>3, <1>6, <1>7 DEF Heard, Histories
<1> QED
  BY <1>1, <1>3, <1>5, <1>7, <1>8, Learned

LEMMA EvictionKnows == ASSUME IInv, Knowledge, Evict \/ Expire PROVE Knowledge'
<1>1. UNCHANGED <<pc, seen, req, agents, history, mixed>>
  BY DEF Evict, Expire
<1>2. Histories'
  BY <1>1, Silent DEF Knowledge
<1>3. Range(entries') \subseteq Range(entries)
  <2>1. IsList(entries) /\ Len(entries) \in Nat /\ DOMAIN entries = 1 .. Len(entries)
    BY LenProperties DEF IInv, Entries, IsList
  <2>2. CASE Evict
    BY <2>1, <2>2, Dropped DEF Evict, Install
  <2>3. CASE Expire /\ \E n \in DOMAIN entries : Install(SubSeq(entries, n + 1, Len(entries)))
    BY <2>1, <2>3, Cut DEF Install
  <2> QED
    BY <2>2, <2>3 DEF Expire
<1>4. IsList(responses') /\ Range(responses') \subseteq Range(responses)
  <2>1. IsList(responses) /\ Len(responses) \in Nat /\ DOMAIN responses = 1 .. Len(responses)
    BY LenProperties DEF Knowledge, Transcripts, IsList
  <2>2. CASE UNCHANGED responses
    BY <2>1, <2>2
  <2>3. CASE \E n \in DOMAIN responses : responses' = SubSeq(responses, n + 1, Len(responses))
    BY <2>1, <2>3, Cut
  <2> QED
    BY <2>2, <2>3 DEF Evict, Expire
<1>5. Transcripts'
  BY <1>1, <1>4 DEF Knowledge, Transcripts
<1>6. \A c \in Clients : Heard(pc[c], req[c])'
  BY <1>1 DEF Knowledge, Heard, Kept, Told
<1>7. \A e \in Range(entries') : Recalled(e)'
  BY <1>1, <1>3 DEF Knowledge, Recalled, Told
<1> QED
  BY <1>2, <1>5, <1>6, <1>7 DEF Knowledge

LEMMA StepKnows == IInv /\ Knowledge /\ [Next]_vars => Knowledge'
<1> SUFFICES ASSUME IInv, Knowledge, [Next]_vars PROVE Knowledge'
  OBVIOUS
<1>1. ASSUME NEW c \in Clients, CreateFails(c) PROVE Knowledge'
  <2>1. /\ pc' = [pc EXCEPT ![c] = "idle"]
        /\ UNCHANGED <<req, agents, history, mixed, seen, responses, entries>>
    BY <1>1 DEF CreateFails, cacheVars
  <2> QED
    BY <2>1, Moves
<1>2. ASSUME NEW c \in Clients, Enqueue(c) PROVE Knowledge'
  <2>1. /\ pc[c] = "resolved" /\ pc' = [pc EXCEPT ![c] = "waiting"]
        /\ UNCHANGED <<req, agents, history, mixed, seen, responses, entries>>
    BY <1>2 DEF Enqueue, cacheVars
  <2> QED
    BY <2>1, Moves
<1>3. ASSUME NEW c \in Clients, Fail(c) PROVE Knowledge'
  <2>1. /\ pc' = [pc EXCEPT ![c] = "idle"]
        /\ UNCHANGED <<req, agents, history, mixed, seen, responses, entries>>
    BY <1>3 DEF Fail, cacheVars
  <2> QED
    BY <2>1, Moves
<1>4. CASE UNCHANGED vars
  BY <1>4 DEF vars, Knowledge, Histories, Transcripts, Heard, Recalled, Told, Kept
<1> QED
  BY <1>1, <1>2, <1>3, <1>4, AskKnows, AskResponsesKnows, CreatedKnows, SendKnows,
     AnswerKnows, ContinueKnows, EvictionKnows DEF Next, ClientStep

\* A turn leaves out only messages its agent was told, up to an image whose
\* URL begins alike, whatever was evicted, branched, failed, put back or sent
\* twice before, unless remember() stamped this agent's entry with a turn of
\* another agent that had the same key.
THEOREM OnlyMixupsLoseContext == Spec => []OnlyMixupsWithhold
<1>1. Knowledge => OnlyMixupsWithhold
  <2>1. \A messages : Range(Normalized(messages)) = Gist(messages)
    BY DEF Range, Normalized, Gist
  <2> QED
    BY <2>1 DEF Knowledge, Heard, OnlyMixupsWithhold, Withheld, History, Kept, Told
<1>2. IInv /\ Knowledge /\ [Next]_vars => (IInv /\ Knowledge)'
  BY StepInv, StepKnows
<1>3. Init => IInv /\ Knowledge
  BY InitInv, InitKnows
<1> QED
  BY <1>1, <1>2, <1>3, PTL DEF Spec

-----------------------------------------------------------------------------
(***************************************************************************)
(* The caches.  A key is removed before it is inserted, and a response is  *)
(* stored under an id that no earlier request had (Numbered): that is why  *)
(* persist() needs no look at the map.                                     *)
(***************************************************************************)
Unique(cache) == \A i, j \in 1 .. Len(cache) : cache[i].key = cache[j].key => i = j
Neat(cache) == IsList(cache) /\ Len(cache) <= MaxCached /\ Unique(cache)

Numbered ==
  /\ \A r \in Range(responses) :
       \E d \in Clients, n \in Nat : r.key = <<d, n>> /\ n < requests[d]
  /\ \A c \in Clients :
       pc[c] \notin {"idle", "held"} =>
         /\ requests[c] > 0 /\ req[c].id = <<c, requests[c] - 1>>
         /\ \A r \in Range(responses) : r.key # req[c].id

Limits ==
  /\ mode \in [Clients -> Modes] /\ image \in [Clients -> Images]
  /\ requests \in [Clients -> 0 .. MaxRequests]
  /\ evictions \in 0 .. MaxEvictions
  /\ closed \subseteq 1 .. Len(agents) /\ mixed \subseteq 1 .. Len(agents)

Typed == Neat(entries) /\ Neat(responses) /\ Numbered /\ Limits

\* What remains of a list without its i-th member.
LEMMA RemovedAt ==
  ASSUME NEW s, IsList(s), NEW i \in 1 .. Len(s)
  PROVE  /\ IsList(RemoveAt(s, i)) /\ Len(RemoveAt(s, i)) = Len(s) - 1
         /\ \A k \in 1 .. Len(s) - 1 : RemoveAt(s, i)[k] = IF k < i THEN s[k] ELSE s[k + 1]
<1> DEFINE a == SubSeq(s, 1, i - 1)
           b == SubSeq(s, i + 1, Len(s))
<1>1. Len(s) \in Nat /\ \A k \in 1 .. Len(s) : s[k] \in Range(s)
  BY Indexed
<1>2. /\ a \in Seq(Range(s)) /\ Len(a) = i - 1
      /\ \A k \in 1 .. i - 1 : a[k] = s[k]
  <2>1. \A k \in 1 .. i - 1 : s[k] \in Range(s)
    BY <1>1
  <2>2. 1 \in Int /\ i - 1 \in Int
    OBVIOUS
  <2> QED
    BY <2>1, <2>2, SubSeqProperties
<1>3. /\ b \in Seq(Range(s)) /\ Len(b) = Len(s) - i
      /\ \A k \in 1 .. Len(s) - i : b[k] = s[i + k]
  <2>1. \A k \in i + 1 .. Len(s) : s[k] \in Range(s)
    BY <1>1
  <2>2. i + 1 \in Int /\ Len(s) \in Int
    BY <1>1
  <2> QED
    BY <1>1, <2>1, <2>2, SubSeqProperties
<1> HIDE DEF a, b
<1>4. /\ a \o b \in Seq(Range(s)) /\ Len(a \o b) = Len(s) - 1
      /\ \A k \in 1 .. Len(s) - 1 : (a \o b)[k] = IF k < i THEN s[k] ELSE s[k + 1]
  <2>1. /\ a \o b \in Seq(Range(s)) /\ Len(a \o b) = Len(a) + Len(b)
        /\ \A k \in 1 .. Len(a) + Len(b) :
             (a \o b)[k] = IF k <= Len(a) THEN a[k] ELSE b[k - Len(a)]
    BY <1>2, <1>3, ConcatProperties
  <2>2. Len(a) + Len(b) = Len(s) - 1
    BY <1>1, <1>2, <1>3
  <2>3. ASSUME NEW k \in 1 .. Len(s) - 1
        PROVE  (a \o b)[k] = IF k < i THEN s[k] ELSE s[k + 1]
    <3>1. CASE k < i
      BY <1>1, <1>2, <2>1, <2>2, <3>1
    <3>2. CASE k >= i
      <4>1. k - Len(a) \in 1 .. Len(s) - i /\ i + (k - Len(a)) = k + 1
        BY <1>1, <1>2, <3>2
      <4>2. (a \o b)[k] = b[k - Len(a)]
        BY <1>1, <1>2, <2>1, <2>2, <3>2
      <4>3. b[k - Len(a)] = s[k + 1]
        BY <1>3, <4>1
      <4> QED
        BY <3>2, <4>2, <4>3
    <3>3. k < i \/ k >= i
      BY <1>1
    <3> QED
      BY <3>1, <3>2, <3>3
  <2> QED
    BY <2>1, <2>2, <2>3
<1>5. RemoveAt(s, i) = a \o b
  BY DEF RemoveAt, a, b
<1> QED
  BY <1>4, <1>5, SeqOfRange DEF IsList

\* Map.delete
LEMMA DroppedKey ==
  ASSUME NEW cache, IsList(cache), Unique(cache), NEW key
  PROVE  /\ IsList(Drop(cache, key)) /\ Unique(Drop(cache, key))
         /\ Range(Drop(cache, key)) \subseteq Range(cache)
         /\ \A e \in Range(Drop(cache, key)) : e.key # key
         /\ Len(Drop(cache, key)) =
              IF \E e \in Range(cache) : e.key = key THEN Len(cache) - 1 ELSE Len(cache)
<1>1. /\ Len(cache) \in Nat /\ DOMAIN cache = 1 .. Len(cache)
      /\ Range(cache) = {cache[i] : i \in 1 .. Len(cache)}
  BY Indexed
<1>2. CASE \A i \in 1 .. Len(cache) : cache[i].key # key
  <2>1. Lookup(cache, key) = {}
    BY <1>1, <1>2 DEF Lookup
  <2>2. Drop(cache, key) = cache
    BY <2>1 DEF Drop
  <2> QED
    BY <1>1, <1>2, <2>2
<1>3. CASE \E i \in 1 .. Len(cache) : cache[i].key = key
  <2>1. PICK i \in 1 .. Len(cache) : i = CHOOSE j \in DOMAIN cache : cache[j].key = key
    BY <1>1, <1>3
  <2>2. cache[i].key = key
    BY <1>1, <1>3, <2>1
  <2>3. PICK rest : rest = RemoveAt(cache, i)
    OBVIOUS
  <2>4. Drop(cache, key) = rest
    <3>1. Lookup(cache, key) # {}
      BY <1>1, <1>3 DEF Lookup
    <3> QED
      BY <2>1, <2>3, <3>1 DEF Drop
  <2>5. /\ IsList(rest) /\ Len(rest) = Len(cache) - 1
        /\ \A k \in 1 .. Len(cache) - 1 : rest[k] = IF k < i THEN cache[k] ELSE cache[k + 1]
    BY <2>3, RemovedAt
  <2>6. Range(rest) = {rest[k] : k \in 1 .. Len(cache) - 1}
    BY <2>5, Indexed
  <2>7. Range(rest) \subseteq Range(cache) /\ \A e \in Range(rest) : e.key # key
    BY <1>1, <2>2, <2>5, <2>6 DEF Unique
  <2>8. Unique(rest)
    BY <1>1, <2>5 DEF Unique
  <2>9. \E e \in Range(cache) : e.key = key
    BY <1>1, <2>2
  <2> QED
    BY <2>4, <2>5, <2>7, <2>8, <2>9
<1> QED
  BY <1>2, <1>3

\* Map.set of a key that is not there
LEMMA AppendedKey ==
  ASSUME NEW cache, IsList(cache), Unique(cache), NEW e,
         \A x \in Range(cache) : x.key # e.key
  PROVE  Unique(Append(cache, e))
<1>1. /\ Len(cache) \in Nat /\ \A i \in 1 .. Len(cache) : cache[i] \in Range(cache)
  BY Indexed
<1>2. PICK all : all = Append(cache, e)
  OBVIOUS
<1>3. /\ Len(all) = Len(cache) + 1 /\ all[Len(cache) + 1] = e
      /\ \A i \in 1 .. Len(cache) : all[i] = cache[i]
  BY <1>2, AppendProperties DEF IsList
<1>4. Unique(all)
  BY <1>1, <1>3 DEF Unique
<1> QED
  BY <1>2, <1>4

\* A cache that loses its oldest entries
LEMMA CutKey ==
  ASSUME NEW cache, IsList(cache), Unique(cache), NEW n \in 1 .. Len(cache)
  PROVE  /\ IsList(SubSeq(cache, n + 1, Len(cache)))
         /\ Unique(SubSeq(cache, n + 1, Len(cache)))
         /\ Range(SubSeq(cache, n + 1, Len(cache))) \subseteq Range(cache)
         /\ Len(SubSeq(cache, n + 1, Len(cache))) = Len(cache) - n
<1>1. /\ Len(cache) \in Nat /\ \A i \in 1 .. Len(cache) : cache[i] \in Range(cache)
  BY Indexed
<1>2. PICK rest : rest = SubSeq(cache, n + 1, Len(cache))
  OBVIOUS
<1>3. IsList(rest) /\ Range(rest) \subseteq Range(cache)
  BY <1>1, <1>2, Cut
<1>4. Len(rest) = Len(cache) - n /\ \A i \in 1 .. Len(cache) - n : rest[i] = cache[n + i]
  <2>1. \A k \in n + 1 .. Len(cache) : cache[k] \in Range(cache)
    BY <1>1
  <2>2. n + 1 \in Int /\ Len(cache) \in Int
    BY <1>1
  <2> QED
    BY <1>1, <1>2, <2>1, <2>2, SubSeqProperties
<1>5. Unique(rest)
  BY <1>1, <1>4 DEF Unique
<1> QED
  BY <1>2, <1>3, <1>4, <1>5

\* enforceCapacity
LEMMA TrimmedKey ==
  ASSUME NEW cache, IsList(cache), Unique(cache), Len(cache) <= MaxCached + 1
  PROVE  Neat(Trim(cache))
<1>1. Len(cache) \in Nat /\ MaxCached \in Nat \ {0}
  BY Indexed, SessionsAssumption
<1>2. CASE Len(cache) > MaxCached
  <2>1. cache # <<>>
    BY <1>1, <1>2, EmptySeq
  <2>2. Tail(cache) = SubSeq(cache, 1 + 1, Len(cache))
    BY <2>1, TailIsSubSeq DEF IsList
  <2>3. PICK rest : rest = SubSeq(cache, 1 + 1, Len(cache))
    OBVIOUS
  <2>4. 1 \in 1 .. Len(cache)
    BY <1>1, <1>2
  <2>5. IsList(rest) /\ Unique(rest) /\ Len(rest) = Len(cache) - 1
    BY <2>3, <2>4, CutKey
  <2>6. Trim(cache) = rest
    BY <1>2, <2>2, <2>3 DEF Trim
  <2> QED
    BY <1>1, <2>5, <2>6 DEF Neat
<1>3. CASE ~(Len(cache) > MaxCached)
  BY <1>1, <1>3 DEF Trim, Neat
<1> QED
  BY <1>2, <1>3

LEMMA InsertedKey ==
  ASSUME NEW cache, IsList(cache), Unique(cache), Len(cache) <= MaxCached,
         NEW e, Insert(cache, e), NEW bound,
         \A x \in Range(cache) \cup {e} : x.agent \in bound, closed \subseteq bound
  PROVE  Neat(entries') /\ closed' \subseteq bound
<1>1. PICK rest : rest = Drop(cache, e.key)
  OBVIOUS
<1>2. /\ IsList(rest) /\ Unique(rest) /\ Range(rest) \subseteq Range(cache)
      /\ \A x \in Range(rest) : x.key # e.key
      /\ Len(rest) = IF \E x \in Range(cache) : x.key = e.key THEN Len(cache) - 1 ELSE Len(cache)
  BY <1>1, DroppedKey
<1>3. PICK all : all = Append(rest, e)
  OBVIOUS
<1>4. IsList(all) /\ Unique(all) /\ Len(all) = Len(rest) + 1 /\ Range(all) = Range(rest) \cup {e}
  BY <1>2, <1>3, Appended, AppendedKey
<1>5. Len(cache) \in Nat /\ Len(rest) \in Nat /\ MaxCached \in Nat
  BY <1>2, Indexed, SessionsAssumption
<1>6. Neat(Trim(all))
  BY <1>2, <1>4, <1>5, TrimmedKey
<1>7. entries' = Trim(all) /\ closed' = closed \cup {x.agent : x \in Range(all) \ Range(Trim(all))}
  BY <1>1, <1>3 DEF Insert
<1> QED
  BY <1>2, <1>4, <1>6, <1>7

\* An entry that is used is the youngest again.
LEMMA RefreshedKey ==
  ASSUME NEW cache, Neat(cache), NEW e \in Range(cache)
  PROVE  /\ Neat(Append(Drop(cache, e.key), e))
         /\ Range(Append(Drop(cache, e.key), e)) \subseteq Range(cache)
<1>1. PICK rest : rest = Drop(cache, e.key)
  OBVIOUS
<1>2. /\ IsList(rest) /\ Unique(rest) /\ Range(rest) \subseteq Range(cache)
      /\ \A x \in Range(rest) : x.key # e.key
      /\ Len(rest) = Len(cache) - 1
  BY <1>1, DroppedKey DEF Neat
<1>3. PICK all : all = Append(rest, e)
  OBVIOUS
<1>4. IsList(all) /\ Unique(all) /\ Len(all) = Len(rest) + 1 /\ Range(all) = Range(rest) \cup {e}
  BY <1>2, <1>3, Appended, AppendedKey
<1>5. Len(cache) \in Nat /\ MaxCached \in Nat
  BY Indexed, SessionsAssumption DEF Neat
<1>6. Neat(all)
  BY <1>2, <1>4, <1>5 DEF Neat
<1> QED
  BY <1>1, <1>2, <1>3, <1>4, <1>6

-----------------------------------------------------------------------------
(* The steps of the caches. *)

LEMMA InitTyped == Init => Typed
<1> SUFFICES ASSUME Init PROVE Typed
  OBVIOUS
<1>1. Len(entries) = 0 /\ Len(responses) = 0
  BY EmptySeq DEF Init
<1>2. Neat(entries) /\ Neat(responses)
  BY <1>1, EmptyList, SessionsAssumption DEF Init, Neat, Unique
<1>3. Numbered /\ Limits
  BY EmptyList, SessionsAssumption DEF Init, Numbered, Limits
<1> QED
  BY <1>2, <1>3 DEF Typed

\* A new request, under an id of its own, which leaves both caches neat.
LEMMA RequestTyped ==
  ASSUME IInv, Typed, NEW c \in Clients, requests[c] < MaxRequests,
         requests' = [requests EXCEPT ![c] = @ + 1],
         UNCHANGED <<mode, image, evictions, agents, closed, mixed>>,
         Neat(entries'), Neat(responses'), Range(responses') \subseteq Range(responses),
         Others(c), req'[c].id = <<c, requests[c]>>
  PROVE  Typed'
<1>1. /\ requests \in [Clients -> Nat] /\ requests' = [requests EXCEPT ![c] = requests[c] + 1]
  BY DEF Typed, Limits
<1>2. Numbered'
  <2>1. ASSUME NEW r \in Range(responses')
        PROVE  /\ \E d \in Clients, n \in Nat : r.key = <<d, n>> /\ n < requests'[d]
               /\ r.key # <<c, requests[c]>>
    <3>1. PICK d \in Clients, n \in Nat : r.key = <<d, n>> /\ n < requests[d]
      BY <2>1 DEF Typed, Numbered
    <3>2. n < requests'[d]
      BY <1>1, <3>1
    <3>3. r.key # <<c, requests[c]>>
      BY <1>1, <3>1
    <3> QED
      BY <3>1, <3>2, <3>3
  <2>2. ASSUME NEW d \in Clients, pc'[d] \notin {"idle", "held"}
        PROVE  /\ requests'[d] > 0 /\ req'[d].id = <<d, requests'[d] - 1>>
               /\ \A r \in Range(responses') : r.key # req'[d].id
    <3>1. CASE d = c
      <4>1. requests'[c] > 0 /\ requests'[c] - 1 = requests[c]
        BY <1>1
      <4> QED
        BY <2>1, <3>1, <4>1
    <3>2. CASE d # c
      BY <1>1, <2>2, <3>2 DEF Typed, Numbered, Others
    <3> QED
      BY <3>1, <3>2
  <2> QED
    BY <2>1, <2>2 DEF Numbered
<1>3. Limits'
  BY <1>1, SessionsAssumption DEF Typed, Limits
<1> QED
  BY <1>2, <1>3 DEF Typed

LEMMA ResolveTyped ==
  ASSUME IInv, Typed, NEW c \in Clients, NEW key, NEW messages, NEW id, NEW session,
         \/ ResolveCached(c, key, messages, id, session)
         \/ ResolveMiss(c, key, messages, id, session)
  PROVE  Neat(entries') /\ Others(c) /\ req'[c].id = id
<1>1. CASE ResolveCached(c, key, messages, id, session)
  <2>1. PICK entry \in Lookup(entries, key) :
          /\ entries' = Append(Drop(entries, key), entry)
          /\ req' = [req EXCEPT ![c] =
               [messages |-> messages, id |-> id, session |-> session,
                handle |-> [key |-> key, agent |-> entry.agent, mutex |-> entry.mutex,
                            news |-> computeNewSuffix(entry.lastMessages, messages)]]]
          /\ pc' = [pc EXCEPT ![c] = "resolved"]
    BY <1>1 DEF ResolveCached
  <2>2. entry \in Range(entries) /\ entry.key = key
    BY Found DEF Lookup
  <2>3. Neat(entries')
    BY <2>1, <2>2, RefreshedKey DEF Typed
  <2> QED
    BY <2>1, <2>3 DEF IInv, Requests, Others
<1>2. CASE ResolveMiss(c, key, messages, id, session)
  BY <1>2 DEF ResolveMiss, IInv, Requests, Others, Typed
<1> QED
  BY <1>1, <1>2

LEMMA AskTyped == ASSUME IInv, Typed, NEW c \in Clients, Ask(c) PROVE Typed'
<1>1. /\ NewRequest(c) /\ UNCHANGED <<mode, image, responses, agents, closed, evictions, mixed>>
  BY DEF Ask
<1>2. \E key, messages :
        \/ ResolveCached(c, key, messages, <<c, requests[c]>>, <<"none", 0>>)
        \/ ResolveMiss(c, key, messages, <<c, requests[c]>>, <<"none", 0>>)
  BY DEF Ask
<1>3. Neat(entries') /\ Others(c) /\ req'[c].id = <<c, requests[c]>>
  BY <1>2, ResolveTyped
<1> QED
  BY <1>1, <1>3, RequestTyped DEF Typed, NewRequest

LEMMA AskResponsesTyped ==
  ASSUME IInv, Typed, NEW c \in Clients, AskResponses(c) PROVE Typed'
<1>1. NewRequest(c) /\ UNCHANGED <<mode, image, agents, closed, evictions, mixed>>
  BY DEF AskResponses
<1>2. \E key, messages, session :
        \/ ResolveCached(c, key, messages, <<c, requests[c]>>, session)
        \/ ResolveMiss(c, key, messages, <<c, requests[c]>>, session)
  BY DEF AskResponses
<1>3. Neat(entries') /\ Others(c) /\ req'[c].id = <<c, requests[c]>>
  BY <1>2, ResolveTyped
<1>4. Neat(responses') /\ Range(responses') \subseteq Range(responses)
  <2>1. CASE UNCHANGED responses
    BY <2>1 DEF Typed
  <2>2. ASSUME NEW previous \in Range(responses),
               responses' = Append(Drop(responses, previous.key), previous)
        PROVE  Neat(responses') /\ Range(responses') \subseteq Range(responses)
    BY <2>2, RefreshedKey DEF Typed
  <2> QED
    BY <2>1, <2>2 DEF AskResponses
<1> QED
  BY <1>1, <1>3, <1>4, RequestTyped DEF NewRequest

LEMMA CreatedTyped ==
  ASSUME IInv, Typed, NEW c \in Clients, Created(c) PROVE Typed'
<1>1. PICK e : e = [key |-> req[c].handle.key, agent |-> Len(agents) + 1,
                    mutex |-> Len(mutexes) + 1, lastMessages |-> <<>>]
  OBVIOUS
<1>2. /\ pc[c] = "creating" /\ pc' = [pc EXCEPT ![c] = "resolved"]
      /\ Insert(entries, e) /\ UNCHANGED <<mode, image, requests, responses, evictions, mixed>>
      /\ req' = [req EXCEPT ![c].handle.agent = Len(agents) + 1,
                            ![c].handle.mutex = Len(mutexes) + 1]
      /\ \E id : agents' = Append(agents, id)
  BY <1>1 DEF Created, clientVars
<1>3. Len(agents) \in Nat /\ Len(agents) = Len(mutexes) /\ Len(agents') = Len(agents) + 1
  BY <1>2, Indexed, Appended DEF IInv, Pairs
<1>4. Neat(entries') /\ closed' \subseteq 1 .. Len(agents')
  <2>1. \A x \in Range(entries) \cup {e} : x.agent \in 1 .. Len(agents')
    BY <1>1, <1>3 DEF IInv, Entries, Paired
  <2>2. closed \subseteq 1 .. Len(agents')
    BY <1>3 DEF Typed, Limits
  <2> QED
    BY <1>2, <2>1, <2>2, InsertedKey DEF Typed, Neat
<1>5. Numbered'
  <2>1. \A d \in Clients : req'[d].id = req[d].id
    BY <1>2 DEF IInv, Requests, NoRequest
  <2>2. \A d \in Clients : pc'[d] \notin {"idle", "held"} => pc[d] \notin {"idle", "held"}
    BY <1>2 DEF IInv, Requests
  <2> QED
    BY <1>2, <2>1, <2>2 DEF Typed, Numbered
<1>6. Limits'
  BY <1>2, <1>3, <1>4 DEF Typed, Limits
<1> QED
  BY <1>2, <1>4, <1>5, <1>6 DEF Typed

\* A step that changes neither cache.
LEMMA QuietTyped ==
  ASSUME IInv, Typed, NEW c \in Clients, NEW l, pc' = [pc EXCEPT ![c] = l],
         UNCHANGED <<clientVars, req, cacheVars, responses, agents, evictions>>,
         l \notin {"idle", "held"} => pc[c] \notin {"idle", "held"}
  PROVE  Typed'
<1>1. Numbered'
  <2>1. \A d \in Clients : pc'[d] \notin {"idle", "held"} => pc[d] \notin {"idle", "held"}
    BY DEF IInv, Requests
  <2> QED
    BY <2>1 DEF Typed, Numbered, clientVars
<1> QED
  BY <1>1 DEF Typed, Limits, clientVars, cacheVars

LEMMA RememberedTyped ==
  ASSUME IInv, Typed, NEW c \in Clients, pc[c] = "running", NEW messages,
         remember(req[c].handle, messages)
  PROVE  /\ Neat(entries')
         /\ closed' \subseteq 1 .. Len(agents) /\ mixed' \subseteq 1 .. Len(agents)
<1> DEFINE h == req[c].handle
           found == Lookup(entries, h.key)
           entry == IF found = {} THEN EntryFromHandle(h) ELSE CHOOSE e \in found : TRUE
           key == IF isStableKey(h.key) THEN h.key ELSE AutoKey(messages)
<1>1. PICK new : new = [key |-> key, agent |-> entry.agent, mutex |-> entry.mutex,
                        lastMessages |-> messages]
  OBVIOUS
<1>2. /\ Insert(Drop(entries, h.key), new)
      /\ mixed' = IF entry.agent = h.agent THEN mixed ELSE mixed \cup {entry.agent}
      /\ new.agent = entry.agent
  BY <1>1 DEF remember
<1>3. Len(agents) = Len(mutexes)
  BY DEF IInv, Pairs
<1>4. entry.agent \in 1 .. Len(agents)
  <2>1. CASE found = {}
    BY <1>3, <2>1 DEF IInv, Handles, Paired, EntryFromHandle
  <2>2. CASE found # {}
    <3>1. entry \in found
      BY <2>2
    <3> HIDE DEF entry
    <3> QED
      BY <1>3, <3>1, Found DEF IInv, Entries, Paired
  <2> QED
    BY <2>1, <2>2
<1> HIDE DEF entry, key
<1>5. PICK rest : rest = Drop(entries, h.key)
  OBVIOUS
<1>6. /\ IsList(rest) /\ Unique(rest) /\ Range(rest) \subseteq Range(entries)
      /\ Len(rest) = IF \E e \in Range(entries) : e.key = h.key THEN Len(entries) - 1 ELSE Len(entries)
  BY <1>5, DroppedKey DEF Typed, Neat
<1>7. Len(rest) <= MaxCached
  BY <1>6, Indexed, SessionsAssumption DEF Typed, Neat
<1>8. \A x \in Range(rest) \cup {new} : x.agent \in 1 .. Len(agents)
  BY <1>2, <1>3, <1>4, <1>6 DEF IInv, Entries, Paired
<1>9. Neat(entries') /\ closed' \subseteq 1 .. Len(agents)
  <2>1. PICK bound : bound = 1 .. Len(agents)
    OBVIOUS
  <2>2. Insert(rest, new)
    BY <1>2, <1>5
  <2>3. closed \subseteq bound
    BY <2>1 DEF Typed, Limits
  <2>4. Neat(entries') /\ closed' \subseteq bound
    BY <1>6, <1>7, <1>8, <2>1, <2>2, <2>3, InsertedKey
  <2> QED
    BY <2>1, <2>4
<1> QED
  BY <1>2, <1>4, <1>9 DEF Typed, Limits

LEMMA AnswerTyped == ASSUME IInv, Typed, NEW c \in Clients, Answer(c) PROVE Typed'
<1>1. /\ pc[c] \in {"running", "continuing"}
      /\ UNCHANGED <<mode, image, requests, agents, evictions>>
  BY DEF Answer, clientVars
<1>2. PICK kind, messages :
        /\ IF pc[c] = "running" THEN remember(req[c].handle, messages)
           ELSE UNCHANGED cacheVars
        /\ Persist(c, messages)
        /\ req' = [req EXCEPT ![c].messages = messages]
        /\ pc' = [pc EXCEPT ![c] = IF kind = "call" THEN "held" ELSE "idle"]
  BY DEF Answer
<1>3. Neat(entries') /\ closed' \subseteq 1 .. Len(agents) /\ mixed' \subseteq 1 .. Len(agents)
  <2>1. CASE pc[c] = "running"
    BY <1>2, <2>1, RememberedTyped
  <2>2. CASE pc[c] # "running"
    BY <1>2, <2>2 DEF cacheVars, Typed, Limits
  <2> QED
    BY <2>1, <2>2
<1>4. PICK new : new = [key |-> req[c].id, session |-> req[c].session, messages |-> messages]
  OBVIOUS
<1>5. /\ requests[c] > 0 /\ new.key = <<c, requests[c] - 1>>
      /\ \A r \in Range(responses) : r.key # new.key
  BY <1>1, <1>4 DEF Typed, Numbered
<1>6. Neat(responses') /\ Range(responses') \subseteq Range(responses) \cup {new}
  <2>1. PICK all : all = Append(responses, new)
    OBVIOUS
  <2>2. /\ IsList(all) /\ Unique(all) /\ Len(all) = Len(responses) + 1
        /\ Range(all) = Range(responses) \cup {new}
    BY <1>5, <2>1, Appended, AppendedKey DEF Typed, Neat
  <2>3. Len(all) <= MaxCached + 1
    BY <2>2, Indexed, SessionsAssumption DEF Typed, Neat
  <2>4. Neat(Trim(all)) /\ Range(Trim(all)) \subseteq Range(all)
    BY <2>2, <2>3, TrimmedKey, Trimmed
  <2>5. responses' = responses \/ responses' = Trim(all)
    BY <1>2, <1>4, <2>1 DEF Persist
  <2> QED
    BY <2>2, <2>4, <2>5 DEF Typed
<1>7. Numbered'
  <2>1. /\ pc'[c] \in {"held", "idle"}
        /\ \A d \in Clients \ {c} : pc'[d] = pc[d] /\ req'[d] = req[d]
    BY <1>2 DEF IInv, Requests
  <2>2. requests \in [Clients -> Nat]
    BY DEF Typed, Limits
  <2>3. ASSUME NEW r \in Range(responses')
        PROVE  \E d \in Clients, n \in Nat : r.key = <<d, n>> /\ n < requests[d]
    <3>1. CASE r \in Range(responses)
      BY <3>1 DEF Typed, Numbered
    <3>2. CASE r = new
      <4>1. requests[c] - 1 \in Nat /\ requests[c] - 1 < requests[c]
        BY <1>5, <2>2
      <4> QED
        BY <1>5, <3>2, <4>1
    <3> QED
      BY <1>6, <3>1, <3>2
  <2>4. ASSUME NEW d \in Clients \ {c}, pc[d] \notin {"idle", "held"}
        PROVE  \A r \in Range(responses') : r.key # req[d].id
    <3>1. /\ req[d].id = <<d, requests[d] - 1>>
          /\ \A r \in Range(responses) : r.key # req[d].id
      BY <2>4 DEF Typed, Numbered
    <3>2. new.key # req[d].id
      BY <1>5, <3>1
    <3> QED
      BY <1>6, <3>1, <3>2
  <2> QED
    BY <1>1, <2>1, <2>3, <2>4 DEF Typed, Numbered
<1>8. Limits'
  BY <1>1, <1>3 DEF Typed, Limits
<1> QED
  BY <1>3, <1>6, <1>7, <1>8 DEF Typed

LEMMA ContinueTyped ==
  ASSUME IInv, Typed, NEW c \in Clients, ContinueHeld(c) PROVE Typed'
<1>1. /\ pc[c] = "held" /\ pc' = [pc EXCEPT ![c] = "continuing"]
      /\ requests' = [requests EXCEPT ![c] = @ + 1] /\ requests[c] < MaxRequests
      /\ UNCHANGED <<mode, image, evictions, agents, entries, closed, mixed>>
  BY DEF ContinueHeld, cacheVars
<1>2. \E result : req' = [req EXCEPT ![c].messages = Append(@, result),
                                     ![c].id = <<c, requests[c]>>]
  BY DEF ContinueHeld
<1>3. Others(c) /\ req'[c].id = <<c, requests[c]>>
  BY <1>1, <1>2 DEF IInv, Requests, Others, NoRequest
<1>4. Neat(responses') /\ Range(responses') \subseteq Range(responses)
  <2>1. CASE UNCHANGED responses
    BY <2>1 DEF Typed
  <2>2. ASSUME NEW previous \in Lookup(responses, req[c].id),
               responses' = Append(Drop(responses, previous.key), previous)
        PROVE  Neat(responses') /\ Range(responses') \subseteq Range(responses)
    BY <2>2, Found, RefreshedKey DEF Typed
  <2> QED
    BY <2>1, <2>2 DEF ContinueHeld
<1> QED
  BY <1>1, <1>3, <1>4, RequestTyped DEF Typed

LEMMA EvictionTyped == ASSUME IInv, Typed, Evict \/ Expire PROVE Typed'
<1>1. /\ UNCHANGED <<mode, image, requests, pc, req, agents, mixed>>
      /\ evictions < MaxEvictions /\ evictions' = evictions + 1
  BY DEF Evict, Expire, clientVars
<1>2. Neat(entries') /\ closed' \subseteq 1 .. Len(agents)
  <2>1. Len(agents) = Len(mutexes)
    BY DEF IInv, Pairs
  <2>2. ASSUME NEW cache, Install(cache) PROVE closed' \subseteq 1 .. Len(agents)
    BY <2>1, <2>2 DEF Install, IInv, Entries, Paired, Typed, Limits
  <2>3. ASSUME NEW e \in Range(entries), Install(Drop(entries, e.key))
        PROVE  Neat(entries')
    <3>1. PICK rest : rest = Drop(entries, e.key)
      OBVIOUS
    <3>2. IsList(rest) /\ Unique(rest) /\ Len(rest) = Len(entries) - 1
      BY <3>1, DroppedKey DEF Typed, Neat
    <3>3. Len(rest) <= MaxCached
      BY <3>2, Indexed, SessionsAssumption DEF Typed, Neat
    <3> QED
      BY <2>3, <3>1, <3>2, <3>3 DEF Install, Neat
  <2>4. ASSUME NEW n \in DOMAIN entries, Install(SubSeq(entries, n + 1, Len(entries)))
        PROVE  Neat(entries')
    <3>1. PICK rest : rest = SubSeq(entries, n + 1, Len(entries))
      OBVIOUS
    <3>2. n \in 1 .. Len(entries) /\ Len(entries) \in Nat
      BY Indexed DEF Typed, Neat
    <3>3. IsList(rest) /\ Unique(rest) /\ Len(rest) = Len(entries) - n
      BY <3>1, <3>2, CutKey DEF Typed, Neat
    <3>4. Len(rest) <= MaxCached
      BY <3>2, <3>3, SessionsAssumption DEF Typed, Neat
    <3> QED
      BY <2>4, <3>1, <3>3, <3>4 DEF Install, Neat
  <2>5. CASE UNCHANGED <<entries, closed>>
    BY <2>5 DEF Typed, Limits
  <2> QED
    BY <2>2, <2>3, <2>4, <2>5 DEF Evict, Expire
<1>3. Neat(responses') /\ Range(responses') \subseteq Range(responses)
  <2>1. ASSUME NEW n \in DOMAIN responses, responses' = SubSeq(responses, n + 1, Len(responses))
        PROVE  Neat(responses') /\ Range(responses') \subseteq Range(responses)
    <3>1. n \in 1 .. Len(responses) /\ Len(responses) \in Nat
      BY Indexed DEF Typed, Neat
    <3>2. /\ IsList(responses') /\ Unique(responses') /\ Len(responses') = Len(responses) - n
          /\ Range(responses') \subseteq Range(responses)
      BY <2>1, <3>1, CutKey DEF Typed, Neat
    <3>3. Len(responses') <= MaxCached
      BY <3>1, <3>2, SessionsAssumption DEF Typed, Neat
    <3> QED
      BY <3>2, <3>3 DEF Neat
  <2>2. CASE UNCHANGED responses
    BY <2>2 DEF Typed
  <2> QED
    BY <2>1, <2>2 DEF Evict, Expire
<1>4. Numbered'
  BY <1>1, <1>3 DEF Typed, Numbered
<1>5. Limits'
  BY <1>1, <1>2, SessionsAssumption DEF Typed, Limits
<1> QED
  BY <1>2, <1>3, <1>4, <1>5 DEF Typed

LEMMA StepTyped == IInv /\ Knowledge /\ Typed /\ [Next]_vars => Typed'
<1> SUFFICES ASSUME IInv, Knowledge, Typed, [Next]_vars PROVE Typed'
  OBVIOUS
<1>1. ASSUME NEW c \in Clients, CreateFails(c) PROVE Typed'
  <2>1. /\ pc' = [pc EXCEPT ![c] = "idle"]
        /\ UNCHANGED <<clientVars, req, cacheVars, responses, agents, evictions>>
    BY <1>1 DEF CreateFails
  <2> QED
    BY <2>1, QuietTyped
<1>2. ASSUME NEW c \in Clients, Enqueue(c) PROVE Typed'
  <2>1. /\ pc[c] = "resolved" /\ pc' = [pc EXCEPT ![c] = "waiting"]
        /\ UNCHANGED <<clientVars, req, cacheVars, responses, agents, evictions>>
    BY <1>2 DEF Enqueue
  <2> QED
    BY <2>1, QuietTyped
<1>3. ASSUME NEW c \in Clients, Send(c) PROVE Typed'
  <2>1. /\ pc[c] = "waiting" /\ pc' = [pc EXCEPT ![c] = "running"]
        /\ UNCHANGED <<clientVars, req, cacheVars, responses, agents, evictions>>
    BY <1>3 DEF Send
  <2> QED
    BY <2>1, QuietTyped
<1>4. ASSUME NEW c \in Clients, Fail(c) PROVE Typed'
  <2>1. /\ pc' = [pc EXCEPT ![c] = "idle"]
        /\ UNCHANGED <<clientVars, req, cacheVars, responses, agents, evictions>>
    BY <1>4 DEF Fail
  <2> QED
    BY <2>1, QuietTyped
<1>5. CASE UNCHANGED vars
  BY <1>5 DEF vars, Typed, Numbered, Limits
<1> QED
  BY <1>1, <1>2, <1>3, <1>4, <1>5, AskTyped, AskResponsesTyped, CreatedTyped,
     AnswerTyped, ContinueTyped, EvictionTyped DEF Next, ClientStep

\* Both caches keep within maxCachedAgents and hold no key twice, although
\* entries are renamed, put back and refreshed while other requests insert
\* theirs; and what they refer to exists.
THEOREM SessionsTypeOK == Spec => []TypeOK
<1>1. ASSUME IInv, Knowledge, Typed PROVE TypeOK
  <2>1. /\ DOMAIN agents = 1 .. Len(agents) /\ DOMAIN mutexes = 1 .. Len(mutexes)
        /\ Len(agents) = Len(mutexes)
    BY <1>1, Indexed DEF IInv, Pairs
  <2>2. ASSUME NEW cache \in {entries, responses}
        PROVE  /\ Len(cache) <= MaxCached
               /\ \A i, j \in DOMAIN cache : cache[i].key = cache[j].key => i = j
    <3>1. Neat(cache)
      BY <1>1 DEF Typed
    <3>2. DOMAIN cache = 1 .. Len(cache)
      BY <3>1, Indexed DEF Neat
    <3> QED
      BY <3>1, <3>2 DEF Neat, Unique
  <2>3. \A e \in Range(entries) : e.agent \in DOMAIN agents /\ e.mutex \in DOMAIN mutexes
    BY <1>1, <2>1 DEF IInv, Entries, Paired
  <2>4. \A a \in DOMAIN agents : agents[a] \in 1 .. a
    BY <1>1, <2>1 DEF Knowledge, Histories
  <2>5. pc \in [Clients -> {"idle", "creating", "resolved", "waiting", "running",
                           "held", "continuing"}]
    BY <1>1 DEF IInv, Requests, Location
  <2> QED
    BY <1>1, <2>1, <2>2, <2>3, <2>4, <2>5 DEF TypeOK, Typed, Limits
<1>2. IInv /\ Knowledge /\ Typed => TypeOK
  BY <1>1
<1>3. IInv /\ Knowledge /\ Typed /\ [Next]_vars => (IInv /\ Knowledge /\ Typed)'
  BY StepInv, StepKnows, StepTyped
<1>4. Init => IInv /\ Knowledge /\ Typed
  BY InitInv, InitKnows, InitTyped
<1> QED
  BY <1>2, <1>3, <1>4, PTL DEF Spec
=============================================================================
