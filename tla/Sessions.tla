------------------------------ MODULE Sessions ------------------------------
(***************************************************************************)
(* SessionManager (src/src/cursor/sessionManager.ts) with the handlers     *)
(* that drive it (orchestrator.ts, routes/chatCompletions.ts,              *)
(* routes/responses.ts) and the ResponseStore: which Cursor agent answers  *)
(* which conversation, and which of a request's messages the agent gets.   *)
(*                                                                         *)
(* Every client has one request at a time.  A message is <<text, n,        *)
(* image>>, the n-th of its conversation, so that equal conversations of   *)
(* two clients are equal values.  All images look alike: their URLs begin  *)
(* with the same 64 characters, as the data URLs of two screenshots of one *)
(* size do, and are told apart only after them; an image that looks        *)
(* different is another text.  The concurrency slots are in Gateway; here  *)
(* there are enough of them.  There is one API key, hence no key in the    *)
(* cache keys, and one model.                                              *)
(***************************************************************************)
EXTENDS Naturals, Sequences, SequencesExt

CONSTANTS
  Clients,
  Modes,         \* how clients name their conversation, see mode
  Images,        \* the images that conversations open with
  MaxRequests,   \* bound: requests per client
  MaxEvictions,  \* bound: manual and TTL evictions together
  MaxCached      \* config.maxCachedAgents

ASSUME SessionsAssumption ==
  /\ MaxRequests \in Nat /\ MaxEvictions \in Nat /\ MaxCached \in Nat \ {0}
  /\ Modes \subseteq {"auto", "explicit", "newOnly", "resume", "responses", "named"}

VARIABLES
  mode,       \* auto: plain OpenAI client; explicit: session_id, all messages;
              \* newOnly: session_id, new messages only; resume:
              \* cursor_agent_id, new messages only; responses: /v1/responses;
              \* named: /v1/responses with session_id
  image,      \* the image that the client talks about
  pc,         \* where the client's request is
  seen,       \* the client's transcript
  req,        \* the request: messages, session handle, response ids
  requests,   \* how many requests the client has sent
  entries,    \* SessionManager.entries, least recently used first
  responses,  \* ResponseStore.entries, least recently used first
  agents,     \* SDKAgent objects: the id of the agent each one reaches
  closed,     \* the objects that were closed
  history,    \* per agent id, what the agent has really been told and said
  mutexes,    \* per Mutex, its callers; the first one owns it
  evictions,
  mixed       \* history: agents whose entry was stamped with a turn of another

vars == <<mode, image, pc, seen, req, requests, entries, responses, agents, closed,
          history, mutexes, evictions, mixed>>
clientVars == <<mode, image, requests>>
cacheVars  == <<entries, closed, mixed>>

NoHandle == [key |-> <<"none", 0>>, agent |-> 0, mutex |-> 0, news |-> <<>>]
NoRequest == [messages |-> <<>>, handle |-> NoHandle, id |-> <<"none", 0>>,
              session |-> <<"none", 0>>]

(***************************************************************************)
(* Helpers of the two caches                                               *)
(***************************************************************************)
\* Map.get: the entry under a key, as a set of at most one.
Lookup(cache, key) == {cache[i] : i \in {j \in DOMAIN cache : cache[j].key = key}}
\* Map.delete
Drop(cache, key) ==
  IF Lookup(cache, key) = {} THEN cache
  ELSE RemoveAt(cache, CHOOSE i \in DOMAIN cache : cache[i].key = key)

\* Mutant: lets one entry too many stay.
TrimLate(cache) ==
  IF Len(cache) > MaxCached + 1 THEN Tail(cache) ELSE cache
\* enforceCapacity: what stays of a cache that holds one entry too many.
Trim(cache) ==
  IF Len(cache) > MaxCached THEN Tail(cache) ELSE cache

\* disposeEntry for everything that leaves the cache, and the new cache.
Install(cache) ==
  /\ entries' = cache
  /\ closed' = closed \cup {e.agent : e \in Range(entries) \ Range(cache)}

Insert(cache, entry) ==
  LET all == Append(Drop(cache, entry.key), entry) IN
    /\ entries' = Trim(all)
    /\ closed' = closed \cup {e.agent : e \in Range(all) \ Range(Trim(all))}

(***************************************************************************)
(* The comparison of transcripts                                           *)
(***************************************************************************)
\* Of an image URL only the first 64 characters are kept.
normalizeContent(message) == <<message[1], message[2]>>
Normalized(messages) == [i \in DOMAIN messages |-> normalizeContent(messages[i])]

\* Mutant: compares the lengths only.
computeNewSuffixByLength(remembered, current) ==
  IF Len(remembered) <= Len(current)
  THEN SubSeq(current, Len(remembered) + 1, Len(current)) ELSE current
\* The tail of `current` that the agent, which knows `remembered`, is taken
\* not to know.
computeNewSuffix(remembered, current) ==
  IF IsPrefix(Normalized(remembered), Normalized(current))
  THEN SubSeq(current, Len(remembered) + 1, Len(current)) ELSE current

(***************************************************************************)
(* Initial state                                                           *)
(***************************************************************************)
Init ==
  /\ mode \in [Clients -> Modes] /\ image \in [Clients -> Images]
  /\ pc = [c \in Clients |-> "idle"]
  /\ seen = [c \in Clients |-> <<>>]
  /\ req = [c \in Clients |-> NoRequest]
  /\ requests = [c \in Clients |-> 0]
  /\ entries = <<>> /\ responses = <<>>
  /\ agents = <<>> /\ closed = {} /\ history = <<>> /\ mutexes = <<>>
  /\ evictions = 0 /\ mixed = {}

(***************************************************************************)
(* SessionManager.resolve                                                  *)
(***************************************************************************)
\* hashMessages() of a transcript.
AutoKey(messages) == <<"auto", Normalized(messages)>>

\* The client uses /v1/responses.
Responds(c) == mode[c] \in {"responses", "named"}

\* The key under which a request of client c looks for its session.
KeyFor(c, messages, session) ==
  CASE mode[c] = "resume" /\ req[c].handle.agent # 0 ->
         <<"resume", agents[req[c].handle.agent]>>
    [] mode[c] \in {"explicit", "newOnly"} -> <<"explicit", <<"shared", 0>>>>
    [] Responds(c) -> <<"explicit", session>>
    [] OTHER -> AutoKey(Front(messages))

\* Cached: toHandle() refreshes the entry and cuts off what it remembers.
ResolveCached(c, key, messages, id, session) ==
  \E entry \in Lookup(entries, key) :
    /\ entries' = Append(Drop(entries, key), entry)
    /\ req' = [req EXCEPT ![c] =
         [messages |-> messages, id |-> id, session |-> session,
          handle |-> [key |-> key, agent |-> entry.agent, mutex |-> entry.mutex,
                      news |-> computeNewSuffix(entry.lastMessages, messages)]]]
    /\ pc' = [pc EXCEPT ![c] = "resolved"]

\* Not cached: the request awaits Agent.create() or Agent.resume().  An
\* auto session that is not found goes on under a key nobody else has.
ResolveMiss(c, key, messages, id, session) ==
  /\ Lookup(entries, key) = {}
  /\ req' = [req EXCEPT ![c] =
       [messages |-> messages, id |-> id, session |-> session,
        handle |-> [key |-> IF key[1] = "auto"
                            THEN <<"fresh", <<c, requests[c]>>>> ELSE key,
                    agent |-> req[c].handle.agent, mutex |-> 0, news |-> messages]]]
  /\ pc' = [pc EXCEPT ![c] = "creating"]
  /\ UNCHANGED entries

\* What the client sends: everything, or only the new message.
Outgoing(c, message) ==
  IF mode[c] = "newOnly" \/ (mode[c] = "resume" /\ req[c].handle.agent # 0)
  THEN <<message>> ELSE Append(seen[c], message)

NewRequest(c) ==
  /\ pc[c] = "idle" /\ requests[c] < MaxRequests
  /\ requests' = [requests EXCEPT ![c] = @ + 1]

\* Everybody opens with the same words, about an image, and goes on with
\* words of their own: conversations that are equal at first, and then differ.
NoImage == <<>>
Message(c, n) == IF n = 1 THEN <<"hello", 1, image[c]>> ELSE <<c, n, NoImage>>

\* A chat completion.
Ask(c) ==
  /\ NewRequest(c) /\ ~Responds(c)
  /\ LET message  == Message(c, Len(seen[c]) + 1)
         messages == Outgoing(c, message)
         key      == KeyFor(c, messages, <<"none", 0>>)
     IN /\ seen' = [seen EXCEPT ![c] = Append(@, message)]
        /\ \/ ResolveCached(c, key, messages, <<c, requests[c]>>, <<"none", 0>>)
           \/ ResolveMiss(c, key, messages, <<c, requests[c]>>, <<"none", 0>>)
  /\ UNCHANGED <<mode, image, responses, agents, closed, history, mutexes, evictions, mixed>>

\* A request to /v1/responses: the first of a chain, whose session is named
\* by its metadata or else by its own id, or one that continues any earlier
\* response, also another client's, in that one's session.
AskResponses(c) ==
  /\ NewRequest(c) /\ Responds(c)
  /\ LET id  == <<c, requests[c]>>
         own == IF mode[c] = "named" THEN <<"shared", 0>> ELSE id
     IN
       \/ LET messages == <<Message(c, 1)>>
              key      == KeyFor(c, messages, own)
          IN /\ seen' = [seen EXCEPT ![c] = messages]
             /\ \/ ResolveCached(c, key, messages, id, own)
                \/ ResolveMiss(c, key, messages, id, own)
             /\ UNCHANGED responses
       \/ \E previous \in Range(responses) :
            LET messages == Append(previous.messages,
                                   Message(c, Len(previous.messages) + 1))
                key      == KeyFor(c, messages, previous.session)
            IN /\ responses' = Append(Drop(responses, previous.key), previous)
               /\ seen' = [seen EXCEPT ![c] = messages]
               /\ \/ ResolveCached(c, key, messages, id, previous.session)
                  \/ ResolveMiss(c, key, messages, id, previous.session)
  /\ UNCHANGED <<mode, image, agents, closed, history, mutexes, evictions, mixed>>

\* Agent.create() or Agent.resume() returns: entries.set() without another
\* look at the map, then enforceCapacity().
Created(c) ==
  /\ pc[c] = "creating"
  /\ LET h   == req[c].handle
         new == Len(agents) + 1
         id  == IF h.key[1] = "resume" THEN agents[h.agent] ELSE new
     IN /\ agents' = Append(agents, id)
        /\ history' = Append(history, <<>>)
        /\ mutexes' = Append(mutexes, <<>>)
        /\ Insert(entries, [key |-> h.key, agent |-> new,
                            mutex |-> Len(mutexes) + 1, lastMessages |-> <<>>])
        /\ req' = [req EXCEPT ![c].handle.agent = new,
                              ![c].handle.mutex = Len(mutexes) + 1]
  /\ pc' = [pc EXCEPT ![c] = "resolved"]
  /\ UNCHANGED <<clientVars, seen, responses, evictions, mixed>>

\* The call is rejected and the request fails.
CreateFails(c) ==
  /\ pc[c] = "creating"
  /\ pc' = [pc EXCEPT ![c] = "idle"]
  /\ UNCHANGED <<clientVars, seen, req, cacheVars, responses, agents, history,
                 mutexes, evictions>>

(***************************************************************************)
(* The turn: executeGatewayTurn                                            *)
(***************************************************************************)
\* mutex.acquire()
Enqueue(c) ==
  /\ pc[c] = "resolved"
  /\ mutexes' = [mutexes EXCEPT ![req[c].handle.mutex] = Append(@, c)]
  /\ pc' = [pc EXCEPT ![c] = "waiting"]
  /\ UNCHANGED <<clientVars, seen, req, cacheVars, responses, agents, history, evictions>>

Queue(c) == mutexes[req[c].handle.mutex]
Owns(c) == Queue(c) # <<>> /\ Head(Queue(c)) = c

\* releaseMutex(), which only the owner has
Unlock(c) == mutexes' = [mutexes EXCEPT ![req[c].handle.mutex] = Tail(@)]

Say(c, messages) ==
  history' = [history EXCEPT ![agents[req[c].handle.agent]] = @ \o messages]

\* agent.send(): the agent learns what resolve() found to be new.
Send(c) ==
  /\ pc[c] = "waiting" /\ Owns(c)
  /\ Say(c, req[c].handle.news)
  /\ pc' = [pc EXCEPT ![c] = "running"]
  /\ UNCHANGED <<clientVars, seen, req, cacheVars, responses, agents, mutexes, evictions>>

\* agent.send() is rejected, as a closed agent may do, or the run fails, or
\* it is cancelled by a disconnect or a timer: nothing is remembered.
Fail(c) ==
  /\ \/ pc[c] = "waiting" /\ Owns(c) /\ req[c].handle.agent \in closed
     \/ pc[c] \in {"running", "continuing", "held"}
  /\ Unlock(c)
  /\ pc' = [pc EXCEPT ![c] = "idle"]
  /\ UNCHANGED <<clientVars, seen, req, cacheVars, responses, agents, history, evictions>>

\* Mutant: with a mutex of its own (the last one made).
EntryFromHandleNewMutex(h) == [key |-> h.key, agent |-> h.agent, mutex |-> Len(mutexes)]
\* entryFromHandle: an entry for a session that left the cache meanwhile.
EntryFromHandle(h) == [key |-> h.key, agent |-> h.agent, mutex |-> h.mutex]

isStableKey(key) == key[1] \in {"explicit", "resume"}

\* remember(): what is under the handle's key now, or the handle's own agent,
\* is taken to know `messages`; an auto session moves to its new key.
remember(h, messages) ==
  LET found == Lookup(entries, h.key)
      entry == IF found = {} THEN EntryFromHandle(h)
               ELSE CHOOSE e \in found : TRUE
      key   == IF isStableKey(h.key) THEN h.key ELSE AutoKey(messages)
  IN /\ Insert(Drop(entries, h.key),
               [key |-> key, agent |-> entry.agent, mutex |-> entry.mutex,
                lastMessages |-> messages])
     /\ mixed' = IF entry.agent = h.agent THEN mixed ELSE mixed \cup {entry.agent}
\* persist() of the Responses route, unless the client said store: false.
Persist(c, messages) ==
  IF Responds(c)
  THEN \E store \in BOOLEAN :
         responses' = IF store
                      THEN Trim(Append(responses,
                             [key |-> req[c].id, session |-> req[c].session,
                              messages |-> messages]))
                      ELSE responses
  ELSE UNCHANGED responses

\* The run ends with an answer, or asks for a tool and is held open: both
\* are remembered, unless the request continued a held run.
Answer(c) ==
  /\ pc[c] \in {"running", "continuing"}
  /\ \E kind \in {"reply", "call"} :
       LET message  == <<kind, Len(seen[c]) + 1, NoImage>>
           messages == Append(req[c].messages, message)
       IN /\ Say(c, <<message>>)
          /\ seen' = [seen EXCEPT ![c] = Append(@, message)]
          /\ IF pc[c] = "running" THEN remember(req[c].handle, messages)
             ELSE UNCHANGED cacheVars
          /\ Persist(c, messages)
          /\ req' = [req EXCEPT ![c].messages = messages]
          /\ IF kind = "call" THEN UNCHANGED mutexes ELSE Unlock(c)
          /\ pc' = [pc EXCEPT ![c] = IF kind = "call" THEN "held" ELSE "idle"]
  /\ UNCHANGED <<clientVars, agents, evictions>>

\* The client sends a tool's result and the held run takes it: no session is
\* resolved.  /v1/responses must still find the response that asked.
ContinueHeld(c) ==
  /\ pc[c] = "held" /\ requests[c] < MaxRequests
  /\ LET result == <<"result", Len(seen[c]) + 1, NoImage>> IN
       /\ \/ ~Responds(c) /\ UNCHANGED responses
          \/ \E previous \in Lookup(responses, req[c].id) :
               responses' = Append(Drop(responses, previous.key), previous)
       /\ Say(c, <<result>>)
       /\ seen' = [seen EXCEPT ![c] = Append(@, result)]
       /\ req' = [req EXCEPT ![c].messages = Append(@, result),
                             ![c].id = <<c, requests[c]>>]
  /\ requests' = [requests EXCEPT ![c] = @ + 1]
  /\ pc' = [pc EXCEPT ![c] = "continuing"]
  /\ UNCHANGED <<mode, image, cacheVars, agents, mutexes, evictions>>

(***************************************************************************)
(* Eviction                                                                *)
(***************************************************************************)
\* evict() from the dashboard.
Evict ==
  /\ evictions < MaxEvictions /\ evictions' = evictions + 1
  /\ \E e \in Range(entries) : Install(Drop(entries, e.key))
  /\ UNCHANGED <<clientVars, pc, seen, req, responses, agents, history, mutexes, mixed>>

\* sweep(), of the sessions and of the responses, and evictAll(): what was
\* not used for long enough goes, in the worst case all of it.
Expire ==
  /\ evictions < MaxEvictions /\ evictions' = evictions + 1
  /\ \/ /\ \E n \in DOMAIN entries : Install(SubSeq(entries, n + 1, Len(entries)))
        /\ UNCHANGED responses
     \/ /\ \E n \in DOMAIN responses :
             responses' = SubSeq(responses, n + 1, Len(responses))
        /\ UNCHANGED <<entries, closed>>
  /\ UNCHANGED <<clientVars, pc, seen, req, agents, history, mutexes, mixed>>

ClientStep(c) ==
  \/ Ask(c) \/ AskResponses(c) \/ Created(c) \/ CreateFails(c) \/ Enqueue(c)
  \/ Send(c) \/ Fail(c) \/ Answer(c) \/ ContinueHeld(c)

Next == (\E c \in Clients : ClientStep(c)) \/ Evict \/ Expire

Spec == Init /\ [][Next]_vars

(***************************************************************************)
(* Properties                                                              *)
(***************************************************************************)
\* Both caches keep within maxCachedAgents and hold no key twice; everything
\* a handle or an entry refers to exists.
TypeOK ==
  /\ mode \in [Clients -> Modes] /\ image \in [Clients -> Images]
  /\ pc \in [Clients -> {"idle", "creating", "resolved", "waiting", "running",
                         "held", "continuing"}]
  /\ requests \in [Clients -> 0 .. MaxRequests]
  /\ \A cache \in {entries, responses} :
       /\ Len(cache) <= MaxCached
       /\ \A i, j \in DOMAIN cache : cache[i].key = cache[j].key => i = j
  /\ \A e \in Range(entries) : e.agent \in DOMAIN agents /\ e.mutex \in DOMAIN mutexes
  /\ \A a \in DOMAIN agents : agents[a] \in 1 .. a
  /\ closed \subseteq DOMAIN agents /\ mixed \subseteq DOMAIN agents
  /\ evictions \in 0 .. MaxEvictions

Busy(c) == pc[c] \in {"running", "held", "continuing"}

\* Two turns never run on one agent object at a time, also when its session
\* was evicted, put back and resolved again meanwhile: whoever reaches an
\* agent reaches its mutex.
SerialTurns ==
  \A c, d \in Clients :
    Busy(c) /\ Busy(d) /\ req[c].handle.agent = req[d].handle.agent => c = d

Withheld(c) ==
  SubSeq(req[c].messages, 1, Len(req[c].messages) - Len(req[c].handle.news))
History(c) == history[agents[req[c].handle.agent]]

\* What a turn leaves out of the request's messages is known to its agent
\* (sessionManager.ts, "figures out exactly which of the request's messages
\* are actually new to this agent"), unless ...
NothingIsWithheld ==
  \A c \in Clients : pc[c] \in {"resolved", "waiting"} =>
    Range(Withheld(c)) \subseteq Range(History(c))

\* ... remember() has stamped the agent's entry with the turn of another
\* agent that had the same key, or the agent knows the message with another
\* image, whose URL begins alike: nothing else loses context, neither
\* evictions nor branches, failed turns or clients that send only what is new.
OnlyMixupsWithhold ==
  \A c \in Clients :
    /\ pc[c] \in {"resolved", "waiting"}
    /\ req[c].handle.agent \notin mixed
    => Range(Normalized(Withheld(c))) \subseteq Range(Normalized(History(c)))
=============================================================================
