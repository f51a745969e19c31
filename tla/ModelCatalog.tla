---------------------------- MODULE ModelCatalog ----------------------------
(***************************************************************************)
(* ModelCatalog.list (src/src/cursor/modelCatalog.ts) for one API key: a   *)
(* cache with a TTL, filled by at most one fetch at a time, that callers   *)
(* who come meanwhile join.  Catalogs are numbered in the order in which   *)
(* Cursor publishes them.                                                  *)
(***************************************************************************)
EXTENDS Naturals

CONSTANTS
  Callers,       \* concurrent calls of list()
  MaxVersion     \* bound: catalogs Cursor publishes

ASSUME ModelCatalogAssumption == MaxVersion \in Nat \ {0}

VARIABLES
  upstream,   \* the catalog Cursor would answer with now
  cached,     \* the cached catalog, 0 when there is none
  fresh,      \* it is younger than CACHE_TTL_MS
  fetch,      \* the fetch a caller has started, and what it saw cached then
  joined,     \* whose fetch a caller awaits
  call        \* the caller: "idle", "waiting", "done", and its answer

catalogVars == <<upstream, cached, fresh, fetch, joined, call>>

NoFetch == [since |-> 0, fallback |-> 0]
Idle == [pc |-> "idle", floor |-> 0, answer |-> 0]

CatalogInit ==
  /\ upstream = 1 /\ cached = 0 /\ fresh = FALSE
  /\ fetch = [c \in Callers |-> NoFetch]
  /\ joined = [c \in Callers |-> c]
  /\ call = [c \in Callers |-> Idle]

inflight == {c \in Callers : fetch[c] # NoFetch}

Done(c, version) == [call EXCEPT ![c].pc = "done", ![c].answer = version]

\* A fresh cache answers at once, unless the caller forces a refresh.
ListCached(c) ==
  /\ call[c] = Idle /\ cached # 0 /\ fresh
  /\ call' = [call EXCEPT ![c] = [pc |-> "done", floor |-> cached, answer |-> cached]]
  /\ UNCHANGED <<upstream, cached, fresh, fetch, joined>>

Wait(c) == call' = [call EXCEPT ![c] = [pc |-> "waiting", floor |-> cached, answer |-> 0]]

\* Mutant: everybody fetches for himself.
ListFetchAlone(c) ==
  /\ call[c] = Idle
  /\ fetch' = [fetch EXCEPT ![c] = [since |-> upstream, fallback |-> cached]]
  /\ joined' = [joined EXCEPT ![c] = c]
  /\ Wait(c)
  /\ UNCHANGED <<upstream, cached, fresh>>
\* Otherwise (also when forced) the caller joins the fetch in flight, or
\* starts one.
ListFetch(c) ==
  /\ call[c] = Idle
  /\ IF inflight # {}
     THEN /\ \E d \in inflight : joined' = [joined EXCEPT ![c] = d]
          /\ UNCHANGED fetch
     ELSE /\ fetch' = [fetch EXCEPT ![c] = [since |-> upstream, fallback |-> cached]]
          /\ joined' = [joined EXCEPT ![c] = c]
  /\ Wait(c)
  /\ UNCHANGED <<upstream, cached, fresh>>

Answer(d, version) ==
  call' = [c \in Callers |->
             IF call[c].pc = "waiting" /\ joined[c] = d
             THEN [call[c] EXCEPT !.pc = "done", !.answer = version] ELSE call[c]]

\* Cursor answers with a catalog it had while the fetch was under way.
FetchOk(c) ==
  /\ c \in inflight
  /\ \E version \in fetch[c].since .. upstream :
       /\ cached' = version
       /\ Answer(c, version)
  /\ fresh' = TRUE /\ fetch' = [fetch EXCEPT ![c] = NoFetch]
  /\ UNCHANGED <<upstream, joined>>

\* It fails: the cached catalog will do, also an old one; with none, the
\* call is rejected, which safeList() makes an empty catalog, 0.
FetchFails(c) ==
  /\ c \in inflight
  /\ Answer(c, fetch[c].fallback)
  /\ fetch' = [fetch EXCEPT ![c] = NoFetch]
  /\ UNCHANGED <<upstream, cached, fresh, joined>>

Expires == fresh /\ fresh' = FALSE /\ UNCHANGED <<upstream, cached, fetch, joined, call>>

Publish ==
  /\ upstream < MaxVersion /\ upstream' = upstream + 1
  /\ UNCHANGED <<cached, fresh, fetch, joined, call>>

CallAgain(c) ==
  /\ call[c].pc = "done" /\ call' = [call EXCEPT ![c] = Idle]
  /\ UNCHANGED <<upstream, cached, fresh, fetch, joined>>

CatalogStep(c) ==
  ListCached(c) \/ ListFetch(c) \/ FetchOk(c) \/ FetchFails(c)

(***************************************************************************)
(* Properties                                                              *)
(***************************************************************************)
\* However fetches, failures and the TTL interleave, the cache never goes
\* back to an older catalog, and nobody is given an older one than was cached
\* when he called.
CatalogNeverGoesBack ==
  [][/\ cached' >= cached
     /\ \A c \in Callers : call'[c].pc = "done" => call'[c].answer >= call'[c].floor]_catalogVars
=============================================================================
