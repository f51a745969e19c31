------------------------------ MODULE MCGateway ------------------------------
(* Instances of Gateway for TLC. *)
EXTENDS Gateway, TLC

\* Requests and sessions are interchangeable.
Symmetric == Permutations(Request) \cup Permutations(Session)

\* For liveness, where symmetry is unsound and every request multiplies the
\* state graph, one assignment of requests to the sessions stands for all those
\* that use as many sessions, and at most one request brings no tools: it is the
\* one that shares the session of another.
LiveInit ==
  /\ Init
  /\ session = CHOOSE f \in [Request -> Session] : {f[r] : r \in Request} = Session
  /\ LET shares == CHOOSE r \in Request : \E q \in Request \ {r} : session[q] = session[r]
     IN hold \in {Request, Request \ {shares}}

LiveSpec == LiveInit /\ [][Next]_vars /\ Fairness
=============================================================================
