----------------------------- MODULE MCSessions -----------------------------
(***************************************************************************)
(* Sessions on a small instance: clients, and images, are interchangeable. *)
(***************************************************************************)
EXTENDS Sessions, TLC

Symmetry == Permutations(Clients) \cup Permutations(Images)

\* Bound: each client has an image of its own.  The steps and the properties
\* of the run do not tell images apart, so equal ones would add nothing.
SessionsInit == Init /\ \A c, d \in Clients : image[c] = image[d] => c = d
SessionsSpec == SessionsInit /\ [][Next]_vars
=============================================================================
