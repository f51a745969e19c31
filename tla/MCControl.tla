----------------------------- MODULE MCControl -----------------------------
(***************************************************************************)
(* Control with two ports, two keys and two values for every other setting.*)
(* The environment has neither key, a Cursor key, or both.                 *)
(***************************************************************************)
EXTENDS Control

CONSTANTS k1, k2, a

MCConfig(port, authKey, model, apiKey) ==
  [port |-> port, authKey |-> authKey, model |-> model, cursorApiKey |-> apiKey]

MCEnvs == {MCConfig(1, NoKey, 1, NoKey), MCConfig(1, NoKey, 1, a), MCConfig(1, k1, 1, a)}

\* The export of another gateway that has the second key.
MCFile == MCConfig(2, k2, 2, a)
=============================================================================
