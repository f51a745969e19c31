------------------------------ MODULE Control ------------------------------
(***************************************************************************)
(* The gateway's configuration and process with everybody who changes      *)
(* them: a dashboard page, the cursor-gateway CLI (src/bin), and whatever  *)
(* stops and starts the process.                                           *)
(***************************************************************************)
EXTENDS Dashboard

CONSTANT MaxEvents   \* bound: what users and the outside do

VARIABLE events

controlVars == <<storeVars, pageVars, events>>

ControlInit == StoreInit /\ DashboardInit /\ events = 0

\* resolveAdminKey: what --key or else GATEWAY_ADMIN_KEY says, or if neither
\* is given the key in settings.json.
adminKeys == Keys \cup {IF "authKey" \in DOMAIN disk THEN disk.authKey ELSE NoKey}

\* A command, which waits for its answer.
Cli ==
  /\ \E s \in Slots \ PageSlots, key \in adminKeys :
       /\ request[s].pc = "free"
       /\ \/ \E patch \in sections \cup {[f \in {"authKey"} |-> NoKey]} :
               Send(s, "set", key, patch)
          \/ Send(s, "import", key, File)
          \/ Send(s, "restart", key, NoPatch)
  /\ UNCHANGED <<serverVars, pageVars>>
CliDone(s) ==
  /\ s \notin PageSlots /\ request[s].pc = "answered" /\ Take(s)
  /\ UNCHANGED <<serverVars, pageVars>>

\* A page that is no longer served at its port can only use the connections
\* it has; it cannot be loaded from there.
Reaches(s) == s \in PageSlots /\ request[s].kind = "status" => origin = bound
Fails(s) ==
  /\ proc = "down" \/ (s \in PageSlots /\ request[s].awaited /\ origin # bound)
  /\ Unreachable(s)

ControlNext ==
  \/ /\ events < MaxEvents /\ events' = events + 1
     /\ \/ UserActs \/ Cli
        \/ (Terminate \/ Exit) /\ UNCHANGED pageVars
  \/ /\ UNCHANGED events
     /\ \/ \E s \in Slots : \/ Reaches(s) /\ Handle(s) /\ UNCHANGED pageVars
                            \/ Fails(s) /\ UNCHANGED pageVars
                            \/ CliDone(s)
        \/ \E s \in PageSlots : Answer(s)
        \/ GotoDashboard \/ Navigate
        \/ Boot /\ UNCHANGED pageVars

ControlSpec == ControlInit /\ [][ControlNext]_controlVars
=============================================================================
