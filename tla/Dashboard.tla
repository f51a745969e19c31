----------------------------- MODULE Dashboard -----------------------------
(***************************************************************************)
(* One page of the admin dashboard (src/public/app.js): what it shows, the *)
(* admin key it holds and stores, and what it makes of the answers, in     *)
(* whatever order they come.  The tables, charts and the chat only display *)
(* what they are answered; polling changes nothing here.                   *)
(***************************************************************************)
EXTENDS ConfigStore

CONSTANT File   \* the configuration in an exported file

\* JSON has no undefined.
ASSUME DashboardAssumption ==
  /\ DOMAIN File \subseteq AppConfig /\ \A f \in DOMAIN File : File[f] \in Values
  /\ "port" \in DOMAIN File => File.port \in 1 .. MaxPort

VARIABLES
  view,      \* "loading", "setup", its last page "done", "login" or "dashboard"
  adminKey,  \* state.adminKey, NoKey for ""
  stored,    \* localStorage and sessionStorage, by origin
  shown,     \* state.config, <<>> for null
  typed,     \* the key that is being tried at the login
  origin,    \* the port the page was loaded from
  leaving    \* where timers will take it

pageVars == <<view, adminKey, stored, shown, typed, origin, leaving>>
serverVars == <<env, config, disk, proc, bound, unsaved, overlapped, news>>

DashboardInit ==
  /\ view = "loading" /\ adminKey = NoKey
  /\ stored = [p \in 1 .. MaxPort |-> NoKey]
  /\ shown = <<>> /\ typed = NoKey /\ origin = env.port /\ leaving = {}

NoPatch == <<>>

Idle == \A s \in PageSlots : request[s].pc = "free"
FreeSlots == {s \in PageSlots : request[s].pc = "free"}

\* A button is disabled while its own request is under way, as is each
\* section's.
Ready(kinds) ==
  view = "dashboard" /\ \A s \in PageSlots : request[s].kind \notin kinds

\* `api` with the admin key, `apiPublic` without one.
Call(kind, key, patch) == \E s \in FreeSlots : Send(s, kind, key, patch)

(***************************************************************************)
(* Loading                                                                 *)
(***************************************************************************)
\* The page is loaded, anew: nobody reads the answers of the page before.
Load(port) ==
  \E s \in PageSlots :
    /\ origin' = port /\ leaving' = {} /\ view' = "loading"
    /\ adminKey' = stored[port] /\ shown' = <<>> /\ typed' = NoKey
    /\ request' = [t \in Slots |->
         IF t = s THEN [Free EXCEPT !.pc = "sent", !.kind = "status", !.awaited = TRUE]
         ELSE IF t \notin PageSlots \/ request[t].pc = "free" THEN request[t]
         ELSE IF request[t].pc = "answered" THEN Free
         ELSE [request[t] EXCEPT !.awaited = FALSE]]
    /\ s \in FreeSlots \/ request[s].pc = "answered"
    /\ news' = IF \/ port # bound
                  \/ \E t \in PageSlots : request[t].pc \in {"sent", "asking", "binding"}
                                          /\ "port" \in DOMAIN request[t].patch
               THEN news ELSE news \ {"address"}
    /\ UNCHANGED <<env, config, disk, proc, bound, unsaved, overlapped, stored>>

\* The user opens the gateway's address, or reloads the page; so does the
\* page itself once a restarted gateway answers /health.
Open == Load(bound)
Reload == view # "loading" /\ Load(origin)

\* location.href = newUrl, 1200 ms after each change of the port: the first
\* timer leaves the page, unless the next one fires before the page is gone.
Navigate == \E port \in leaving : Load(port)

\* bootDashboard() up to its first await; loadModels() changes nothing here.
BootPage(s, key) ==
  /\ view' = "dashboard"
  /\ request' = [request EXCEPT ![s] = [Free EXCEPT !.pc = "sent", !.kind = "config",
                                          !.key = key, !.awaited = TRUE]]

Answered(s, kind) == request[s].pc = "answered" /\ request[s].kind = kind
Ok(s) == request[s].answer.status = "ok"
Take(s) == request' = [request EXCEPT ![s] = Free]

\* init()
StatusAnswered(s) ==
  /\ Answered(s, "status")
  /\ LET answer == request[s].answer IN
     IF ~Ok(s) THEN Take(s) /\ UNCHANGED view
     ELSE IF ~answer.config.complete THEN Take(s) /\ view' = "setup"
     ELSE IF answer.config.hasAuthKey /\ adminKey = NoKey THEN Take(s) /\ view' = "login"
     ELSE BootPage(s, adminKey)
  /\ UNCHANGED <<serverVars, adminKey, stored, shown, typed, origin, leaving>>

\* bootDashboard() after it: a refused key is dropped.
ConfigAnswered(s) ==
  /\ Answered(s, "config") /\ Take(s)
  /\ LET answer == request[s].answer IN
     /\ shown' = IF Ok(s) THEN answer.config ELSE shown
     /\ IF answer.status = "unauthorized"
        THEN /\ adminKey' = NoKey /\ view' = "login"
             /\ stored' = [stored EXCEPT ![origin] = NoKey]
        ELSE UNCHANGED <<adminKey, view, stored>>
     /\ news' = IF Ok(s) /\ AloneWithKey(s) /\ config.authKey \in {NoKey, adminKey}
                THEN news \ {"key"} ELSE news
  /\ UNCHANGED <<env, config, disk, proc, bound, unsaved, overlapped, typed, origin, leaving>>

(***************************************************************************)
(* Setup, login, logout                                                    *)
(***************************************************************************)
\* The wizard's last step; its first, preview-models, only reads.
FinishSetup ==
  /\ view = "setup" /\ Idle
  /\ \E model \in Models :
       Call("setup", NoKey, [f \in {"cursorApiKey", "model"} |->
                               IF f = "model" THEN model ELSE ApiKey])
  /\ UNCHANGED <<serverVars, pageVars>>

SetupAnswered(s) ==
  /\ Answered(s, "setup")
  /\ LET key == request[s].answer.key IN
     IF key # NoKey THEN adminKey' = key /\ stored' = [stored EXCEPT ![origin] = key]
     ELSE UNCHANGED <<adminKey, stored>>
  /\ Take(s) /\ view' = IF Ok(s) THEN "done" ELSE view
  /\ UNCHANGED <<serverVars, shown, typed, origin, leaving>>

\* The button on the wizard's last page.
GotoDashboard ==
  /\ view = "done" /\ \E s \in FreeSlots : BootPage(s, adminKey)
  /\ UNCHANGED <<serverVars, adminKey, stored, shown, typed, origin, leaving>>

SubmitLogin ==
  /\ view = "login" /\ typed = NoKey /\ FreeSlots # {}
  /\ \E key \in Keys : typed' = key /\ Call("login", key, NoPatch)
  /\ UNCHANGED <<serverVars, view, adminKey, stored, shown, origin, leaving>>

LoginAnswered(s) ==
  /\ Answered(s, "login") /\ typed' = NoKey
  /\ IF Ok(s) THEN /\ adminKey' = typed /\ stored' = [stored EXCEPT ![origin] = typed]
                   /\ BootPage(s, typed)
     ELSE Take(s) /\ UNCHANGED <<view, adminKey, stored>>
  /\ UNCHANGED <<serverVars, shown, origin, leaving>>

Logout ==
  /\ view = "dashboard" /\ view' = "login"
  /\ adminKey' = NoKey /\ stored' = [stored EXCEPT ![origin] = NoKey]
  /\ UNCHANGED <<serverVars, request, shown, typed, origin, leaving>>

(***************************************************************************)
(* Settings                                                                *)
(***************************************************************************)
\* The sections of the settings form.
sections ==
  {[f \in {"model"} |-> m] : m \in Models}
  \cup {[f \in {"port"} |-> p] : p \in 1 .. MaxPort}
  \cup {[f \in {"authKey"} |-> k] : k \in Keys}

Save ==
  /\ Ready({}) /\ shown # <<>>
  /\ \E patch \in sections, s \in FreeSlots :
    /\ \A t \in PageSlots : request[t].kind = "save" => DOMAIN request[t].patch # DOMAIN patch
    /\ request' = [request EXCEPT ![s] =
         [Free EXCEPT !.pc = "sent", !.kind = "save", !.key = adminKey, !.patch = patch,
                      !.before = shown.port, !.awaited = TRUE]]
  /\ UNCHANGED <<serverVars, pageVars>>

\* Mutant: stays where it is.
SaveAnsweredStays(s) ==
  /\ Answered(s, "save") /\ Take(s)
  /\ IF Ok(s) THEN shown' = request[s].answer.config ELSE UNCHANGED shown
  /\ UNCHANGED <<serverVars, view, adminKey, stored, typed, origin, leaving>>
\* A changed port takes the page along.
SaveAnswered(s) ==
  /\ Answered(s, "save") /\ Take(s)
  /\ LET answer == request[s].answer IN
     IF Ok(s) THEN /\ shown' = answer.config
                   /\ leaving' = IF answer.restart /\ answer.config.port # request[s].before
                                 THEN leaving \cup {answer.config.port} ELSE leaving
     ELSE UNCHANGED <<shown, leaving>>
  /\ UNCHANGED <<serverVars, view, adminKey, stored, typed, origin>>

\* "Set as default" in the Models tab, and an import, which skips masked keys.
SetDefaultModel ==
  /\ Ready({}) /\ shown # <<>>
  /\ \E model \in Models : Call("default", adminKey, [f \in {"model"} |-> model])
  /\ UNCHANGED <<serverVars, pageVars>>
Import ==
  /\ Ready({"import"}) /\ shown # <<>> /\ Call("import", adminKey, File)
  /\ UNCHANGED <<serverVars, pageVars>>
UpdateAnswered(s) ==
  /\ Answered(s, "default") \/ Answered(s, "import")
  /\ Take(s)
  /\ IF Ok(s) THEN shown' = request[s].answer.config ELSE UNCHANGED shown
  /\ UNCHANGED <<serverVars, view, adminKey, stored, typed, origin, leaving>>

RegenerateKey ==
  /\ Ready({}) /\ Call("regenerate", adminKey, NoPatch)
  /\ UNCHANGED <<serverVars, pageVars>>

\* Mutant: shows the new key, and goes on with the old one.
RegenerateAnsweredShowsOnly(s) ==
  /\ Answered(s, "regenerate") /\ Take(s)
  /\ UNCHANGED <<serverVars, pageVars>>
\* A stored key is replaced; one that was not stored is not stored now.
RegenerateAnswered(s) ==
  /\ Answered(s, "regenerate") /\ Take(s)
  /\ IF Ok(s)
     THEN /\ adminKey' = request[s].answer.key
          /\ stored' = IF stored[origin] = NoKey THEN stored
                       ELSE [stored EXCEPT ![origin] = request[s].answer.key]
     ELSE UNCHANGED <<adminKey, stored>>
  /\ UNCHANGED <<serverVars, view, shown, typed, origin, leaving>>

ClearKey ==
  /\ Ready({}) /\ Call("clear", adminKey, NoPatch)
  /\ UNCHANGED <<serverVars, pageVars>>
ClearAnswered(s) ==
  /\ Answered(s, "clear") /\ Take(s)
  /\ IF Ok(s) THEN adminKey' = NoKey /\ stored' = [stored EXCEPT ![origin] = NoKey]
     ELSE UNCHANGED <<adminKey, stored>>
  /\ UNCHANGED <<serverVars, view, shown, typed, origin, leaving>>

\* The page then polls /health, and reloads when it is answered.
RestartGateway ==
  /\ Ready({"restart"}) /\ Call("restart", adminKey, NoPatch)
  /\ UNCHANGED <<serverVars, pageVars>>
RestartAnswered(s) ==
  /\ Answered(s, "restart") /\ Take(s)
  /\ UNCHANGED <<serverVars, pageVars>>

Answer(s) ==
  \/ StatusAnswered(s) \/ ConfigAnswered(s) \/ SetupAnswered(s) \/ LoginAnswered(s)
  \/ SaveAnswered(s) \/ UpdateAnswered(s) \/ RegenerateAnswered(s) \/ ClearAnswered(s)
  \/ RestartAnswered(s)

UserActs ==
  \/ Open \/ Reload \/ FinishSetup \/ SubmitLogin \/ Logout \/ Save \/ SetDefaultModel
  \/ Import \/ RegenerateKey \/ ClearKey \/ RestartGateway

(***************************************************************************)
(* Properties                                                              *)
(***************************************************************************)
Settled == view = "dashboard" /\ shown # <<>> /\ Idle /\ proc # "down"

\* A dashboard that waits for nothing holds the key that the gateway wants,
\* unless the key was changed from elsewhere, with the settings form, or
\* while another request of the page (a login too) was about the key.
PageKeyAgrees ==
  Settled /\ "key" \notin news => config.authKey \in {NoKey, adminKey}

\* It was loaded from the port that the gateway listens on, or is about to
\* go there, unless the port was changed by another way than its own form.
PageFindsGateway ==
  Settled /\ "address" \notin news /\ leaving = {} => origin = bound
=============================================================================
