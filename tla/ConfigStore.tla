---------------------------- MODULE ConfigStore ----------------------------
(***************************************************************************)
(* The gateway's configuration and its process: ConfigStore                *)
(* (src/src/configStore.ts) with settings.json, the admin API's handlers   *)
(* (src/src/routes/admin.ts), and index.ts, which boots, rebinds, restarts *)
(* and stops the process.                                                  *)
(*                                                                         *)
(* A request occupies a slot from the moment it is sent until its answer   *)
(* is read; what runs without an await in between is one step.  `port`     *)
(* stands for port and host.                                               *)
(***************************************************************************)
EXTENDS Naturals

CONSTANTS
  Slots,       \* requests in flight at a time
  PageSlots,   \* those of the browser page, the others are the CLI's
  Keys,        \* admin keys
  Models,      \* values of `model`, which stands for every other setting
  ApiKey,      \* a Cursor API key
  MaxPort,     \* bound: ports are 1 .. MaxPort
  Envs,        \* configurations that loadConfig() may give
  NoKey        \* undefined, for either kind of key

\* The settings of an AppConfig, and their values other than undefined.
AppConfig == {"port", "model", "authKey", "cursorApiKey"}
Values == 1 .. MaxPort \cup Models \cup Keys \cup {ApiKey}

\* loadConfig() gives a port, whatever else is undefined.
ASSUME ConfigStoreAssumption ==
  /\ MaxPort \in Nat \ {0} /\ PageSlots \subseteq Slots /\ NoKey \notin Values
  /\ \A e \in Envs : e \in [AppConfig -> Values \cup {NoKey}] /\ e.port \in 1 .. MaxPort

VARIABLES
  env,         \* what loadConfig() makes of the environment
  config,      \* ConfigStore.config
  disk,        \* settings.json, <<>> when it is missing or not readable
  proc,        \* "up", "restarting", "stopping" or "down"
  bound,       \* the port `server` listens on, or did before it went down
  request,     \* the slots
  \* History, for the properties only:
  unsaved,     \* why settings.json may lag behind: "no", "write", "refused", "moved"
  overlapped,  \* two changes of the port have overlapped since the boot
  news         \* what changed without the page being told: "key", "address"

storeVars == <<env, config, disk, proc, bound, request, unsaved, overlapped, news>>
history == <<unsaved, overlapped, news>>

NoAnswer == [status |-> "none", config |-> <<>>, key |-> NoKey, restart |-> FALSE]
Free == [pc |-> "free", kind |-> "none", key |-> NoKey, patch |-> <<>>, previous |-> 0,
         before |-> 0, awaited |-> FALSE, answer |-> NoAnswer]

StoreInit ==
  /\ env \in Envs /\ config = env /\ disk = <<>>
  /\ proc = "up" /\ bound = env.port
  /\ request = [s \in Slots |-> Free]
  /\ unsaved = "no" /\ overlapped = FALSE /\ news = {}

\* Object.assign(config, patch)
applyUpdate(c, patch) ==
  [f \in DOMAIN c \cup DOMAIN patch |-> IF f \in DOMAIN patch THEN patch[f] ELSE c[f]]

setupComplete == config.cursorApiKey # NoKey

\* applyPersistedOverlay, at the boot.  JSON has no undefined: a field
\* without a value is not in the file, and comes from the environment.
Json(c) == [f \in {g \in DOMAIN c : c[g] # NoKey} |-> c[f]]
Overlay == applyUpdate(env, disk)

\* redactedSnapshot, and what /status tells.
redactedSnapshot(c) ==
  [port |-> c.port, model |-> c.model, hasAuthKey |-> c.authKey # NoKey,
   complete |-> c.cursorApiKey # NoKey]

(***************************************************************************)
(* Requests                                                                *)
(***************************************************************************)
Send(s, kind, key, patch) ==
  request' = [request EXCEPT ![s] =
    [Free EXCEPT !.pc = "sent", !.kind = kind, !.key = key, !.patch = patch, !.awaited = TRUE]]

\* The answer; nobody reads it when the page has been left.
WithAnswer(s, answer) ==
  IF request[s].awaited THEN [request[s] EXCEPT !.pc = "answered", !.answer = answer] ELSE Free
Respond(s, status, c, key) ==
  request' = [request EXCEPT ![s] = WithAnswer(s,
    [status |-> status, config |-> redactedSnapshot(c), key |-> key,
     restart |-> request[s].pc = "binding"])]

\* assertAdminAuthorized
Authorized(s) == config.authKey \in {NoKey, request[s].key}

updates == {"save", "default", "import", "set"}
keyChanges == {"regenerate", "clear", "setup"}
\* requireAdminAuth guards all but these.
open == {"status", "login", "setup"}

Arrived(s, kinds) ==
  /\ proc # "down" /\ request[s].pc = "sent" /\ request[s].kind \in kinds
  /\ request[s].kind \in open \/ Authorized(s)

\* No other request of the page that changes its key or the gateway's is
\* under way.
AloneWithKey(s) ==
  \A t \in PageSlots \ {s} : request[t].kind \notin keyChanges \cup {"login"}

NewsOfKey(s, c) ==
  IF c.authKey = config.authKey THEN news
  ELSE IF s \in PageSlots /\ request[s].awaited /\ request[s].kind \in keyChanges /\ AloneWithKey(s)
  THEN news \ {"key"} ELSE news \cup {"key"}

\* persist(): the write may fail, which is only logged.  `written` is what
\* has been written by the way.
Persist(c, written) ==
  /\ disk' \in {Json(w) : w \in {c} \cup written} \cup {disk}
  /\ unsaved' = IF disk' = Json(c) THEN "no" ELSE "write"

Refuse(s) ==
  /\ proc # "down" /\ request[s].pc = "sent"
  /\ request[s].kind \notin open /\ ~Authorized(s)
  /\ Respond(s, "unauthorized", config, NoKey)
  /\ UNCHANGED <<env, config, disk, proc, bound, history>>

\* The handlers that only read, and POST /login.
Read(s) ==
  /\ Arrived(s, {"status", "config"})
  /\ request[s].kind = "status" => proc = "up"
  /\ Respond(s, "ok", config, NoKey)
  /\ UNCHANGED <<env, config, disk, proc, bound, history>>

Login(s) ==
  /\ Arrived(s, {"login"})
  /\ Respond(s, IF Authorized(s) THEN "ok" ELSE "unauthorized", config, NoKey)
  /\ UNCHANGED <<env, config, disk, proc, bound, history>>

(***************************************************************************)
(* ConfigStore.update                                                      *)
(***************************************************************************)
needsRebind(patch) == "port" \in DOMAIN patch /\ patch.port # config.port
binding == {s \in Slots : request[s].pc = "binding"}

\* validate(): nothing of an invalid patch is applied.
Invalid(s) ==
  /\ Arrived(s, updates)
  /\ Respond(s, "refused", config, NoKey)
  /\ UNCHANGED <<env, config, disk, proc, bound, history>>

\* Mutant: writes the file before the patch is applied.
UpdateWritesFirst(s) ==
  /\ Arrived(s, updates)
  /\ LET patch == request[s].patch
         c == applyUpdate(config, patch)
     IN /\ config' = c
        /\ news' = NewsOfKey(s, c)
        /\ IF needsRebind(patch)
           THEN /\ request' = [request EXCEPT ![s].pc = "binding", ![s].previous = config.port]
                /\ overlapped' = (overlapped \/ binding # {})
                /\ UNCHANGED <<disk, unsaved>>
           ELSE /\ disk' = Json(config) /\ unsaved' = "no"
                /\ Respond(s, "ok", c, NoKey)
                /\ UNCHANGED overlapped
  /\ UNCHANGED <<env, proc, bound>>
\* The patch is applied; a new port is bound first, any other patch is
\* persisted at once.
Update(s) ==
  /\ Arrived(s, updates)
  /\ LET patch == request[s].patch
         c == applyUpdate(config, patch)
     IN /\ config' = c
        /\ news' = NewsOfKey(s, c)
        /\ IF needsRebind(patch)
           THEN /\ request' = [request EXCEPT ![s].pc = "binding", ![s].previous = config.port]
                /\ overlapped' = (overlapped \/ binding # {})
                /\ UNCHANGED <<disk, unsaved>>
           ELSE /\ Persist(c, {}) /\ Respond(s, "ok", c, NoKey)
                /\ UNCHANGED overlapped
  /\ UNCHANGED <<env, proc, bound>>

\* listenOnce() resolves: the new server takes over and the old one drains;
\* the configuration is persisted as it is by now.  A page that was shown the
\* port while an earlier update tried it in vain sees no change now.
BindOk(s) ==
  /\ s \in binding /\ proc # "down" /\ request[s].patch.port # bound
  /\ bound' = request[s].patch.port
  /\ Persist(config, {})
  /\ Respond(s, "ok", config, NoKey)
  /\ news' = IF s \in PageSlots /\ request[s].awaited /\ request[s].kind = "save"
                /\ request[s].before # bound' /\ ~overlapped
             THEN news ELSE news \cup {"address"}
  /\ UNCHANGED <<env, config, proc, overlapped>>

\* Mutant: keeps the port it could not bind.
BindFailsKeepsPort(s) ==
  /\ s \in binding /\ proc # "down"
  /\ Respond(s, "refused", config, NoKey)
  /\ unsaved' = "refused"
  /\ UNCHANGED <<env, config, disk, proc, bound, overlapped, news>>
\* It rejects: port and host are rolled back, and only they.
BindFails(s) ==
  /\ s \in binding /\ proc # "down"
  /\ config' = [config EXCEPT !.port = request[s].previous]
  /\ Respond(s, "refused", config', NoKey)
  /\ unsaved' = "refused"
  /\ UNCHANGED <<env, disk, proc, bound, overlapped, news>>

(***************************************************************************)
(* Keys                                                                    *)
(***************************************************************************)
\* generateAuthKey, clearAuthKey
Regenerate(s) ==
  /\ Arrived(s, {"regenerate"})
  /\ \E key \in Keys \ {config.authKey} :
       LET c == [config EXCEPT !.authKey = key]
       IN config' = c /\ news' = NewsOfKey(s, c) /\ Persist(c, {}) /\ Respond(s, "ok", c, key)
  /\ UNCHANGED <<env, proc, bound, overlapped>>

Clear(s) ==
  /\ Arrived(s, {"clear"})
  /\ LET c == [config EXCEPT !.authKey = NoKey]
     IN config' = c /\ news' = NewsOfKey(s, c) /\ Persist(c, {}) /\ Respond(s, "ok", c, NoKey)
  /\ UNCHANGED <<env, proc, bound, overlapped>>

\* POST /setup, up to Cursor.me().
Setup(s) ==
  /\ Arrived(s, {"setup"})
  /\ IF setupComplete /\ ~Authorized(s)
     THEN Respond(s, "unauthorized", config, NoKey)
     ELSE request' = [request EXCEPT ![s].pc = "asking"]
  /\ UNCHANGED <<env, config, disk, proc, bound, history>>

\* Cursor.me() resolves: the update, and a key when none is set by now.
SetupVerified(s) ==
  /\ proc # "down" /\ request[s].pc = "asking"
  /\ LET mid == applyUpdate(config, request[s].patch) IN
     \E key \in IF config.authKey = NoKey THEN Keys \cup {NoKey} ELSE {config.authKey} :
       LET c == [mid EXCEPT !.authKey = key]
       IN /\ config' = c /\ news' = NewsOfKey(s, c)
          /\ Persist(c, {mid})
          /\ Respond(s, "ok", c, IF config.authKey = NoKey THEN key ELSE NoKey)
  /\ UNCHANGED <<env, proc, bound, overlapped>>

SetupRejected(s) ==
  /\ proc # "down" /\ request[s].pc = "asking"
  /\ Respond(s, "refused", config, NoKey)
  /\ UNCHANGED <<env, config, disk, proc, bound, history>>

(***************************************************************************)
(* The process                                                             *)
(***************************************************************************)
\* POST /restart: ignored, but answered alike, once the end has begun.
Restart(s) ==
  /\ Arrived(s, {"restart"})
  /\ proc' = IF proc = "up" THEN "restarting" ELSE proc
  /\ Respond(s, "ok", config, NoKey)
  /\ UNCHANGED <<env, config, disk, bound, history>>

\* SIGINT, SIGTERM; ignored while a restart is under way.
Terminate ==
  /\ proc = "up" /\ proc' = "stopping"
  /\ UNCHANGED <<env, config, disk, bound, request, history>>

\* Requests that the process had not answered fail at the client.
NetworkError == [NoAnswer EXCEPT !.status = "network"]
Lost ==
  request' = [s \in Slots |->
    IF request[s].pc \in {"free", "answered"} THEN request[s] ELSE WithAnswer(s, NetworkError)]

\* The process exits: the end of a restart or a shutdown, which is forced
\* after 10 s, or a crash, which may cut a write of settings.json short.
Exit ==
  /\ proc # "down" /\ proc' = "down" /\ Lost
  /\ \/ disk' = disk
     \/ proc = "up" /\ disk' = <<>>
        /\ \E s \in Slots : request[s].pc \in {"sent", "asking", "binding"}
                            /\ request[s].kind \in updates \cup keyChanges
  /\ UNCHANGED <<env, config, bound, history>>

\* A request to a process that is not there, or to a port it has left.
Unreachable(s) ==
  /\ request[s].pc = "sent"
  /\ request' = [request EXCEPT ![s] = WithAnswer(s, NetworkError)]
  /\ UNCHANGED <<env, config, disk, proc, bound, history>>

\* main(): environment, settings.json on top, and the first free port from
\* the configured one on, which becomes the configured one.
Boot ==
  /\ proc = "down" /\ proc' = "up"
  /\ \E port \in Overlay.port .. MaxPort :
       /\ bound' = port
       /\ config' = [Overlay EXCEPT !.port = port]
       /\ unsaved' = IF port = Overlay.port THEN "no" ELSE "moved"
  /\ overlapped' = FALSE
  /\ news' = news \cup (IF config'.authKey = config.authKey THEN {} ELSE {"key"})
                  \cup (IF bound' = bound THEN {} ELSE {"address"})
  /\ UNCHANGED <<env, disk, request>>

Handle(s) ==
  \/ Refuse(s) \/ Read(s) \/ Login(s) \/ Invalid(s) \/ Update(s) \/ BindOk(s) \/ BindFails(s)
  \/ Regenerate(s) \/ Clear(s) \/ Setup(s) \/ SetupVerified(s) \/ SetupRejected(s) \/ Restart(s)

(***************************************************************************)
(* Properties                                                              *)
(***************************************************************************)
\* While no change of the port is under way, the configured port is the one
\* the gateway listens on, whatever binds and fails, unless two changes of
\* it have overlapped.
ListenerMatchesConfig ==
  proc # "down" /\ binding = {} /\ ~overlapped => config.port = bound

\* While no update is under way, a process that boots now comes up with the
\* live configuration, unless the last write failed, an update was refused
\* after it was applied, or the boot had to take another port; a key that is
\* set in the environment comes back after it was removed.
Recoverable ==
  proc # "down" /\ binding = {} /\ unsaved = "no" =>
    \/ Overlay = config
    \/ config.authKey = NoKey /\ Overlay = [config EXCEPT !.authKey = env.authKey]
=============================================================================
