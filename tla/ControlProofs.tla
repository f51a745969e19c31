--------------------------- MODULE ControlProofs ---------------------------
(***************************************************************************)
(* The configuration that is live, the one on the disk, the port, and what *)
(* the page makes of them, proved for any number of the page's and the     *)
(* CLI's requests, and for any ports, keys, models and environments.       *)
(*                                                                         *)
(* ListenerMatchesConfig speaks only of the moments when no change of the  *)
(* port is under way.  What holds in between is in Rebinding: the one      *)
(* request that waits for listenOnce() has the port that is configured by  *)
(* now, and keeps the port that is bound to fall back on.                  *)
(***************************************************************************)
EXTENDS Control, TLAPS

\* What update() may be asked to apply.
Settable(patch) ==
  /\ DOMAIN patch \subseteq AppConfig
  /\ \A f \in DOMAIN patch : /\ patch[f] \in Values \cup {NoKey}
                             /\ f # "authKey" => patch[f] # NoKey
  /\ "port" \in DOMAIN patch => patch.port \in 1 .. MaxPort

\* A configuration that is reached from the environment's: only the admin
\* key can have been removed.
Configuration(e, c) ==
  /\ c \in [AppConfig -> Values \cup {NoKey}] /\ c.port \in 1 .. MaxPort
  /\ \A f \in AppConfig \ {"authKey"} : c[f] = NoKey => e[f] = NoKey

\* What settings.json may hold.
Readable(d) ==
  /\ DOMAIN d \subseteq AppConfig /\ \A f \in DOMAIN d : d[f] \in Values
  /\ "port" \in DOMAIN d => d.port \in 1 .. MaxPort

Wellformed(r) ==
  /\ DOMAIN r = DOMAIN Free /\ Settable(r.patch)
  /\ r.pc \in {"free", "sent", "asking", "binding", "answered"}
  /\ r.pc = "free" => r = Free
  /\ r.pc = "answered" => r.awaited
  /\ r.pc = "asking" => r.kind = "setup"
  /\ r.kind = "setup" => "port" \notin DOMAIN r.patch
  /\ r.pc = "binding" => /\ r.kind \in updates
                         /\ "port" \in DOMAIN r.patch /\ r.previous \in 1 .. MaxPort

Requests ==
  /\ DOMAIN request = Slots
  /\ \A s \in Slots : Wellformed(request[s])

Rebinding ==
  /\ proc = "down" => binding = {}
  /\ proc # "down" /\ ~overlapped =>
       /\ \A s, t \in binding : s = t
       /\ \A s \in binding : /\ request[s].patch.port = config.port
                             /\ request[s].previous = bound
       /\ binding = {} => config.port = bound

Stored ==
  /\ env \in Envs /\ Configuration(env, config) /\ Readable(disk)
  /\ bound \in 1 .. MaxPort

IInv == Stored /\ Requests /\ Rebinding /\ Recoverable

\* persist() has written the configuration, or has failed.
Persisted == Readable(disk') /\ (unsaved' = "no" => disk' = Json(config'))

-----------------------------------------------------------------------------
(* The configuration and the file. *)

LEMMA Applied ==
  ASSUME Stored, NEW patch, Settable(patch)
  PROVE  /\ Configuration(env, applyUpdate(config, patch))
         /\ applyUpdate(config, patch).port =
              IF "port" \in DOMAIN patch THEN patch.port ELSE config.port
<1>1. DOMAIN config = AppConfig /\ "port" \in AppConfig
  BY DEF Stored, Configuration, AppConfig
<1> DEFINE c == applyUpdate(config, patch)
<1>2. c = [f \in AppConfig |-> IF f \in DOMAIN patch THEN patch[f] ELSE config[f]]
  BY <1>1 DEF Settable, applyUpdate
<1> HIDE DEF c
<1>3. c \in [AppConfig -> Values \cup {NoKey}]
  <2>1. config \in [AppConfig -> Values \cup {NoKey}]
    BY DEF Stored, Configuration
  <2>2. ASSUME NEW f \in AppConfig
        PROVE  (IF f \in DOMAIN patch THEN patch[f] ELSE config[f]) \in Values \cup {NoKey}
    <3>1. f \in DOMAIN patch => patch[f] \in Values \cup {NoKey}
      BY Zenon DEF Settable
    <3>2. config[f] \in Values \cup {NoKey}
      BY <2>1
    <3> QED
      BY <3>1, <3>2
  <2> QED
    BY <1>2, <2>2
<1>4. c.port = IF "port" \in DOMAIN patch THEN patch.port ELSE config.port
  BY <1>1, <1>2
<1>5. c.port \in 1 .. MaxPort
  BY <1>4 DEF Stored, Configuration, Settable
<1>6. \A f \in AppConfig \ {"authKey"} : c[f] = NoKey => env[f] = NoKey
  BY <1>2 DEF Stored, Configuration, Settable
<1> QED
  BY <1>3, <1>4, <1>5, <1>6 DEF Configuration, c

LEMMA NewKey ==
  ASSUME NEW c, Configuration(env, c), NEW key \in Keys \cup {NoKey}
  PROVE  Configuration(env, [c EXCEPT !.authKey = key]) /\ [c EXCEPT !.authKey = key].port = c.port
  BY DEF Configuration, AppConfig, Values

LEMMA Written ==
  ASSUME NEW c, Configuration(env, c)
  PROVE  Readable(Json(c))
  BY ConfigStoreAssumption DEF Configuration, Readable, Json, Values

\* A boot reads back what was written, but for an admin key that was removed.
LEMMA ReadBack ==
  ASSUME NEW e \in Envs, NEW c, Configuration(e, c)
  PROVE  \/ applyUpdate(e, Json(c)) = c
         \/ c.authKey = NoKey /\ applyUpdate(e, Json(c)) = [c EXCEPT !.authKey = e.authKey]
<1>1. /\ e \in [AppConfig -> Values \cup {NoKey}]
      /\ c \in [AppConfig -> Values \cup {NoKey}]
      /\ "authKey" \in AppConfig
  BY ConfigStoreAssumption DEF Configuration, AppConfig
<1>2. /\ DOMAIN Json(c) = {f \in AppConfig : c[f] # NoKey}
      /\ \A f \in DOMAIN Json(c) : Json(c)[f] = c[f]
  BY <1>1 DEF Json
<1>3. applyUpdate(e, Json(c)) = [f \in AppConfig |-> IF c[f] # NoKey THEN c[f] ELSE e[f]]
  BY <1>1, <1>2 DEF applyUpdate
<1>4. \A f \in AppConfig \ {"authKey"} : c[f] = NoKey => e[f] = c[f]
  BY DEF Configuration
<1> QED
  BY <1>1, <1>3, <1>4

LEMMA PersistedIsRecoverable ==
  ASSUME Stored', Persisted
  PROVE  Recoverable'
<1>1. env' \in Envs /\ Configuration(env', config')
  BY DEF Stored
<1>2. unsaved' = "no" => Overlay' = applyUpdate(env', Json(config'))
  BY DEF Persisted, Overlay, applyUpdate
<1> QED
  BY <1>1, <1>2, ReadBack DEF Recoverable

LEMMA Persists ==
  ASSUME NEW c, Configuration(env, c), NEW w, \A m \in w : Configuration(env, m), Readable(disk),
         Persist(c, w), config' = c
  PROVE  Persisted
  BY Written DEF Persist, Persisted

-----------------------------------------------------------------------------
(* How the slots change.  No request but s begins or ends to wait for a    *)
(* port.                                                                   *)

Others(s) ==
  \A t \in Slots \ {s} : /\ request'[t].pc = "binding" <=> request[t].pc = "binding"
                         /\ t \in binding => /\ request'[t].patch = request[t].patch
                                             /\ request'[t].previous = request[t].previous

LEMMA FreeSlot == Wellformed(Free)
<1>1. DOMAIN <<>> = {}
  OBVIOUS
<1> QED
  BY <1>1 DEF Wellformed, Settable, Free

LEMMA Sent ==
  ASSUME Requests, NEW s \in Slots, request[s].pc \in {"free", "answered"},
         NEW r, request' = [request EXCEPT ![s] = r], Wellformed(r), r.pc # "binding"
  PROVE  Requests' /\ Others(s) /\ binding' = binding /\ s \notin binding
  BY DEF Requests, Others, binding

LEMMA Moved ==
  ASSUME Requests, NEW s \in Slots,
         NEW r, request' = [request EXCEPT ![s] = r], Wellformed(r), r.pc # "binding"
  PROVE  Requests' /\ Others(s) /\ binding' = binding \ {s}
  BY DEF Requests, Others, binding

LEMMA AnswerFits ==
  ASSUME Requests, NEW s \in Slots, NEW answer
  PROVE  /\ Wellformed(WithAnswer(s, answer))
         /\ WithAnswer(s, answer).pc \in {"free", "answered"}
<1>1. Wellformed(request[s])
  BY DEF Requests
<1>2. CASE request[s].awaited
  <2> DEFINE r == [request[s] EXCEPT !.pc = "answered", !.answer = answer]
  <2>1. /\ DOMAIN r = DOMAIN Free /\ r.pc = "answered" /\ r.patch = request[s].patch
        /\ r.kind = request[s].kind /\ r.awaited
    BY <1>1, <1>2 DEF Wellformed, Free
  <2>2. Wellformed(r)
    BY <1>1, <2>1 DEF Wellformed
  <2> QED
    BY <1>2, <2>1, <2>2 DEF WithAnswer
<1>3. CASE ~request[s].awaited
  BY <1>3, FreeSlot DEF WithAnswer, Free
<1> QED
  BY <1>2, <1>3

LEMMA Responded ==
  ASSUME Requests, NEW s \in Slots, NEW status, NEW c, NEW key, Respond(s, status, c, key)
  PROVE  Requests' /\ Others(s) /\ binding' = binding \ {s}
<1> DEFINE answer == [status |-> status, config |-> redactedSnapshot(c), key |-> key,
                      restart |-> request[s].pc = "binding"]
<1>1. request' = [request EXCEPT ![s] = WithAnswer(s, answer)]
  BY DEF Respond
<1> HIDE DEF answer
<1>2. Wellformed(WithAnswer(s, answer)) /\ WithAnswer(s, answer).pc # "binding"
  BY AnswerFits
<1> QED
  BY <1>1, <1>2, Moved

\* Nothing of the port moves, and what is written is the configuration.
Keeps == UNCHANGED <<config, disk, unsaved>> \/ Persisted

LEMMA Unmoved ==
  ASSUME IInv, NEW s \in Slots, Requests', Others(s), binding' = binding, s \notin binding,
         Configuration(env, config'), config'.port = config.port, Keeps,
         UNCHANGED <<env, bound, overlapped>>, proc' = "down" <=> proc = "down"
  PROVE  IInv'
<1>1. Stored'
  BY DEF IInv, Stored, Keeps, Persisted, Configuration
<1>2. Rebinding'
  BY DEF IInv, Rebinding, Others, binding
<1>3. Recoverable'
  <2>1. CASE UNCHANGED <<config, disk, unsaved>>
    <3>1. UNCHANGED Overlay
      BY <2>1 DEF Overlay
    <3> QED
      BY <2>1, <3>1 DEF IInv, Recoverable
  <2>2. CASE Persisted
    BY <1>1, <2>2, PersistedIsRecoverable
  <2> QED
    BY <2>1, <2>2 DEF Keeps
<1> QED
  BY <1>1, <1>2, <1>3 DEF IInv

LEMMA Handled ==
  ASSUME IInv, NEW s \in Slots, s \notin binding,
         NEW status, NEW c, NEW key, Respond(s, status, c, key),
         Configuration(env, config'), config'.port = config.port, Keeps,
         UNCHANGED <<env, bound, overlapped>>, proc' = "down" <=> proc = "down"
  PROVE  IInv'
<1>1. Requests' /\ Others(s) /\ binding' = binding
  BY Responded DEF IInv
<1> QED
  BY <1>1, Unmoved

-----------------------------------------------------------------------------
(* The handlers. *)

LEMMA UpdateInv ==
  ASSUME IInv, NEW s \in Slots, Update(s)
  PROVE  IInv'
<1> DEFINE patch == request[s].patch
           c == applyUpdate(config, patch)
<1>1. /\ proc # "down" /\ request[s].pc = "sent" /\ request[s].kind \in updates
      /\ s \notin binding
      /\ config' = c /\ UNCHANGED <<env, proc, bound>>
  BY DEF Update, Arrived, binding
<1>2. /\ Configuration(env, c)
      /\ c.port = IF "port" \in DOMAIN patch THEN patch.port ELSE config.port
  BY Applied DEF IInv, Requests, Wellformed
<1>3. Configuration(env', config')
  BY <1>1, <1>2
<1> HIDE DEF c
<1>4. CASE needsRebind(patch)
  <2>1. /\ request' = [request EXCEPT ![s].pc = "binding", ![s].previous = config.port]
        /\ overlapped' = (overlapped \/ binding # {})
        /\ UNCHANGED <<disk, unsaved>>
    BY <1>4 DEF Update
  <2>2. c.port = patch.port
    BY <1>2, <1>4 DEF needsRebind
  <2> DEFINE r == [request[s] EXCEPT !.pc = "binding", !.previous = config.port]
  <2>3. request' = [request EXCEPT ![s] = r]
    BY <2>1 DEF IInv, Requests
  <2>4. /\ DOMAIN r = DOMAIN Free /\ r.pc = "binding" /\ r.kind = request[s].kind
        /\ r.patch = patch /\ r.previous = config.port
    BY DEF IInv, Requests, Wellformed, Free
  <2>5. Wellformed(r)
    BY <1>1, <1>4, <2>4 DEF IInv, Stored, Configuration, Requests, Wellformed, updates, needsRebind
  <2> HIDE DEF r
  <2>6. /\ DOMAIN request' = Slots /\ request'[s] = r
        /\ \A t \in Slots \ {s} : request'[t] = request[t]
    BY <2>3 DEF IInv, Requests
  <2>7. Requests' /\ binding' = binding \cup {s}
    BY <2>4, <2>5, <2>6 DEF IInv, Requests, binding
  <2>8. Rebinding'
    <3>1. SUFFICES ASSUME ~overlapped'
                   PROVE  /\ \A t \in binding' : t = s
                          /\ request'[s].patch.port = config'.port
                          /\ request'[s].previous = bound'
      BY <1>1, <2>7 DEF Rebinding
    <3>2. binding = {} /\ config.port = bound
      BY <1>1, <2>1, <3>1 DEF IInv, Rebinding
    <3> QED
      BY <1>1, <2>2, <2>4, <2>6, <2>7, <3>2
  <2>9. Stored' /\ Recoverable'
    BY <1>1, <1>3, <2>1, <2>7 DEF IInv, Stored, Recoverable, Configuration
  <2> QED
    BY <2>7, <2>8, <2>9 DEF IInv
<1>5. CASE ~needsRebind(patch)
  <2>1. Respond(s, "ok", c, NoKey) /\ Persist(c, {}) /\ UNCHANGED overlapped
    BY <1>5 DEF Update, c
  <2>2. c.port = config.port
    BY <1>2, <1>5 DEF needsRebind
  <2>3. Persisted
    BY <1>1, <1>2, <2>1, Persists DEF IInv, Stored
  <2> QED
    BY <1>1, <1>2, <2>1, <2>2, <2>3, Handled DEF Keeps
<1> QED
  BY <1>4, <1>5

LEMMA BindOkInv ==
  ASSUME IInv, NEW s \in Slots, BindOk(s)
  PROVE  IInv'
<1>1. /\ s \in binding /\ proc # "down" /\ bound' = request[s].patch.port
      /\ request[s].patch.port # bound
      /\ Respond(s, "ok", config, NoKey) /\ Persist(config, {})
      /\ UNCHANGED <<env, config, proc, overlapped>>
  BY DEF BindOk
<1>2. Requests' /\ Others(s) /\ binding' = binding \ {s}
  BY <1>1, Responded DEF IInv
<1>3. Rebinding'
  <2>1. SUFFICES ASSUME ~overlapped PROVE binding' = {} /\ config.port = bound'
    BY <1>1 DEF Rebinding
  <2> QED
    BY <1>1, <1>2, <2>1 DEF IInv, Rebinding
<1>4. Persisted
  BY <1>1, Persists DEF IInv, Stored
<1>5. Stored' /\ Recoverable'
  <2>1. bound' \in 1 .. MaxPort
    BY <1>1 DEF IInv, Requests, Wellformed, Settable, binding
  <2>2. Stored'
    BY <1>1, <1>4, <2>1 DEF IInv, Stored, Configuration, Persisted
  <2> QED
    BY <1>4, <2>2, PersistedIsRecoverable
<1> QED
  BY <1>2, <1>3, <1>5 DEF IInv

LEMMA BindFailsInv ==
  ASSUME IInv, NEW s \in Slots, BindFails(s)
  PROVE  IInv'
<1>1. /\ s \in binding /\ proc # "down"
      /\ config' = [config EXCEPT !.port = request[s].previous]
      /\ Respond(s, "refused", config', NoKey) /\ unsaved' = "refused"
      /\ UNCHANGED <<env, bound, proc, overlapped, disk>>
  BY DEF BindFails
<1>2. Requests' /\ Others(s) /\ binding' = binding \ {s}
  <2> DEFINE c == config'
  <2>1. Respond(s, "refused", c, NoKey)
    BY <1>1
  <2> HIDE DEF c
  <2> QED
    BY <2>1, Responded DEF IInv
<1>3. Configuration(env, config') /\ config'.port = request[s].previous
  <2>1. request[s].previous \in 1 .. MaxPort
    BY <1>1 DEF IInv, Requests, Wellformed, binding
  <2>2. "port" \in AppConfig /\ 1 .. MaxPort \subseteq Values
    BY DEF AppConfig, Values
  <2>3. NoKey \notin 1 .. MaxPort
    BY ConfigStoreAssumption DEF Values
  <2> QED
    BY <1>1, <2>1, <2>2, <2>3 DEF IInv, Stored, Configuration
<1>4. Rebinding'
  <2>1. SUFFICES ASSUME ~overlapped PROVE binding' = {} /\ config'.port = bound
    BY <1>1 DEF Rebinding
  <2> QED
    BY <1>1, <1>2, <1>3, <2>1 DEF IInv, Rebinding
<1>5. Stored' /\ Recoverable'
  BY <1>1, <1>3 DEF IInv, Stored, Configuration, Recoverable
<1> QED
  BY <1>2, <1>4, <1>5 DEF IInv

LEMMA KeyInv ==
  ASSUME IInv, NEW s \in Slots, Regenerate(s) \/ Clear(s)
  PROVE  IInv'
<1>1. PICK key \in Keys \cup {NoKey} :
        /\ s \notin binding
        /\ config' = [config EXCEPT !.authKey = key]
        /\ Persist(config', {})
        /\ UNCHANGED <<env, proc, bound, overlapped>>
        /\ \E k : Respond(s, "ok", config', k)
  BY DEF Regenerate, Clear, Arrived, binding
<1>2. Configuration(env, config') /\ config'.port = config.port
  BY <1>1, NewKey DEF IInv, Stored
<1>3. Persisted
  <2> DEFINE c == config'
  <2>1. Configuration(env, c) /\ Persist(c, {}) /\ config' = c /\ Readable(disk)
    BY <1>1, <1>2 DEF IInv, Stored
  <2> HIDE DEF c
  <2> QED
    BY <2>1, Persists
<1> QED
  BY <1>1, <1>2, <1>3, Handled DEF Keeps

LEMMA SetupInv ==
  ASSUME IInv, NEW s \in Slots, Setup(s) \/ SetupVerified(s) \/ SetupRejected(s)
  PROVE  IInv'
<1>0. Configuration(env, config)
  BY DEF IInv, Stored
<1>1. CASE Setup(s)
  <2>1. /\ s \notin binding /\ UNCHANGED <<env, config, disk, proc, bound, unsaved, overlapped>>
        /\ request[s].kind = "setup"
    BY <1>1 DEF Setup, Arrived, history, binding
  <2>2. CASE setupComplete /\ ~Authorized(s)
    BY <1>0, <1>1, <2>1, <2>2, Handled DEF Setup, Keeps
  <2>3. CASE ~(setupComplete /\ ~Authorized(s))
    <3> DEFINE r == [request[s] EXCEPT !.pc = "asking"]
    <3>1. request' = [request EXCEPT ![s] = r]
      BY <1>1, <2>3 DEF Setup, IInv, Requests
    <3>2. /\ DOMAIN r = DOMAIN Free /\ r.pc = "asking" /\ r.kind = "setup"
          /\ r.patch = request[s].patch
      BY <2>1 DEF IInv, Requests, Wellformed, Free
    <3>3. Wellformed(r)
      BY <2>1, <3>2 DEF IInv, Requests, Wellformed
    <3> HIDE DEF r
    <3>4. Requests' /\ Others(s) /\ binding' = binding
      BY <2>1, <3>1, <3>2, <3>3, Moved DEF IInv
    <3> QED
      BY <1>0, <2>1, <3>4, Unmoved DEF Keeps
  <2> QED
    BY <2>2, <2>3
<1>2. CASE SetupVerified(s)
  <2> DEFINE mid == applyUpdate(config, request[s].patch)
  <2>1. PICK key \in Keys \cup {NoKey, config.authKey} :
          /\ config' = [mid EXCEPT !.authKey = key]
          /\ Persist(config', {mid})
          /\ \E k : Respond(s, "ok", config', k)
    BY <1>2 DEF SetupVerified
  <2>2. s \notin binding /\ request[s].kind = "setup" /\ UNCHANGED <<env, proc, bound, overlapped>>
    BY <1>2 DEF SetupVerified, IInv, Requests, Wellformed, binding
  <2>3. Configuration(env, mid) /\ mid.port = config.port
    BY <2>2, Applied DEF IInv, Requests, Wellformed
  <2> HIDE DEF mid
  <2>4. Configuration(env, config') /\ config'.port = config.port
    <3>1. "authKey" \in AppConfig /\ key \in Values \cup {NoKey}
      BY <1>0 DEF Configuration, AppConfig, Values
    <3> QED
      BY <2>1, <2>3, <3>1 DEF Configuration, AppConfig
  <2>5. Persisted
    <3> DEFINE c == config'
    <3>1. /\ Configuration(env, c) /\ Persist(c, {mid}) /\ config' = c /\ Readable(disk)
          /\ \A m \in {mid} : Configuration(env, m)
      BY <2>1, <2>3, <2>4 DEF IInv, Stored
    <3> HIDE DEF c
    <3> QED
      BY <3>1, Persists
  <2> QED
    BY <2>1, <2>2, <2>4, <2>5, Handled DEF Keeps
<1>3. CASE SetupRejected(s)
  BY <1>0, <1>3, Handled DEF SetupRejected, history, binding, Keeps
<1> QED
  BY <1>1, <1>2, <1>3

LEMMA HandleInv ==
  ASSUME IInv, NEW s \in Slots, Handle(s)
  PROVE  IInv'
<1> USE DEF history, binding, Keeps, IInv, Stored
<1>1. CASE Refuse(s)
  BY <1>1, Handled DEF Refuse
<1>2. CASE Read(s)
  BY <1>2, Handled DEF Read, Arrived
<1>3. CASE Login(s)
  BY <1>3, Handled DEF Login, Arrived
<1>4. CASE Invalid(s)
  BY <1>4, Handled DEF Invalid, Arrived
<1>5. CASE Restart(s)
  BY <1>5, Handled DEF Restart, Arrived
<1> QED
  BY <1>1, <1>2, <1>3, <1>4, <1>5, UpdateInv, BindOkInv, BindFailsInv, KeyInv, SetupInv
     DEF Handle

-----------------------------------------------------------------------------
(* The process. *)

LEMMA ExitInv == ASSUME IInv, Exit PROVE IInv'
<1>1. /\ proc' = "down" /\ Lost /\ disk' \in {disk, <<>>}
      /\ UNCHANGED <<env, config, bound, overlapped>>
  BY DEF Exit, history
<1>2. \A t \in Slots : Wellformed(request'[t]) /\ request'[t].pc # "binding"
  <2> SUFFICES ASSUME NEW t \in Slots
               PROVE  Wellformed(request'[t]) /\ request'[t].pc # "binding"
    OBVIOUS
  <2>1. request'[t] = IF request[t].pc \in {"free", "answered"} THEN request[t]
                      ELSE WithAnswer(t, NetworkError)
    BY <1>1 DEF Lost
  <2> QED
    BY <2>1, AnswerFits DEF IInv, Requests
<1>3. DOMAIN request' = Slots
  BY <1>1 DEF Lost
<1>4. Stored'
  <2>1. Readable(<<>>)
    BY FreeSlot DEF Readable, Wellformed, Settable, Free
  <2> QED
    BY <1>1, <2>1 DEF IInv, Stored, Configuration
<1> QED
  BY <1>1, <1>2, <1>3, <1>4 DEF IInv, Requests, Rebinding, Recoverable, binding

LEMMA BootInv == ASSUME IInv, Boot PROVE IInv'
<1>1. PICK port \in Overlay.port .. MaxPort :
        /\ bound' = port /\ config' = [Overlay EXCEPT !.port = port]
        /\ unsaved' = IF port = Overlay.port THEN "no" ELSE "moved"
  BY DEF Boot
<1>2. env \in [AppConfig -> Values \cup {NoKey}] /\ env.port \in 1 .. MaxPort
  BY ConfigStoreAssumption DEF IInv, Stored
<1>3. "port" \in AppConfig /\ 1 .. MaxPort \subseteq Values /\ NoKey \notin Values
  BY ConfigStoreAssumption DEF AppConfig, Values
<1>4. Overlay = [f \in AppConfig |-> IF f \in DOMAIN disk THEN disk[f] ELSE env[f]]
  BY <1>2 DEF IInv, Stored, Readable, Overlay, applyUpdate
<1>5. Configuration(env, Overlay)
  BY <1>2, <1>3, <1>4 DEF IInv, Stored, Readable, Configuration
<1>6. port \in 1 .. MaxPort
  BY <1>5 DEF Configuration
<1>7. Configuration(env, config') /\ config'.port = port
  BY <1>1, <1>3, <1>5, <1>6 DEF Configuration
<1>8. proc = "down" /\ UNCHANGED <<env, disk, request>>
  BY DEF Boot
<1>9. binding' = {} /\ Requests'
  BY <1>8 DEF IInv, Rebinding, Requests, binding
<1>10. Stored'
  BY <1>1, <1>6, <1>7, <1>8 DEF IInv, Stored, Configuration
<1>11. Recoverable'
  <2>1. ASSUME unsaved' = "no" PROVE config' = Overlay'
    <3>1. port = Overlay.port
      BY <1>1, <2>1
    <3>2. config' = Overlay
      BY <1>1, <1>4, <3>1
    <3> QED
      BY <1>8, <3>2 DEF Overlay
  <2> QED
    BY <2>1 DEF Recoverable
<1> QED
  BY <1>1, <1>7, <1>9, <1>10, <1>11 DEF IInv, Rebinding

LEMMA UnreachableInv ==
  ASSUME IInv, NEW s \in Slots, Unreachable(s)
  PROVE  IInv'
<1>1. /\ request[s].pc = "sent" /\ request' = [request EXCEPT ![s] = WithAnswer(s, NetworkError)]
      /\ UNCHANGED <<env, config, disk, proc, bound, unsaved, overlapped>>
  BY DEF Unreachable, history
<1>2. Wellformed(WithAnswer(s, NetworkError)) /\ WithAnswer(s, NetworkError).pc # "binding"
  BY AnswerFits DEF IInv
<1>3. Requests' /\ Others(s) /\ binding' = binding \ {s} /\ s \notin binding
  BY <1>1, <1>2, Moved DEF IInv, binding
<1> QED
  BY <1>1, <1>3, Unmoved DEF IInv, Stored, Keeps

-----------------------------------------------------------------------------
(* The clients. *)

StoreStays == UNCHANGED <<env, config, disk, proc, bound, unsaved, overlapped>>

LEMMA SlotInv ==
  ASSUME IInv, NEW s \in Slots, request[s].pc \in {"free", "answered"}, StoreStays,
         NEW r, request' = [request EXCEPT ![s] = r], Wellformed(r), r.pc # "binding"
  PROVE  IInv'
<1>1. Requests' /\ Others(s) /\ binding' = binding /\ s \notin binding
  BY Sent DEF IInv
<1> QED
  BY <1>1, Unmoved DEF IInv, Stored, StoreStays, Keeps

LEMMA TakeInv ==
  ASSUME IInv, NEW s \in Slots, request[s].pc = "answered", StoreStays, Take(s)
  PROVE  IInv'
<1>1. request' = [request EXCEPT ![s] = Free] /\ Free.pc # "binding"
  BY DEF Take, Free
<1> QED
  BY <1>1, SlotInv, FreeSlot

\* What the clients send.
LEMMA Patches ==
  /\ \A patch \in sections \cup {[f \in {"authKey"} |-> NoKey]} : Settable(patch)
  /\ Settable(NoPatch) /\ Settable(File)
  /\ \A m \in Models : /\ Settable([f \in {"model"} |-> m])
                       /\ Settable([f \in {"cursorApiKey", "model"} |->
                                      IF f = "model" THEN m ELSE ApiKey])
<1> USE ConfigStoreAssumption DEF Settable, AppConfig, Values
<1>1. \A patch \in sections \cup {[f \in {"authKey"} |-> NoKey]} : Settable(patch)
  BY DEF sections
<1>2. Settable(NoPatch)
  BY FreeSlot DEF NoPatch, Wellformed, Free
<1>3. Settable(File)
  BY DashboardAssumption
<1>4. \A m \in Models : /\ Settable([f \in {"model"} |-> m])
                        /\ Settable([f \in {"cursorApiKey", "model"} |->
                                      IF f = "model" THEN m ELSE ApiKey])
  OBVIOUS
<1> QED
  BY <1>1, <1>2, <1>3, <1>4

LEMMA FreshSlot ==
  ASSUME NEW kind, NEW patch, Settable(patch), kind # "setup" \/ "port" \notin DOMAIN patch,
         NEW r, DOMAIN r = DOMAIN Free, r.pc = "sent", r.kind = kind, r.patch = patch
  PROVE  Wellformed(r)
  BY DEF Wellformed

LEMMA SendInv ==
  ASSUME IInv, NEW s \in Slots, request[s].pc = "free", StoreStays,
         NEW kind, NEW key, NEW patch, Send(s, kind, key, patch), Settable(patch),
         kind # "setup" \/ "port" \notin DOMAIN patch
  PROVE  IInv'
<1> DEFINE r == [Free EXCEPT !.pc = "sent", !.kind = kind, !.key = key, !.patch = patch,
                             !.awaited = TRUE]
<1>1. DOMAIN r = DOMAIN Free /\ r.pc = "sent" /\ r.kind = kind /\ r.patch = patch
  BY DEF Free
<1>2. request' = [request EXCEPT ![s] = r]
  BY DEF Send
<1> HIDE DEF r
<1>3. Wellformed(r)
  BY <1>1, FreshSlot
<1> QED
  BY <1>1, <1>2, <1>3, SlotInv

LEMMA BootPageInv ==
  ASSUME IInv, NEW s \in Slots, request[s].pc \in {"free", "answered"}, StoreStays,
         NEW key, BootPage(s, key)
  PROVE  IInv'
<1> DEFINE r == [Free EXCEPT !.pc = "sent", !.kind = "config", !.key = key, !.awaited = TRUE]
<1>1. DOMAIN r = DOMAIN Free /\ r.pc = "sent" /\ r.kind = "config" /\ r.patch = NoPatch
  BY DEF Free, NoPatch
<1>2. request' = [request EXCEPT ![s] = r]
  BY DEF BootPage
<1> HIDE DEF r
<1>3. Wellformed(r)
  BY <1>1, FreshSlot, Patches
<1> QED
  BY <1>1, <1>2, <1>3, SlotInv

\* Where the slots go when the page is loaded.
Reloaded(s) ==
  request' = [t \in Slots |->
    IF t = s THEN [Free EXCEPT !.pc = "sent", !.kind = "status", !.awaited = TRUE]
    ELSE IF t \notin PageSlots \/ request[t].pc = "free" THEN request[t]
    ELSE IF request[t].pc = "answered" THEN Free
    ELSE [request[t] EXCEPT !.awaited = FALSE]]

LEMMA LoadInv == ASSUME IInv, NEW port, Load(port) PROVE IInv'
<1>1. PICK s \in PageSlots : /\ Reloaded(s) /\ StoreStays
                             /\ s \in FreeSlots \/ request[s].pc = "answered"
  BY DEF Load, StoreStays, Reloaded
<1>2. s \in Slots /\ s \notin binding
  BY <1>1, ConfigStoreAssumption DEF FreeSlots, binding
<1>3. Wellformed(request'[s]) /\ request'[s].pc = "sent"
  <2> DEFINE r == [Free EXCEPT !.pc = "sent", !.kind = "status", !.awaited = TRUE]
  <2>1. DOMAIN r = DOMAIN Free /\ r.pc = "sent" /\ r.kind = "status" /\ r.patch = NoPatch
    BY DEF Free, NoPatch
  <2>2. request'[s] = r
    BY <1>1, <1>2 DEF Reloaded
  <2> HIDE DEF r
  <2> QED
    BY <2>1, <2>2, FreshSlot, Patches
<1>4. ASSUME NEW t \in Slots \ {s}
      PROVE  /\ Wellformed(request'[t])
             /\ request'[t].pc = "binding" <=> request[t].pc = "binding"
             /\ t \in binding => /\ request'[t].patch = request[t].patch
                                 /\ request'[t].previous = request[t].previous
  <2>1. Wellformed(request[t])
    BY DEF IInv, Requests
  <2>2. CASE request'[t] = request[t]
    BY <2>1, <2>2
  <2>3. CASE request'[t] = Free /\ request[t].pc = "answered"
    BY <2>3, FreeSlot DEF Free, binding
  <2>4. CASE request'[t] = [request[t] EXCEPT !.awaited = FALSE]
             /\ request[t].pc \notin {"free", "answered"}
    <3>1. /\ DOMAIN request'[t] = DOMAIN Free
          /\ request'[t].pc = request[t].pc /\ request'[t].kind = request[t].kind
          /\ request'[t].patch = request[t].patch
          /\ request'[t].previous = request[t].previous
      BY <2>1, <2>4 DEF Wellformed, Free
    <3> QED
      BY <2>1, <2>4, <3>1 DEF Wellformed
  <2> QED
    BY <1>1, <2>2, <2>3, <2>4 DEF Reloaded
<1>5. DOMAIN request' = Slots
  BY <1>1 DEF Reloaded
<1>6. Requests' /\ Others(s) /\ binding' = binding
  BY <1>2, <1>3, <1>4, <1>5 DEF Requests, Others, binding
<1> QED
  BY <1>1, <1>2, <1>6, Unmoved DEF StoreStays, IInv, Stored, Keeps

LEMMA AnswerInv ==
  ASSUME IInv, NEW s \in PageSlots, Answer(s)
  PROVE  IInv'
<1>1. s \in Slots
  BY ConfigStoreAssumption
<1>2. request[s].pc = "answered" /\ StoreStays
  BY DEF Answer, StatusAnswered, ConfigAnswered, SetupAnswered, LoginAnswered, SaveAnswered,
         UpdateAnswered, RegenerateAnswered, ClearAnswered, RestartAnswered, Answered,
         serverVars, StoreStays
<1>3. Take(s) \/ \E key : BootPage(s, key)
  BY DEF Answer, StatusAnswered, ConfigAnswered, SetupAnswered, LoginAnswered, SaveAnswered,
         UpdateAnswered, RegenerateAnswered, ClearAnswered, RestartAnswered
<1> QED
  BY <1>1, <1>2, <1>3, TakeInv, BootPageInv

LEMMA UserInv == ASSUME IInv, UserActs PROVE IInv'
<1> USE ConfigStoreAssumption
<1>1. CASE Open \/ Reload
  BY <1>1, LoadInv DEF Open, Reload
<1>2. CASE FinishSetup
  <2>1. PICK model \in Models, s \in FreeSlots :
          Send(s, "setup", NoKey, [f \in {"cursorApiKey", "model"} |->
                                     IF f = "model" THEN model ELSE ApiKey])
    BY <1>2 DEF FinishSetup, Call
  <2>2. StoreStays
    BY <1>2 DEF FinishSetup, serverVars, StoreStays
  <2> QED
    BY <2>1, <2>2, SendInv, Patches DEF FreeSlots
<1>3. CASE SubmitLogin \/ SetDefaultModel \/ Import \/ RegenerateKey \/ ClearKey \/ RestartGateway
  <2>1. StoreStays
    BY <1>3 DEF SubmitLogin, SetDefaultModel, Import, RegenerateKey, ClearKey, RestartGateway,
                serverVars, StoreStays
  <2>2. \E kind, key, patch : Call(kind, key, patch) /\ kind # "setup" /\ Settable(patch)
    BY <1>3, Patches DEF SubmitLogin, SetDefaultModel, Import, RegenerateKey, ClearKey,
                         RestartGateway
  <2> QED
    BY <2>1, <2>2, SendInv DEF Call, FreeSlots
<1>4. CASE Logout
  <2>1. StoreStays /\ UNCHANGED request
    BY <1>4 DEF Logout, serverVars, StoreStays
  <2> QED
    BY <2>1 DEF StoreStays, IInv, Stored, Configuration, Readable, Requests, Rebinding,
                Recoverable, Overlay, binding
<1>5. CASE Save
  <2>1. PICK patch \in sections, s \in FreeSlots :
          request' = [request EXCEPT ![s] =
            [Free EXCEPT !.pc = "sent", !.kind = "save", !.key = adminKey, !.patch = patch,
                         !.before = shown.port, !.awaited = TRUE]]
    BY <1>5 DEF Save
  <2> DEFINE r == [Free EXCEPT !.pc = "sent", !.kind = "save", !.key = adminKey, !.patch = patch,
                               !.before = shown.port, !.awaited = TRUE]
  <2>2. DOMAIN r = DOMAIN Free /\ r.pc = "sent" /\ r.kind = "save" /\ r.patch = patch
    BY DEF Free
  <2>3. StoreStays /\ request' = [request EXCEPT ![s] = r]
    BY <1>5, <2>1 DEF Save, serverVars, StoreStays
  <2> HIDE DEF r
  <2>4. Wellformed(r)
    BY <2>2, FreshSlot, Patches
  <2> QED
    BY <2>2, <2>3, <2>4, SlotInv DEF FreeSlots
<1> QED
  BY <1>1, <1>2, <1>3, <1>4, <1>5 DEF UserActs

LEMMA CliInv ==
  ASSUME IInv, Cli \/ \E s \in Slots : CliDone(s)
  PROVE  IInv'
<1>1. CASE Cli
  <2>1. StoreStays
    BY <1>1 DEF Cli, serverVars, StoreStays
  <2>2. PICK s \in Slots \ PageSlots :
          /\ request[s].pc = "free"
          /\ \E kind, key, patch : Send(s, kind, key, patch) /\ kind # "setup" /\ Settable(patch)
    BY <1>1, Patches DEF Cli
  <2> QED
    BY <2>1, <2>2, SendInv
<1>2. ASSUME NEW s \in Slots, CliDone(s) PROVE IInv'
  BY <1>2, TakeInv DEF CliDone, serverVars, StoreStays
<1> QED
  BY <1>1, <1>2

-----------------------------------------------------------------------------
LEMMA InitInv == ControlInit => IInv
<1> SUFFICES ASSUME ControlInit PROVE IInv
  OBVIOUS
<1>1. /\ env \in Envs /\ config = env /\ disk = <<>> /\ bound = env.port /\ proc = "up"
      /\ request = [s \in Slots |-> Free]
  BY DEF ControlInit, StoreInit
<1>2. env \in [AppConfig -> Values \cup {NoKey}] /\ env.port \in 1 .. MaxPort
  BY <1>1, ConfigStoreAssumption
<1>3. DOMAIN <<>> = {}
  OBVIOUS
<1>4. Stored
  BY <1>1, <1>2, <1>3 DEF Stored, Configuration, Readable
<1>5. Requests
  BY <1>1, FreeSlot DEF Requests
<1>6. binding = {}
  BY <1>1 DEF binding, Free
<1>7. Rebinding
  BY <1>1, <1>6 DEF Rebinding
<1>8. Recoverable
  BY <1>1, <1>2, <1>3 DEF Recoverable, Overlay, applyUpdate
<1> QED
  BY <1>4, <1>5, <1>7, <1>8 DEF IInv

LEMMA StepInv == IInv /\ [ControlNext]_controlVars => IInv'
<1> SUFFICES ASSUME IInv, [ControlNext]_controlVars PROVE IInv'
  OBVIOUS
<1> USE DEF IInv, Stored, Configuration, Readable, Requests, Rebinding, Recoverable, Overlay,
            binding
<1>1. CASE Terminate
  BY <1>1 DEF Terminate, history
<1>2. CASE UNCHANGED controlVars
  BY <1>2 DEF controlVars, storeVars
<1>3. CASE UserActs \/ Cli \/ Exit
  BY <1>3, UserInv, CliInv, ExitInv
<1>4. CASE \E s \in Slots : Handle(s) \/ Fails(s) \/ CliDone(s)
  BY <1>4, HandleInv, UnreachableInv, CliInv DEF Fails
<1>5. CASE (\E s \in PageSlots : Answer(s)) \/ Navigate \/ Boot
  BY <1>5, AnswerInv, LoadInv, BootInv DEF Navigate
<1>6. CASE GotoDashboard
  <2>1. StoreStays /\ \E s \in FreeSlots : BootPage(s, adminKey)
    BY <1>6 DEF GotoDashboard, serverVars, StoreStays
  <2> QED
    BY <2>1, BootPageInv, ConfigStoreAssumption DEF FreeSlots
<1> QED
  BY <1>1, <1>2, <1>3, <1>4, <1>5, <1>6 DEF ControlNext

LEMMA Invariance == ControlSpec => []IInv
  BY InitInv, StepInv, PTL DEF ControlSpec

\* While no change of the port is under way, the gateway listens where its
\* configuration says, unless two such changes have overlapped: however
\* updates, refused binds, setups, restarts, crashes, and the page and the CLI
\* that ask for them interleave.
THEOREM ListenerIsConfigured == ControlSpec => []ListenerMatchesConfig
<1>1. IInv => ListenerMatchesConfig
  BY DEF IInv, Rebinding, ListenerMatchesConfig
<1> QED
  BY <1>1, Invariance, PTL

\* A process that boots comes up with the configuration that was live when no
\* update was under way, through failed and torn writes, crashes and refused
\* updates that it says nothing of, but for an admin key that was removed
\* and is set in the environment.
THEOREM ConfigurationIsRecoverable == ControlSpec => []Recoverable
<1>1. IInv => Recoverable
  BY DEF IInv
<1> QED
  BY <1>1, Invariance, PTL

-----------------------------------------------------------------------------
(***************************************************************************)
(* The page.  What it shows when it is settled follows from what holds     *)
(* while it waits: which requests it may be waiting for in which view      *)
(* (Talks), and that an answer it has not read yet still tells the truth,  *)
(* unless the news say otherwise (Keyed, Located).                         *)
(***************************************************************************)
OkAnswer(s) == request[s].pc = "answered" /\ request[s].answer.status = "ok"

Talks ==
  /\ \A s \in PageSlots : request[s].awaited =>
       /\ request[s].kind = "status" => view = "loading"
       /\ request[s].kind = "setup" => view = "setup"
       /\ request[s].kind = "login" => view = "login" /\ typed # NoKey /\ request[s].key = typed
       /\ request[s].kind \notin {"status", "setup", "login"} => view \in {"dashboard", "login"}
       /\ request[s].kind \in {"save", "default", "import"} => shown # <<>>
  /\ \A s, t \in PageSlots :
       /\ request[s].awaited /\ request[t].awaited
       /\ \/ view \in {"loading", "setup"}
          \/ request[s].kind = "login" /\ request[t].kind = "login"
       => s = t
  /\ view \in {"loading", "setup", "done"} => shown = <<>>
  /\ \A s \in PageSlots : OkAnswer(s) => request[s].answer.config # <<>>

\* What an answer that is still to be read says of the gateway's key.
TellsKey(s) ==
  /\ request[s].kind = "regenerate" => config.authKey \in {NoKey, request[s].answer.key}
  /\ request[s].kind = "setup" /\ request[s].answer.key # NoKey =>
       config.authKey \in {NoKey, request[s].answer.key}
  /\ request[s].kind = "clear" => config.authKey = NoKey
  /\ request[s].kind = "login" => config.authKey \in {NoKey, request[s].key}

\* The page has the gateway's key, or is about to read it.
Known ==
  \/ config.authKey \in {NoKey, adminKey}
  \/ \E s \in PageSlots : /\ OkAnswer(s) /\ request[s].kind = "regenerate"
                          /\ request[s].answer.key = config.authKey

\* The page shows a configuration, or is about to without another look at
\* its key.
Shows ==
  \/ shown # <<>>
  \/ \E s \in PageSlots : /\ request[s].awaited /\ request[s].kind = "config"
                          /\ OkAnswer(s) \/ (request[s].pc = "sent" /\ request[s].key # adminKey)

Keyed ==
  "key" \notin news => /\ \A s \in PageSlots : OkAnswer(s) => TellsKey(s)
                       /\ view = "dashboard" /\ Shows => Known

\* A change of the port that the page is about to read.
HasMoved(s) == OkAnswer(s) /\ request[s].kind = "save" /\ request[s].answer.restart

Saves ==
  /\ \A s \in PageSlots : request[s].kind = "save" =>
       /\ "port" \in DOMAIN request[s].patch => DOMAIN request[s].patch = {"port"}
       /\ HasMoved(s) => "port" \in DOMAIN request[s].patch
  /\ \A s, t \in PageSlots :
       /\ request[s].kind = "save" /\ request[t].kind = "save"
       /\ DOMAIN request[s].patch = DOMAIN request[t].patch
       => s = t

Located ==
  "address" \notin news =>
    /\ \A s \in PageSlots :
         HasMoved(s) => request[s].answer.config.port = bound /\ request[s].before # bound
    /\ \/ origin = bound \/ bound \in leaving
       \/ \E s \in PageSlots : HasMoved(s)
       \/ /\ view = "loading"
          /\ \A s \in PageSlots : ~(OkAnswer(s) /\ request[s].kind = "status")

Page == Talks /\ Keyed /\ Saves /\ Located

-----------------------------------------------------------------------------
(***************************************************************************)
(* What happens without the page: a slot stays as it is, is dropped, or    *)
(* goes on; a new answer tells the truth; what moves the key or the        *)
(* gateway is news, or the page's own doing.                               *)
(***************************************************************************)
Same(s) ==
  /\ request'[s].kind = request[s].kind /\ request'[s].key = request[s].key
  /\ request'[s].patch = request[s].patch /\ request'[s].before = request[s].before
  /\ request'[s].awaited = request[s].awaited

Fades(s) ==
  \/ request'[s] = request[s]
  \/ /\ request[s].pc \in {"sent", "asking", "binding"}
     /\ request'[s] = Free \/ (Same(s) /\ request'[s].pc \in {"asking", "binding", "answered"})

NewAnswer(s) == OkAnswer(s)' /\ ~OkAnswer(s)

Moves(s) ==
  /\ "port" \in DOMAIN request[s].patch
  /\ "address" \notin news' =>
       request[s].kind = "save" /\ request[s].before # bound' /\ config'.port = bound'

Truthful(s) ==
  LET answer == request'[s].answer IN
  /\ answer.config # <<>> /\ answer.config.port = config'.port
  /\ request[s].kind = "regenerate" => config'.authKey = answer.key
  /\ request[s].kind = "setup" /\ answer.key # NoKey => config'.authKey = answer.key
  /\ request[s].kind = "clear" => config'.authKey = NoKey
  /\ request[s].kind \in {"login", "config"} => config.authKey \in {NoKey, request[s].key}
  /\ request[s].kind = "config" => config'.authKey = config.authKey
  /\ request[s].kind = "status" => origin = bound
  /\ answer.restart => Moves(s)

\* The page's own request alone has changed the key.
Owns(s) ==
  /\ NewAnswer(s) /\ request[s].awaited /\ request[s].kind \in keyChanges /\ AloneWithKey(s)

Outside ==
  /\ \A s \in PageSlots : Fades(s) /\ (NewAnswer(s) => Truthful(s))
  /\ "key" \notin news' =>
       \/ "key" \notin news /\ config'.authKey = config.authKey
       \/ \E s \in PageSlots : Owns(s)
  /\ "address" \notin news' =>
       /\ "address" \notin news
       /\ bound' = bound \/ \E s \in PageSlots : NewAnswer(s) /\ request'[s].answer.restart

LEMMA OutsideTalks ==
  ASSUME Talks, Outside, UNCHANGED pageVars
  PROVE  Talks'
<1>1. ASSUME NEW s \in PageSlots
      PROVE  /\ request'[s].awaited => /\ request[s].awaited /\ request'[s].kind = request[s].kind
                                       /\ request'[s].key = request[s].key
             /\ OkAnswer(s)' => request'[s].answer.config # <<>>
  <2>1. Fades(s) /\ (NewAnswer(s) => Truthful(s))
    BY DEF Outside
  <2>2. request'[s] = Free => ~request'[s].awaited
    BY DEF Free
  <2>3. request'[s].awaited => /\ request[s].awaited /\ request'[s].kind = request[s].kind
                               /\ request'[s].key = request[s].key
    BY <2>1, <2>2 DEF Fades, Same
  <2>4. CASE NewAnswer(s)
    BY <2>1, <2>3, <2>4 DEF Truthful
  <2>5. CASE ~NewAnswer(s)
    <3>1. OkAnswer(s)' => OkAnswer(s)
      BY <2>5 DEF NewAnswer
    <3>2. OkAnswer(s) => request'[s] = request[s]
      BY <2>1 DEF OkAnswer, Fades
    <3> QED
      BY <2>3, <3>1, <3>2 DEF Talks
  <2> QED
    BY <2>4, <2>5
<1> QED
  BY <1>1 DEF Talks, pageVars

\* An answer that is there stays.
LEMMA AnswersStay ==
  ASSUME Outside, NEW s \in PageSlots
  PROVE  /\ OkAnswer(s) => request'[s] = request[s] /\ OkAnswer(s)'
         /\ OkAnswer(s)' /\ ~NewAnswer(s) => OkAnswer(s)
         /\ NewAnswer(s) => Same(s) /\ request[s].pc \in {"sent", "asking", "binding"}
<1>1. Fades(s)
  BY DEF Outside
<1>2. Free.pc = "free"
  BY DEF Free
<1> QED
  BY <1>1, <1>2 DEF Fades, OkAnswer, NewAnswer

LEMMA OutsideKeyed ==
  ASSUME Requests, Talks, Keyed, Outside, UNCHANGED pageVars
  PROVE  Keyed'
<1> SUFFICES ASSUME "key" \notin news' PROVE Keyed'
  BY DEF Keyed
<1>1. ASSUME NEW s \in PageSlots, NewAnswer(s) PROVE TellsKey(s)'
  <2>1. Truthful(s) /\ Same(s)
    BY <1>1, AnswersStay DEF Outside
  <2>2. request[s].kind = "login" => config'.authKey = config.authKey
    <3>1. CASE config'.authKey = config.authKey
      BY <3>1
    <3>2. CASE \E t \in PageSlots : Owns(t)
      <4>1. PICK t \in PageSlots : Owns(t)
        BY <3>2
      <4> QED
        BY <4>1 DEF Owns, AloneWithKey, keyChanges
    <3> QED
      BY <3>1, <3>2 DEF Outside
  <2> QED
    BY <2>1, <2>2 DEF Truthful, Same, TellsKey
<1>2. CASE "key" \notin news /\ config'.authKey = config.authKey
  <2>1. \A s \in PageSlots : OkAnswer(s)' => TellsKey(s)'
    <3> SUFFICES ASSUME NEW s \in PageSlots, OkAnswer(s)' PROVE TellsKey(s)'
      OBVIOUS
    <3>1. CASE NewAnswer(s)
      BY <1>1, <3>1
    <3>2. CASE ~NewAnswer(s)
      BY <1>2, <3>2, AnswersStay DEF Keyed, TellsKey
    <3> QED
      BY <3>1, <3>2
  <2>2. Known => Known'
    BY <1>2, AnswersStay DEF Known, pageVars
  <2>3. Shows' => Shows \/ Known
    <3> SUFFICES ASSUME NEW s \in PageSlots, request'[s].awaited, request'[s].kind = "config",
                        OkAnswer(s)' \/ (request'[s].pc = "sent" /\ request'[s].key # adminKey)
                 PROVE  Shows \/ Known
      BY DEF Shows, pageVars
    <3>1. Fades(s) /\ Free.kind # "config"
      BY DEF Outside, Free
    <3>2. CASE request'[s] = request[s]
      BY <3>2 DEF Shows, OkAnswer
    <3>3. CASE request'[s] # request[s]
      <4>1. Same(s) /\ request'[s].pc # "sent"
        BY <3>1, <3>3 DEF Fades
      <4>2. NewAnswer(s) /\ request[s].pc \in {"sent", "asking", "binding"}
        BY <3>1, <3>3, <4>1 DEF Fades, NewAnswer, OkAnswer
      <4>3. request[s].pc = "sent"
        <5>1. Wellformed(request[s]) /\ request[s].kind = "config"
          BY <4>1, ConfigStoreAssumption DEF Same, Requests
        <5> QED
          BY <4>2, <5>1 DEF Wellformed, updates
      <4>4. config.authKey \in {NoKey, request[s].key}
        BY <4>1, <4>2 DEF Outside, Truthful, Same
      <4> QED
        BY <4>1, <4>3, <4>4 DEF Known, Shows, Same
    <3> QED
      BY <3>2, <3>3
  <2> QED
    BY <1>2, <2>1, <2>2, <2>3 DEF Keyed, pageVars
<1>3. CASE \E s \in PageSlots : Owns(s)
  <2>1. PICK s \in PageSlots : Owns(s)
    BY <1>3
  <2>2. Truthful(s) /\ Same(s)
    BY <2>1, AnswersStay DEF Owns, Outside
  <2>3. \A t \in PageSlots : OkAnswer(t)' => TellsKey(t)'
    <3> SUFFICES ASSUME NEW t \in PageSlots, OkAnswer(t)' PROVE TellsKey(t)'
      OBVIOUS
    <3>1. CASE t = s
      BY <1>1, <2>1, <3>1 DEF Owns
    <3>2. CASE t # s
      <4>1. request[t].kind \notin keyChanges \cup {"login"}
        BY <2>1, <3>2 DEF Owns, AloneWithKey
      <4>2. request'[t].kind = request[t].kind
        BY AnswersStay DEF Same
      <4> QED
        BY <4>1, <4>2 DEF TellsKey, keyChanges
    <3> QED
      BY <3>1, <3>2
  <2>4. view = "dashboard" => Known'
    <3>1. request[s].kind # "setup" \/ view # "dashboard"
      BY <2>1 DEF Owns, Talks
    <3>2. request[s].kind = "regenerate" => Known'
      BY <2>1, <2>2 DEF Owns, NewAnswer, Truthful, Same, Known
    <3>3. request[s].kind = "clear" => Known'
      BY <2>2 DEF Truthful, Known
    <3> QED
      BY <2>1, <3>1, <3>2, <3>3 DEF Owns, keyChanges
  <2> QED
    BY <2>3, <2>4 DEF Keyed, pageVars
<1> QED
  BY <1>2, <1>3 DEF Outside

LEMMA OutsideSaves ==
  ASSUME Saves, Outside
  PROVE  Saves'
<1>1. ASSUME NEW s \in PageSlots
      PROVE  /\ request'[s].kind = "save" => /\ request[s].kind = "save"
                                             /\ request'[s].patch = request[s].patch
             /\ HasMoved(s)' => HasMoved(s) \/ "port" \in DOMAIN request[s].patch
  <2>1. Fades(s) /\ Free.kind # "save"
    BY DEF Outside, Free
  <2>2. CASE NewAnswer(s)
    BY <2>1, <2>2 DEF Outside, Truthful, Moves, Fades, Same, HasMoved
  <2>3. CASE ~NewAnswer(s)
    BY <2>1, <2>3, AnswersStay DEF Fades, Same, HasMoved
  <2> QED
    BY <2>2, <2>3
<1> QED
  BY <1>1 DEF Saves

LEMMA OutsideLocated ==
  ASSUME Saves, Located, Outside, UNCHANGED pageVars
  PROVE  Located'
<1> SUFFICES ASSUME "address" \notin news' PROVE Located'
  BY DEF Located
<1>1. "address" \notin news
  BY DEF Outside
<1>2. ASSUME NEW s \in PageSlots, NewAnswer(s), request'[s].answer.restart
      PROVE  /\ HasMoved(s)' /\ request'[s].answer.config.port = bound' /\ request'[s].before # bound'
             /\ request[s].kind = "save" /\ "port" \in DOMAIN request[s].patch /\ ~OkAnswer(s)
  BY <1>2, AnswersStay DEF Outside, Truthful, Moves, Same, HasMoved, NewAnswer
<1>3. CASE \E s \in PageSlots : NewAnswer(s) /\ request'[s].answer.restart
  <2>1. PICK s \in PageSlots : NewAnswer(s) /\ request'[s].answer.restart
    BY <1>3
  <2>2. ASSUME NEW t \in PageSlots, HasMoved(t)' PROVE t = s
    <3>1. CASE NewAnswer(t)
      <4>1. request[t].kind = "save" /\ "port" \in DOMAIN request[t].patch
        BY <1>2, <2>2, <3>1 DEF HasMoved
      <4> QED
        BY <1>2, <2>1, <4>1 DEF Saves
    <3>2. CASE ~NewAnswer(t)
      <4>1. HasMoved(t)
        BY <2>2, <3>2, AnswersStay DEF HasMoved
      <4> QED
        BY <1>2, <2>1, <4>1 DEF Saves, HasMoved
    <3> QED
      BY <3>1, <3>2
  <2> QED
    BY <1>2, <2>1, <2>2 DEF Located
<1>4. CASE bound' = bound /\ ~\E s \in PageSlots : NewAnswer(s) /\ request'[s].answer.restart
  <2>1. ASSUME NEW s \in PageSlots
        PROVE  /\ HasMoved(s)' <=> HasMoved(s)
               /\ HasMoved(s) => request'[s] = request[s]
    BY <1>4, AnswersStay DEF HasMoved, NewAnswer
  <2>2. ASSUME NEW s \in PageSlots, OkAnswer(s)', request'[s].kind = "status"
        PROVE  origin = bound \/ (OkAnswer(s) /\ request[s].kind = "status")
    <3>1. CASE NewAnswer(s)
      BY <2>2, <3>1, AnswersStay DEF Outside, Truthful, Same
    <3>2. CASE ~NewAnswer(s)
      BY <2>2, <3>2, AnswersStay
    <3> QED
      BY <3>1, <3>2
  <2> QED
    BY <1>1, <1>4, <2>1, <2>2 DEF Located, pageVars
<1> QED
  BY <1>3, <1>4 DEF Outside

LEMMA OutsidePage == ASSUME Requests, Page, Outside, UNCHANGED pageVars PROVE Page'
  BY OutsideTalks, OutsideKeyed, OutsideSaves, OutsideLocated DEF Page
-----------------------------------------------------------------------------
(* The server's steps, seen from the page. *)

LEMMA Answering ==
  ASSUME Requests, NEW s \in Slots, request[s].pc \in {"sent", "asking", "binding"},
         NEW status, NEW c, NEW key, Respond(s, status, c, key)
  PROVE  /\ \A t \in Slots \ {s} : request'[t] = request[t]
         /\ Fades(s)
         /\ NewAnswer(s) <=> status = "ok" /\ request[s].awaited
         /\ NewAnswer(s) =>
              /\ request'[s].answer.config # <<>> /\ request'[s].answer.config.port = c.port
              /\ request'[s].answer.key = key
              /\ request'[s].answer.restart = (request[s].pc = "binding")
<1> DEFINE shot == redactedSnapshot(c)
           answer == [status |-> status, config |-> shot, key |-> key,
                      restart |-> request[s].pc = "binding"]
<1>1. shot # <<>> /\ shot.port = c.port
  BY DEF redactedSnapshot
<1> HIDE DEF shot
<1>2. DOMAIN request = Slots /\ Wellformed(request[s])
  BY DEF Requests
<1>3. /\ request'[s] = WithAnswer(s, answer)
      /\ \A t \in Slots \ {s} : request'[t] = request[t]
  BY <1>2 DEF Respond, shot
<1>4. /\ answer.status = status /\ answer.config = shot /\ answer.key = key
      /\ answer.restart = (request[s].pc = "binding")
  OBVIOUS
<1> HIDE DEF answer
<1>5. ~OkAnswer(s)
  BY DEF OkAnswer
<1>6. CASE request[s].awaited
  <2>1. /\ request'[s].pc = "answered" /\ request'[s].answer = answer /\ Same(s)
    BY <1>2, <1>3, <1>6 DEF WithAnswer, Wellformed, Free, Same
  <2>2. Fades(s)
    BY <2>1 DEF Fades
  <2>3. NewAnswer(s) <=> status = "ok"
    BY <1>4, <1>5, <2>1 DEF NewAnswer, OkAnswer
  <2> QED
    BY <1>1, <1>3, <1>4, <1>6, <2>1, <2>2, <2>3
<1>7. CASE ~request[s].awaited
  <2>1. request'[s] = Free /\ Free.pc = "free"
    BY <1>3, <1>7 DEF WithAnswer, Free
  <2> QED
    BY <1>3, <1>7, <2>1 DEF Fades, NewAnswer, OkAnswer
<1> QED
  BY <1>6, <1>7

\* What neither changes the gateway's key nor moves it.
LEMMA PlainOutside ==
  ASSUME Requests, NEW s \in Slots, request[s].pc \in {"sent", "asking", "binding"},
         NEW status, NEW c, Respond(s, status, c, NoKey), c.port = config'.port,
         status = "ok" => /\ request[s].pc # "binding"
                          /\ request[s].kind \notin {"regenerate", "clear"}
                          /\ request[s].kind \in {"login", "config"} => Authorized(s)
                          /\ s \in PageSlots /\ request[s].kind = "status" => origin = bound,
         config'.authKey = config.authKey, UNCHANGED <<bound, news>>
  PROVE  Outside
<1>1. ASSUME NEW t \in PageSlots, t # s PROVE Fades(t) /\ ~NewAnswer(t)
  <2>1. request'[t] = request[t]
    BY <1>1, Answering, ConfigStoreAssumption
  <2> QED
    BY <2>1 DEF Fades, NewAnswer, OkAnswer
<1>2. Fades(s)
  BY Answering
<1>3. ASSUME s \in PageSlots, NewAnswer(s) PROVE Truthful(s)
  <2>1. /\ status = "ok"
        /\ request'[s].answer.config # <<>> /\ request'[s].answer.config.port = c.port
        /\ request'[s].answer.key = NoKey
        /\ request'[s].answer.restart = (request[s].pc = "binding")
    BY <1>3, Answering
  <2> QED
    BY <1>3, <2>1 DEF Truthful, Authorized
<1> QED
  BY <1>1, <1>2, <1>3 DEF Outside

\* What changes the configuration at once, and perhaps the key.
LEMMA KeyOutside ==
  ASSUME Requests, NEW s \in Slots, request[s].pc \in {"sent", "asking"},
         NEW c, NEW key, Respond(s, "ok", c, key), config' = c, news' = NewsOfKey(s, c),
         request[s].kind \in updates \cup keyChanges,
         request[s].kind = "regenerate" \/ (request[s].kind = "setup" /\ key # NoKey)
           => c.authKey = key,
         request[s].kind = "clear" => c.authKey = NoKey,
         UNCHANGED bound
  PROVE  Outside
<1>1. ASSUME NEW t \in PageSlots, t # s PROVE Fades(t) /\ ~NewAnswer(t)
  <2>1. request'[t] = request[t]
    BY <1>1, Answering, ConfigStoreAssumption
  <2> QED
    BY <2>1 DEF Fades, NewAnswer, OkAnswer
<1>2. Fades(s)
  BY Answering
<1>3. ASSUME s \in PageSlots, NewAnswer(s) PROVE Truthful(s)
  <2>1. /\ request'[s].answer.config # <<>> /\ request'[s].answer.config.port = c.port
        /\ request'[s].answer.key = key
        /\ request'[s].answer.restart = (request[s].pc = "binding")
    BY <1>3, Answering
  <2> QED
    BY <1>3, <2>1 DEF Truthful, updates, keyChanges
<1>4. CASE c.authKey = config.authKey
  BY <1>1, <1>2, <1>3, <1>4 DEF Outside, NewsOfKey
<1>5. CASE c.authKey # config.authKey
  <2>1. "address" \in news' <=> "address" \in news
    BY <1>5 DEF NewsOfKey
  <2>2. ASSUME "key" \notin news' PROVE s \in PageSlots /\ Owns(s)
    <3>1. /\ s \in PageSlots /\ request[s].awaited /\ request[s].kind \in keyChanges
          /\ AloneWithKey(s)
      BY <1>5, <2>2 DEF NewsOfKey
    <3>2. NewAnswer(s)
      BY <3>1, Answering
    <3> QED
      BY <3>1, <3>2 DEF Owns
  <2> QED
    BY <1>1, <1>2, <1>3, <2>1, <2>2 DEF Outside
<1> QED
  BY <1>4, <1>5

\* A request that waits, for a port or for Cursor.
LEMMA WaitOutside ==
  ASSUME Requests, NEW s \in Slots, request[s].pc = "sent", NEW r,
         request' = [request EXCEPT ![s] = r], r.pc \in {"asking", "binding"},
         r.kind = request[s].kind, r.key = request[s].key, r.patch = request[s].patch,
         r.before = request[s].before, r.awaited = request[s].awaited,
         "key" \notin news' => "key" \notin news /\ config'.authKey = config.authKey,
         "address" \in news' <=> "address" \in news, UNCHANGED bound
  PROVE  Outside
<1>1. ASSUME NEW t \in PageSlots PROVE Fades(t) /\ ~NewAnswer(t)
  <2>1. t = s => request'[t] = r
    BY DEF Requests
  <2>2. t # s => request'[t] = request[t]
    BY ConfigStoreAssumption DEF Requests
  <2> QED
    BY <2>1, <2>2 DEF Fades, Same, NewAnswer, OkAnswer
<1> QED
  BY <1>1 DEF Outside

LEMMA UpdateOutside ==
  ASSUME Requests, NEW s \in Slots, Update(s)
  PROVE  Outside
<1> DEFINE c == applyUpdate(config, request[s].patch)
<1>1. /\ request[s].pc = "sent" /\ request[s].kind \in updates
      /\ config' = c /\ news' = NewsOfKey(s, c) /\ bound' = bound
  BY DEF Update, Arrived
<1>2. CASE needsRebind(request[s].patch)
  <2> DEFINE r == [request[s] EXCEPT !.pc = "binding", !.previous = config.port]
  <2>1. request' = [request EXCEPT ![s].pc = "binding", ![s].previous = config.port]
    BY <1>2 DEF Update
  <2>2. request' = [request EXCEPT ![s] = r]
    BY <2>1 DEF Requests
  <2>3. /\ r.pc = "binding" /\ r.kind = request[s].kind /\ r.key = request[s].key
        /\ r.patch = request[s].patch /\ r.before = request[s].before
        /\ r.awaited = request[s].awaited
    BY DEF Requests, Wellformed, Free
  <2>4. /\ "key" \notin news' => "key" \notin news /\ config'.authKey = config.authKey
        /\ "address" \in news' <=> "address" \in news
    BY <1>1 DEF NewsOfKey, updates, keyChanges
  <2> HIDE DEF r
  <2> QED
    BY <1>1, <2>2, <2>3, <2>4, WaitOutside
<1>3. CASE ~needsRebind(request[s].patch)
  <2>1. Respond(s, "ok", c, NoKey)
    BY <1>3 DEF Update
  <2> HIDE DEF c
  <2> QED
    BY <1>1, <2>1, KeyOutside DEF updates
<1> QED
  BY <1>2, <1>3

LEMMA BindOkOutside ==
  ASSUME IInv, NEW s \in Slots, BindOk(s)
  PROVE  Outside
<1>1. /\ s \in binding /\ proc # "down" /\ bound' = request[s].patch.port
      /\ Respond(s, "ok", config, NoKey) /\ config' = config
      /\ news' = IF s \in PageSlots /\ request[s].awaited /\ request[s].kind = "save"
                    /\ request[s].before # bound' /\ ~overlapped
                 THEN news ELSE news \cup {"address"}
  BY DEF BindOk
<1>2. /\ Requests /\ request[s].pc = "binding" /\ request[s].kind \in updates
      /\ "port" \in DOMAIN request[s].patch
      /\ ~overlapped => config.port = bound'
  BY <1>1 DEF IInv, Requests, Wellformed, Rebinding, binding
<1>3. ASSUME NEW t \in PageSlots, t # s PROVE Fades(t) /\ ~NewAnswer(t)
  <2>1. request'[t] = request[t]
    BY <1>1, <1>2, <1>3, Answering, ConfigStoreAssumption
  <2> QED
    BY <2>1 DEF Fades, NewAnswer, OkAnswer
<1>4. Fades(s)
  BY <1>1, <1>2, Answering
<1>5. ASSUME s \in PageSlots, NewAnswer(s) PROVE Truthful(s)
  <2>1. /\ request'[s].answer.config # <<>> /\ request'[s].answer.config.port = config.port
        /\ request'[s].answer.restart = (request[s].pc = "binding")
    BY <1>1, <1>2, <1>5, Answering
  <2>2. Moves(s)
    BY <1>1, <1>2 DEF Moves
  <2> QED
    BY <1>1, <1>2, <2>1, <2>2 DEF Truthful, updates
<1>6. "address" \notin news' => s \in PageSlots /\ NewAnswer(s) /\ request'[s].answer.restart
  <2>1. "address" \notin news' => s \in PageSlots /\ request[s].awaited
    BY <1>1
  <2> QED
    BY <1>1, <1>2, <2>1, Answering
<1>7. ("key" \in news' <=> "key" \in news) /\ ("address" \notin news' => "address" \notin news)
  BY <1>1
<1> QED
  BY <1>1, <1>3, <1>4, <1>5, <1>6, <1>7 DEF Outside

LEMMA HandleOutside ==
  ASSUME IInv, NEW s \in Slots, Handle(s), Reaches(s)
  PROVE  Outside
<1>0. Requests /\ (request[s].pc = "asking" => request[s].kind = "setup")
  BY DEF IInv, Requests, Wellformed
<1>1. CASE Refuse(s) \/ Invalid(s)
  BY <1>0, <1>1, PlainOutside DEF Refuse, Invalid, Arrived, history
<1>2. CASE Read(s)
  BY <1>0, <1>2, PlainOutside DEF Read, Arrived, Reaches, history, open
<1>3. CASE Login(s)
  BY <1>0, <1>3, PlainOutside DEF Login, Arrived, history
<1>4. CASE Restart(s)
  BY <1>0, <1>4, PlainOutside DEF Restart, Arrived, history
<1>5. CASE Update(s)
  BY <1>0, <1>5, UpdateOutside
<1>6. CASE BindOk(s)
  BY <1>6, BindOkOutside
<1>7. CASE BindFails(s)
  <2> DEFINE c == config'
  <2>1. /\ request[s].pc = "binding" /\ Respond(s, "refused", c, NoKey)
        /\ config' = [config EXCEPT !.port = request[s].previous] /\ UNCHANGED <<bound, news>>
    BY <1>7 DEF BindFails, binding
  <2>2. config'.authKey = config.authKey
    BY <2>1 DEF IInv, Stored, Configuration, AppConfig
  <2>3. c.port = config'.port
    OBVIOUS
  <2> HIDE DEF c
  <2> QED
    BY <1>0, <2>1, <2>2, <2>3, PlainOutside
<1>8. CASE Regenerate(s) \/ Clear(s)
  <2>1. PICK key \in Keys \cup {NoKey} :
          LET c == [config EXCEPT !.authKey = key] IN
          /\ config' = c /\ news' = NewsOfKey(s, c) /\ Respond(s, "ok", c, key)
          /\ request[s].kind = "clear" => key = NoKey
    BY <1>8 DEF Regenerate, Clear, Arrived
  <2> DEFINE c == [config EXCEPT !.authKey = key]
  <2>2. c.authKey = key
    BY DEF IInv, Stored, Configuration, AppConfig
  <2>3. config' = c /\ news' = NewsOfKey(s, c) /\ Respond(s, "ok", c, key)
    BY <2>1
  <2>4. /\ request[s].pc = "sent" /\ request[s].kind \in keyChanges /\ bound' = bound
    BY <1>8 DEF Regenerate, Clear, Arrived, keyChanges
  <2> HIDE DEF c
  <2> QED
    BY <1>0, <2>1, <2>2, <2>3, <2>4, KeyOutside
<1>9. CASE Setup(s)
  <2>1. /\ request[s].pc = "sent" /\ request[s].kind = "setup"
        /\ UNCHANGED <<config, bound, news>>
    BY <1>9 DEF Setup, Arrived, history
  <2>2. CASE setupComplete /\ ~Authorized(s)
    BY <1>0, <1>9, <2>1, <2>2, PlainOutside DEF Setup
  <2>3. CASE ~(setupComplete /\ ~Authorized(s))
    <3> DEFINE r == [request[s] EXCEPT !.pc = "asking"]
    <3>1. request' = [request EXCEPT ![s] = r]
      BY <1>0, <1>9, <2>3 DEF Setup, Requests
    <3>2. /\ r.pc = "asking" /\ r.kind = request[s].kind /\ r.key = request[s].key
          /\ r.patch = request[s].patch /\ r.before = request[s].before
          /\ r.awaited = request[s].awaited
      BY <1>0 DEF Requests, Wellformed, Free
    <3> HIDE DEF r
    <3> QED
      BY <1>0, <2>1, <3>1, <3>2, WaitOutside
  <2> QED
    BY <2>2, <2>3
<1>10. CASE SetupVerified(s)
  <2> DEFINE mid == applyUpdate(config, request[s].patch)
  <2>1. PICK key \in Keys \cup {NoKey, config.authKey} :
          LET c == [mid EXCEPT !.authKey = key] IN
          /\ config' = c /\ news' = NewsOfKey(s, c)
          /\ Respond(s, "ok", c, IF config.authKey = NoKey THEN key ELSE NoKey)
    BY <1>10 DEF SetupVerified
  <2>2. request[s].pc = "asking" /\ request[s].kind = "setup" /\ bound' = bound
    BY <1>0, <1>10 DEF SetupVerified
  <2>3. Configuration(env, mid)
    BY <1>0, Applied DEF IInv, Requests, Wellformed
  <2> HIDE DEF mid
  <2> DEFINE c == [mid EXCEPT !.authKey = key]
             told == IF config.authKey = NoKey THEN key ELSE NoKey
  <2>4. c.authKey = key
    BY <2>3 DEF Configuration, AppConfig
  <2>5. config' = c /\ news' = NewsOfKey(s, c) /\ Respond(s, "ok", c, told)
    BY <2>1
  <2>6. told # NoKey => c.authKey = told
    BY <2>4
  <2> HIDE DEF c, told
  <2> QED
    BY <1>0, <2>2, <2>5, <2>6, KeyOutside DEF keyChanges
<1>11. CASE SetupRejected(s)
  BY <1>0, <1>11, PlainOutside DEF SetupRejected, history
<1> QED
  BY <1>1, <1>2, <1>3, <1>4, <1>5, <1>6, <1>7, <1>8, <1>9, <1>10, <1>11 DEF Handle

LEMMA LostOutside ==
  ASSUME Requests, NEW S \in SUBSET Slots,
         \A s \in S : request[s].pc \in {"sent", "asking", "binding"},
         request' = [s \in Slots |-> IF s \in S THEN WithAnswer(s, NetworkError) ELSE request[s]],
         UNCHANGED <<config, bound, news>>
  PROVE  Outside
<1>1. ASSUME NEW s \in PageSlots PROVE Fades(s) /\ ~NewAnswer(s)
  <2>1. s \in Slots /\ Wellformed(request[s])
    BY ConfigStoreAssumption DEF Requests
  <2>2. CASE s \notin S
    BY <2>1, <2>2 DEF Fades, NewAnswer, OkAnswer
  <2>3. CASE s \in S /\ request[s].awaited
    <3>1. /\ request'[s].pc = "answered" /\ request'[s].answer = NetworkError /\ Same(s)
      BY <2>1, <2>3 DEF WithAnswer, Wellformed, Free, Same
    <3>2. NetworkError.status # "ok"
      BY DEF NetworkError, NoAnswer
    <3> QED
      BY <2>3, <3>1, <3>2 DEF Fades, NewAnswer, OkAnswer
  <2>4. CASE s \in S /\ ~request[s].awaited
    <3>1. request'[s] = Free /\ Free.pc = "free"
      BY <2>1, <2>4 DEF WithAnswer, Free
    <3> QED
      BY <2>4, <3>1 DEF Fades, NewAnswer, OkAnswer
  <2> QED
    BY <2>2, <2>3, <2>4
<1> QED
  BY <1>1 DEF Outside

LEMMA ExitOutside ==
  ASSUME Requests, Exit
  PROVE  Outside
<1> DEFINE S == {s \in Slots : request[s].pc \notin {"free", "answered"}}
<1>1. request' = [s \in Slots |-> IF s \in S THEN WithAnswer(s, NetworkError) ELSE request[s]]
  BY DEF Exit, Lost
<1>2. S \in SUBSET Slots /\ \A s \in S : request[s].pc \in {"sent", "asking", "binding"}
  BY DEF Requests, Wellformed
<1>3. UNCHANGED <<config, bound, news>>
  BY DEF Exit, history
<1> QED
  BY <1>1, <1>2, <1>3, LostOutside
LEMMA UnreachableOutside ==
  ASSUME Requests, NEW s \in Slots, Unreachable(s)
  PROVE  Outside
<1> DEFINE S == {s}
<1>1. /\ request[s].pc = "sent" /\ request' = [request EXCEPT ![s] = WithAnswer(s, NetworkError)]
      /\ UNCHANGED <<config, bound, news>>
  BY DEF Unreachable, history
<1>2. request' = [t \in Slots |-> IF t \in S THEN WithAnswer(t, NetworkError) ELSE request[t]]
  BY <1>1 DEF Requests
<1>3. S \in SUBSET Slots /\ \A t \in S : request[t].pc \in {"sent", "asking", "binding"}
  BY <1>1
<1> HIDE DEF S
<1> QED
  BY <1>1, <1>2, <1>3, LostOutside

LEMMA BootOutside ==
  ASSUME Boot
  PROVE  Outside
<1>1. /\ news' = news \cup (IF config'.authKey = config.authKey THEN {} ELSE {"key"})
                      \cup (IF bound' = bound THEN {} ELSE {"address"})
      /\ request' = request
  BY DEF Boot
<1> QED
  BY <1>1 DEF Outside, Fades, NewAnswer, OkAnswer

\* The slots of the CLI are not the page's.
LEMMA ElsewhereOutside ==
  ASSUME \A s \in PageSlots : request'[s] = request[s], UNCHANGED <<config, bound, news>>
  PROVE  Outside
  BY DEF Outside, Fades, NewAnswer, OkAnswer

LEMMA CliOutside ==
  ASSUME Requests, Cli \/ \E s \in Slots : CliDone(s)
  PROVE  Outside /\ UNCHANGED pageVars
<1>1. UNCHANGED <<config, bound, news>> /\ UNCHANGED pageVars
  BY DEF Cli, CliDone, serverVars
<1>2. \E s \in Slots \ PageSlots : \E r : request' = [request EXCEPT ![s] = r]
  BY DEF Cli, CliDone, Send, Take
<1>3. \A s \in PageSlots : request'[s] = request[s]
  BY <1>2, ConfigStoreAssumption DEF Requests
<1> QED
  BY <1>1, <1>3, ElsewhereOutside

-----------------------------------------------------------------------------
(***************************************************************************)
(* The page's steps.  A slot is taken, or taken over; r is what is in it   *)
(* then.                                                                   *)
(***************************************************************************)
Put(s, r) ==
  /\ request[s].pc \in {"free", "answered"} /\ request' = [request EXCEPT ![s] = r]
  /\ r.pc \in {"free", "sent"}

\* The gateway stays as it is.
Still == UNCHANGED <<config, bound>> /\ ("address" \in news' <=> "address" \in news)

LEMMA PutSlots ==
  ASSUME Requests, NEW s \in PageSlots, NEW r, Put(s, r)
  PROVE  /\ request'[s] = r /\ ~OkAnswer(s)' /\ ~HasMoved(s)'
         /\ \A t \in PageSlots \ {s} : /\ request'[t] = request[t]
                                       /\ OkAnswer(t)' <=> OkAnswer(t)
                                       /\ HasMoved(t)' <=> HasMoved(t)
<1>1. request'[s] = r /\ \A t \in PageSlots \ {s} : request'[t] = request[t]
  BY ConfigStoreAssumption DEF Requests, Put
<1> QED
  BY <1>1 DEF Put, OkAnswer, HasMoved

\* The answer of a request is read, and bootDashboard() may be called.
LEMMA ReadTalks ==
  ASSUME Requests, Talks, NEW s \in PageSlots, request[s].pc = "answered", NEW r, Put(s, r),
         r.awaited => r.kind = "config" /\ view' = "dashboard",
         \/ view \in {"loading", "setup"} /\ shown' = shown
         \/ /\ view \in {"dashboard", "login"} /\ view' \in {"dashboard", "login"}
            /\ shown # <<>> => shown' # <<>>
            /\ \A t \in PageSlots \ {s} : request[t].awaited /\ request[t].kind = "login" =>
                 view' = "login" /\ typed' = typed
  PROVE  Talks'
<1>1. request[s].awaited
  BY ConfigStoreAssumption DEF Requests, Wellformed
<1>2. /\ request'[s] = r /\ ~OkAnswer(s)'
      /\ \A t \in PageSlots \ {s} : request'[t] = request[t] /\ (OkAnswer(t)' <=> OkAnswer(t))
  BY PutSlots
<1>3. CASE view \in {"loading", "setup"} /\ shown' = shown
  <2>1. \A t \in PageSlots \ {s} : ~request[t].awaited /\ ~OkAnswer(t)
    <3>1. \A t \in PageSlots \ {s} : ~request[t].awaited
      BY <1>1, <1>3 DEF Talks
    <3> QED
      BY <3>1, ConfigStoreAssumption DEF Requests, Wellformed, OkAnswer
  <2> QED
    BY <1>2, <1>3, <2>1 DEF Talks
<1>4. CASE /\ view \in {"dashboard", "login"} /\ view' \in {"dashboard", "login"}
           /\ shown # <<>> => shown' # <<>>
           /\ \A t \in PageSlots \ {s} : request[t].awaited /\ request[t].kind = "login" =>
                view' = "login" /\ typed' = typed
  <2>1. ASSUME NEW t \in PageSlots, request'[t].awaited
        PROVE  /\ request'[t].kind \notin {"status", "setup"}
               /\ request'[t].kind = "login" => /\ t # s /\ request[t] = request'[t]
                                                /\ view' = "login" /\ typed # NoKey
                                                /\ typed' = typed /\ request'[t].key = typed'
               /\ request'[t].kind \in {"save", "default", "import"} => shown' # <<>>
    <3>1. CASE t = s
      BY <1>2, <2>1, <3>1
    <3>2. CASE t # s
      BY <1>2, <1>4, <2>1, <3>2 DEF Talks
    <3> QED
      BY <3>1, <3>2
  <2>2. \A t \in PageSlots : OkAnswer(t)' => request'[t].answer.config # <<>>
    BY <1>2 DEF Talks
  <2>3. ASSUME NEW t \in PageSlots, NEW u \in PageSlots, request'[t].awaited, request'[u].awaited,
               request'[t].kind = "login", request'[u].kind = "login"
        PROVE  t = u
    BY <2>1, <2>3 DEF Talks
  <2> QED
    BY <1>4, <2>1, <2>2, <2>3 DEF Talks
<1> QED
  BY <1>3, <1>4

\* The answer says nothing of the key.
LEMMA ReadKeyed ==
  ASSUME Requests, Keyed, NEW s \in PageSlots, NEW r, Put(s, r), r.kind # "config",
         UNCHANGED <<config, adminKey>>, "key" \in news' <=> "key" \in news,
         view' # "dashboard" \/ view' = view,
         shown' # <<>> => Shows,
         OkAnswer(s) => request[s].kind # "regenerate"
  PROVE  Keyed'
<1>1. /\ request'[s] = r /\ ~OkAnswer(s)'
      /\ \A t \in PageSlots \ {s} : request'[t] = request[t] /\ (OkAnswer(t)' <=> OkAnswer(t))
  BY PutSlots
<1>2. \A t \in PageSlots : OkAnswer(t)' => request'[t] = request[t] /\ OkAnswer(t)
  BY <1>1
<1>3. Shows' => Shows
  BY <1>1 DEF Shows, OkAnswer
<1>4. Known => Known'
  BY <1>1 DEF Known
<1> QED
  BY <1>2, <1>3, <1>4 DEF Keyed, TellsKey

\* The page knows the key, or is about to ask for the configuration with it.
LEMMA NowKeyed ==
  ASSUME Requests, Keyed, NEW s \in PageSlots, NEW r, Put(s, r), config' = config,
         "key" \notin news' => \/ "key" \notin news
                               \/ \A t \in PageSlots : OkAnswer(t)' => TellsKey(t),
         "key" \notin news' => \/ config.authKey \in {NoKey, adminKey'}
                               \/ view' = "dashboard" => ~Shows'
  PROVE  Keyed'
<1>1. /\ request'[s] = r /\ ~OkAnswer(s)'
      /\ \A t \in PageSlots \ {s} : request'[t] = request[t] /\ (OkAnswer(t)' <=> OkAnswer(t))
  BY PutSlots
<1>2. \A t \in PageSlots : OkAnswer(t)' => request'[t] = request[t] /\ OkAnswer(t)
  BY <1>1
<1>3. "key" \notin news' => \A t \in PageSlots : OkAnswer(t)' => TellsKey(t)'
  BY <1>2 DEF Keyed, TellsKey
<1> QED
  BY <1>3 DEF Keyed, Known

LEMMA ReadSaves ==
  ASSUME Requests, Saves, NEW s \in PageSlots, NEW r, Put(s, r), r.kind # "save"
  PROVE  Saves'
<1>1. /\ request'[s] = r /\ ~HasMoved(s)'
      /\ \A t \in PageSlots \ {s} : request'[t] = request[t] /\ (HasMoved(t)' <=> HasMoved(t))
  BY PutSlots
<1> QED
  BY <1>1 DEF Saves

LEMMA ReadLocated ==
  ASSUME Requests, Located, Still, NEW s \in PageSlots, NEW r, Put(s, r), origin' = origin,
         IF HasMoved(s) THEN "address" \notin news => bound \in leaving' ELSE leaving' = leaving,
         view = "loading" => view' = "loading" \/ (OkAnswer(s) /\ request[s].kind = "status")
  PROVE  Located'
<1>1. /\ request'[s] = r /\ ~HasMoved(s)' /\ ~OkAnswer(s)'
      /\ \A t \in PageSlots \ {s} : /\ request'[t] = request[t] /\ (HasMoved(t)' <=> HasMoved(t))
                                    /\ OkAnswer(t)' <=> OkAnswer(t)
  BY PutSlots
<1> SUFFICES ASSUME "address" \notin news' PROVE Located'
  BY DEF Located
<1>2. "address" \notin news /\ bound' = bound
  BY DEF Still
<1>3. \A t \in PageSlots :
        HasMoved(t)' => request'[t].answer.config.port = bound' /\ request'[t].before # bound'
  BY <1>1, <1>2 DEF Located
<1>4. CASE HasMoved(s)
  BY <1>2, <1>3, <1>4 DEF Located
<1>5. CASE ~HasMoved(s)
  BY <1>1, <1>2, <1>3, <1>5 DEF Located
<1> QED
  BY <1>4, <1>5
LEMMA TakePut ==
  ASSUME NEW s, request[s].pc = "answered", Take(s)
  PROVE  Put(s, Free) /\ Free.kind = "none" /\ ~Free.awaited
  BY DEF Take, Put, Free

LEMMA BootPut ==
  ASSUME NEW s, request[s].pc \in {"free", "answered"}, NEW key, BootPage(s, key)
  PROVE  /\ view' = "dashboard"
         /\ \E r : Put(s, r) /\ r.kind = "config" /\ r.awaited /\ r.key = key
<1> DEFINE r == [Free EXCEPT !.pc = "sent", !.kind = "config", !.key = key, !.awaited = TRUE]
<1>1. r.pc = "sent" /\ r.kind = "config" /\ r.awaited /\ r.key = key
  BY DEF Free
<1>2. request' = [request EXCEPT ![s] = r] /\ view' = "dashboard"
  BY DEF BootPage
<1> HIDE DEF r
<1> QED
  BY <1>1, <1>2 DEF Put

\* Nothing waits but s: what the page asks for then, it asks with its key.
LEMMA AloneShows ==
  ASSUME Requests, NEW s \in PageSlots, NEW r, Put(s, r), shown' = <<>>,
         \A t \in PageSlots \ {s} : ~request[t].awaited, r.key = adminKey'
  PROVE  ~Shows'
<1>1. /\ request'[s] = r /\ ~OkAnswer(s)'
      /\ \A t \in PageSlots \ {s} : request'[t] = request[t]
  BY PutSlots
<1> QED
  BY <1>1 DEF Shows

LEMMA StatusPage ==
  ASSUME IInv, Page, NEW s \in PageSlots, StatusAnswered(s)
  PROVE  Page'
<1>1. /\ request[s].pc = "answered" /\ request[s].kind = "status"
      /\ UNCHANGED <<config, bound, news, adminKey, shown, typed, origin, leaving>>
  BY DEF StatusAnswered, Answered, serverVars
<1>2. request[s].awaited /\ view = "loading" /\ shown = <<>>
  BY <1>1, ConfigStoreAssumption DEF IInv, Requests, Wellformed, Page, Talks
<1>3. \A t \in PageSlots \ {s} : ~request[t].awaited
  BY <1>2 DEF Page, Talks
<1>4. CASE Take(s) /\ view' \in {"setup", "login", "loading"} /\ (view' = "loading" \/ Ok(s))
  <2>1. Put(s, Free) /\ Free.kind = "none" /\ ~Free.awaited
    BY <1>1, <1>4, TakePut
  <2>2. Talks'
    BY <1>1, <1>2, <2>1, ReadTalks DEF IInv, Page
  <2>3. Keyed'
    BY <1>1, <1>4, <2>1, NowKeyed DEF IInv, Page
  <2>4. Saves'
    BY <2>1, ReadSaves DEF IInv, Page
  <2>5. Located'
    BY <1>1, <1>4, <2>1, ReadLocated DEF IInv, Page, Still, HasMoved, OkAnswer, Ok
  <2> QED
    BY <2>2, <2>3, <2>4, <2>5 DEF Page
<1>5. CASE BootPage(s, adminKey) /\ Ok(s)
  <2>1. PICK r : Put(s, r) /\ r.kind = "config" /\ r.awaited /\ r.key = adminKey
    BY <1>1, <1>5, BootPut
  <2>2. view' = "dashboard"
    BY <1>1, <1>5, BootPut
  <2>3. Talks'
    BY <1>1, <1>2, <2>1, <2>2, ReadTalks DEF IInv, Page
  <2>4. ~Shows'
    BY <1>1, <1>2, <1>3, <2>1, AloneShows DEF IInv
  <2>5. Keyed'
    BY <1>1, <2>1, <2>4, NowKeyed DEF IInv, Page
  <2>6. Saves'
    BY <2>1, ReadSaves DEF IInv, Page
  <2>7. Located'
    BY <1>1, <1>5, <2>1, ReadLocated DEF IInv, Page, Still, HasMoved, OkAnswer, Ok
  <2> QED
    BY <2>3, <2>5, <2>6, <2>7 DEF Page
<1> QED
  BY <1>2, <1>4, <1>5 DEF StatusAnswered

LEMMA ConfigPage ==
  ASSUME IInv, Page, NEW s \in PageSlots, ConfigAnswered(s)
  PROVE  Page'
<1>1. /\ request[s].pc = "answered" /\ request[s].kind = "config" /\ Take(s)
      /\ UNCHANGED <<config, bound, typed, origin, leaving>>
      /\ shown' = IF Ok(s) THEN request[s].answer.config ELSE shown
      /\ news' = IF Ok(s) /\ AloneWithKey(s) /\ config.authKey \in {NoKey, adminKey}
                 THEN news \ {"key"} ELSE news
  BY DEF ConfigAnswered, Answered
<1>2. \/ ~Ok(s) /\ adminKey' = NoKey /\ view' = "login"
      \/ UNCHANGED <<adminKey, view>>
  BY DEF ConfigAnswered, Ok
<1>3. /\ request[s].awaited /\ view \in {"dashboard", "login"}
      /\ shown # <<>> => shown' # <<>>
  BY <1>1, ConfigStoreAssumption DEF IInv, Requests, Wellformed, Page, Talks, Ok, OkAnswer
<1>4. Put(s, Free) /\ Free.kind = "none" /\ ~Free.awaited
  BY <1>1, TakePut
<1>5. Talks'
  <2>1. \A t \in PageSlots \ {s} : request[t].awaited /\ request[t].kind = "login" =>
          view' = "login" /\ typed' = typed
    BY <1>1, <1>2 DEF Page, Talks
  <2> QED
    BY <1>1, <1>2, <1>3, <1>4, <2>1, ReadTalks DEF IInv, Page
<1>6. Keyed'
  <2>1. CASE ~Ok(s) /\ view' = "login"
    BY <1>1, <1>4, <2>1, NowKeyed DEF IInv, Page
  <2>2. CASE UNCHANGED <<adminKey, view, news>>
    <3>1. shown' # <<>> => Shows
      BY <1>1, <1>3 DEF Shows, OkAnswer, Ok
    <3> QED
      BY <1>1, <1>4, <2>2, <3>1, ReadKeyed DEF IInv, Page
  <2>3. CASE /\ UNCHANGED <<adminKey, view>> /\ AloneWithKey(s)
             /\ config.authKey \in {NoKey, adminKey}
    <3>1. \A t \in PageSlots : OkAnswer(t)' => TellsKey(t)
      <4> SUFFICES ASSUME NEW t \in PageSlots, OkAnswer(t)' PROVE TellsKey(t)
        OBVIOUS
      <4>1. t # s
        BY <1>4, PutSlots DEF IInv
      <4> QED
        BY <2>3, <4>1 DEF AloneWithKey, keyChanges, TellsKey
    <3> QED
      BY <1>1, <1>4, <2>3, <3>1, NowKeyed DEF IInv, Page
  <2> QED
    BY <1>1, <1>2, <2>1, <2>2, <2>3
<1>7. Saves'
  BY <1>4, ReadSaves DEF IInv, Page
<1>8. Located'
  BY <1>1, <1>2, <1>3, <1>4, ReadLocated DEF IInv, Page, Still, HasMoved
<1> QED
  BY <1>5, <1>6, <1>7, <1>8 DEF Page

LEMMA SetupPage ==
  ASSUME IInv, Page, NEW s \in PageSlots, SetupAnswered(s)
  PROVE  Page'
<1>1. /\ request[s].pc = "answered" /\ request[s].kind = "setup" /\ Take(s)
      /\ view' \in {"done", view}
      /\ UNCHANGED <<config, bound, news, shown, typed, origin, leaving>>
  BY DEF SetupAnswered, Answered, serverVars
<1>2. request[s].awaited /\ view = "setup" /\ shown = <<>>
  BY <1>1, ConfigStoreAssumption DEF IInv, Requests, Wellformed, Page, Talks
<1>3. Put(s, Free) /\ Free.kind = "none" /\ ~Free.awaited
  BY <1>1, TakePut
<1>4. Talks'
  BY <1>1, <1>2, <1>3, ReadTalks DEF IInv, Page
<1>5. Keyed'
  BY <1>1, <1>2, <1>3, NowKeyed DEF IInv, Page
<1>6. Saves'
  BY <1>3, ReadSaves DEF IInv, Page
<1>7. Located'
  BY <1>1, <1>2, <1>3, ReadLocated DEF IInv, Page, Still, HasMoved
<1> QED
  BY <1>4, <1>5, <1>6, <1>7 DEF Page

\* Nothing is under way on the wizard's last page.
LEMMA GotoPage ==
  ASSUME IInv, Page, GotoDashboard
  PROVE  Page'
<1>1. /\ view = "done" /\ shown = <<>>
      /\ UNCHANGED <<config, bound, news, adminKey, shown, typed, origin, leaving>>
  BY DEF GotoDashboard, serverVars, Page, Talks
<1>2. PICK s \in PageSlots : request[s].pc = "free" /\ BootPage(s, adminKey)
  BY DEF GotoDashboard, FreeSlots
<1>3. PICK r : Put(s, r) /\ r.kind = "config" /\ r.awaited /\ r.key = adminKey
  BY <1>2, BootPut
<1>4. view' = "dashboard"
  BY <1>2, BootPut
<1>5. \A t \in PageSlots : ~request[t].awaited /\ ~OkAnswer(t)
  <2>1. \A t \in PageSlots : ~request[t].awaited
    BY <1>1 DEF Page, Talks
  <2> QED
    BY <2>1, ConfigStoreAssumption DEF IInv, Requests, Wellformed, OkAnswer
<1>6. /\ request'[s] = r /\ ~OkAnswer(s)'
      /\ \A t \in PageSlots \ {s} : request'[t] = request[t] /\ (OkAnswer(t)' <=> OkAnswer(t))
  BY <1>3, PutSlots DEF IInv
<1>7. Talks'
  BY <1>1, <1>3, <1>4, <1>5, <1>6 DEF Talks
<1>8. ~Shows'
  BY <1>1, <1>3, <1>5, AloneShows DEF IInv
<1>9. Keyed'
  BY <1>1, <1>3, <1>8, NowKeyed DEF IInv, Page
<1>10. Saves'
  BY <1>3, ReadSaves DEF IInv, Page
<1>11. Located'
  BY <1>1, <1>3, <1>5, ReadLocated DEF IInv, Page, Still, HasMoved
<1> QED
  BY <1>7, <1>9, <1>10, <1>11 DEF Page

LEMMA LoginPage ==
  ASSUME IInv, Page, NEW s \in PageSlots, LoginAnswered(s)
  PROVE  Page'
<1>1. /\ request[s].pc = "answered" /\ request[s].kind = "login" /\ typed' = NoKey
      /\ UNCHANGED <<config, bound, news, shown, origin, leaving>>
  BY DEF LoginAnswered, Answered, serverVars
<1>2. request[s].awaited /\ view = "login" /\ request[s].key = typed
  BY <1>1, ConfigStoreAssumption DEF IInv, Requests, Wellformed, Page, Talks
<1>3. \A t \in PageSlots \ {s} : ~(request[t].awaited /\ request[t].kind = "login")
  BY <1>1, <1>2 DEF Page, Talks
<1>4. CASE Take(s) /\ UNCHANGED <<view, adminKey>>
  <2>1. Put(s, Free) /\ Free.kind = "none" /\ ~Free.awaited
    BY <1>1, <1>4, TakePut
  <2>2. Talks'
    BY <1>1, <1>2, <1>3, <1>4, <2>1, ReadTalks DEF IInv, Page
  <2>3. Keyed'
    BY <1>1, <1>2, <1>4, <2>1, NowKeyed DEF IInv, Page
  <2>4. Saves'
    BY <2>1, ReadSaves DEF IInv, Page
  <2>5. Located'
    BY <1>1, <1>2, <2>1, ReadLocated DEF IInv, Page, Still, HasMoved
  <2> QED
    BY <2>2, <2>3, <2>4, <2>5 DEF Page
<1>5. CASE BootPage(s, typed) /\ Ok(s) /\ adminKey' = typed
  <2>1. PICK r : Put(s, r) /\ r.kind = "config" /\ r.awaited /\ r.key = typed
    BY <1>1, <1>5, BootPut
  <2>2. view' = "dashboard"
    BY <1>1, <1>5, BootPut
  <2>3. Talks'
    BY <1>1, <1>2, <1>3, <2>1, <2>2, ReadTalks DEF IInv, Page
  <2>4. "key" \notin news => config.authKey \in {NoKey, adminKey'}
    BY <1>1, <1>2, <1>5 DEF Page, Keyed, TellsKey, OkAnswer, Ok
  <2>5. Keyed'
    BY <1>1, <2>1, <2>4, NowKeyed DEF IInv, Page
  <2>6. Saves'
    BY <2>1, ReadSaves DEF IInv, Page
  <2>7. Located'
    BY <1>1, <1>2, <2>1, ReadLocated DEF IInv, Page, Still, HasMoved
  <2> QED
    BY <2>3, <2>5, <2>6, <2>7 DEF Page
<1> QED
  BY <1>4, <1>5 DEF LoginAnswered

\* The answers that leave the view and what was typed.
LEMMA DashboardReads ==
  ASSUME IInv, Page, NEW s \in PageSlots, Take(s), request[s].pc = "answered",
         request[s].kind \notin {"status", "setup", "login"},
         UNCHANGED <<config, bound, news, view, typed, origin>>,
         shown # <<>> => shown' # <<>>,
         IF HasMoved(s) THEN "address" \notin news => bound \in leaving' ELSE leaving' = leaving
  PROVE  Talks' /\ Saves' /\ Located' /\ Put(s, Free) /\ Free.kind = "none"
<1>1. request[s].awaited /\ view \in {"dashboard", "login"}
  BY ConfigStoreAssumption DEF IInv, Requests, Wellformed, Page, Talks
<1>2. Put(s, Free) /\ Free.kind = "none" /\ ~Free.awaited
  BY TakePut
<1>3. \A t \in PageSlots : request[t].awaited /\ request[t].kind = "login" => view = "login"
  BY DEF Page, Talks
<1>4. Talks'
  BY <1>1, <1>2, <1>3, ReadTalks DEF IInv, Page
<1>5. Saves'
  BY <1>2, ReadSaves DEF IInv, Page
<1>6. Located'
  BY <1>1, <1>2, ReadLocated DEF IInv, Page, Still
<1> QED
  BY <1>2, <1>4, <1>5, <1>6

LEMMA UpdatePage ==
  ASSUME IInv, Page, NEW s \in PageSlots, SaveAnswered(s) \/ UpdateAnswered(s) \/ RestartAnswered(s)
  PROVE  Page'
<1>1. /\ request[s].pc = "answered" /\ Take(s)
      /\ request[s].kind \in {"save", "default", "import", "restart"}
      /\ UNCHANGED <<config, bound, news, view, adminKey, typed, origin>>
  BY DEF SaveAnswered, UpdateAnswered, RestartAnswered, Answered, serverVars, pageVars
<1>2. \/ shown' = shown
      \/ request[s].kind # "restart" /\ OkAnswer(s) /\ shown' = request[s].answer.config
  BY <1>1 DEF SaveAnswered, UpdateAnswered, RestartAnswered, Answered, pageVars, Ok, OkAnswer
<1>3. shown' # <<>> <=> shown # <<>>
  <2>1. request[s].awaited
    BY <1>1, ConfigStoreAssumption DEF IInv, Requests, Wellformed
  <2> QED
    BY <1>1, <1>2, <2>1 DEF Page, Talks
<1>4. IF HasMoved(s) THEN "address" \notin news => bound \in leaving' ELSE leaving' = leaving
  BY <1>1 DEF SaveAnswered, UpdateAnswered, RestartAnswered, Answered, pageVars, Ok, OkAnswer,
              HasMoved, Page, Located
<1>5. Talks' /\ Saves' /\ Located' /\ Put(s, Free) /\ Free.kind = "none"
  BY <1>1, <1>3, <1>4, DashboardReads
<1>6. Keyed'
  BY <1>1, <1>3, <1>5, ReadKeyed DEF IInv, Page, Shows
<1> QED
  BY <1>5, <1>6 DEF Page

LEMMA KeyPage ==
  ASSUME IInv, Page, NEW s \in PageSlots, RegenerateAnswered(s) \/ ClearAnswered(s)
  PROVE  Page'
<1>1. /\ request[s].pc = "answered" /\ Take(s) /\ request[s].kind \in {"regenerate", "clear"}
      /\ UNCHANGED <<config, bound, news, view, shown, typed, origin, leaving>>
  BY DEF RegenerateAnswered, ClearAnswered, Answered, serverVars
<1>2. ~HasMoved(s)
  BY <1>1 DEF HasMoved
<1>3. Talks' /\ Saves' /\ Located' /\ Put(s, Free) /\ Free.kind = "none"
  BY <1>1, <1>2, DashboardReads
<1>4. CASE OkAnswer(s)
  <2>1. "key" \notin news => config.authKey \in {NoKey, adminKey'}
    BY <1>1, <1>4 DEF RegenerateAnswered, ClearAnswered, Answered, Ok, OkAnswer,
                      Page, Keyed, TellsKey
  <2>2. Keyed'
    BY <1>1, <1>3, <2>1, NowKeyed DEF IInv, Page
  <2> QED
    BY <1>3, <2>2 DEF Page
<1>5. CASE ~OkAnswer(s)
  <2>1. adminKey' = adminKey
    BY <1>1, <1>5 DEF RegenerateAnswered, ClearAnswered, Ok, OkAnswer
  <2>2. Keyed'
    BY <1>1, <1>3, <1>5, <2>1, ReadKeyed DEF IInv, Page, Shows
  <2> QED
    BY <1>3, <2>2 DEF Page
<1> QED
  BY <1>4, <1>5

LEMMA AnswerPage ==
  ASSUME IInv, Page, NEW s \in PageSlots, Answer(s)
  PROVE  Page'
  BY StatusPage, ConfigPage, SetupPage, LoginPage, UpdatePage, KeyPage DEF Answer
LEMMA SendPage ==
  ASSUME IInv, Page, NEW s \in FreeSlots, NEW r, request' = [request EXCEPT ![s] = r],
         r.pc = "sent",
         r.kind \in {"setup", "login", "save", "default", "import", "regenerate", "clear", "restart"},
         UNCHANGED <<config, bound, news, view, adminKey, shown, origin, leaving>>,
         \/ r.kind = "setup" /\ view = "setup" /\ Idle /\ typed' = typed
         \/ r.kind = "login" /\ view = "login" /\ typed = NoKey /\ typed' = r.key /\ r.key # NoKey
         \/ r.kind \notin {"setup", "login"} /\ view = "dashboard" /\ typed' = typed,
         r.kind \in {"save", "default", "import"} => shown # <<>>,
         r.kind = "save" =>
           /\ "port" \in DOMAIN r.patch => DOMAIN r.patch = {"port"}
           /\ \A t \in PageSlots : request[t].kind = "save" => DOMAIN request[t].patch # DOMAIN r.patch
  PROVE  Page'
<1>1. s \in PageSlots /\ request[s].pc = "free" /\ Put(s, r)
  BY DEF FreeSlots, Put
<1>2. /\ request'[s] = r /\ ~OkAnswer(s)' /\ ~HasMoved(s)'
      /\ \A t \in PageSlots \ {s} : /\ request'[t] = request[t] /\ (OkAnswer(t)' <=> OkAnswer(t))
                                    /\ HasMoved(t)' <=> HasMoved(t)
  BY <1>1, PutSlots DEF IInv
<1>3. ~OkAnswer(s) /\ ~HasMoved(s)
  BY <1>1 DEF OkAnswer, HasMoved
<1>4. Keyed'
  BY <1>1, <1>3, ReadKeyed DEF IInv, Page, Shows
<1>5. Located'
  BY <1>1, <1>3, ReadLocated DEF IInv, Page, Still
<1>6. Saves'
  BY <1>2 DEF Page, Saves
<1>7. Talks'
  <2>1. CASE r.kind = "setup" /\ view = "setup" /\ Idle /\ typed' = typed
    <3>1. \A t \in PageSlots \ {s} : ~request'[t].awaited /\ ~OkAnswer(t)'
      BY <1>2, <2>1, ConfigStoreAssumption DEF Idle, IInv, Requests, Wellformed, Free, OkAnswer
    <3> QED
      BY <1>2, <2>1, <3>1 DEF Page, Talks
  <2>2. CASE r.kind = "login" /\ view = "login" /\ typed = NoKey /\ typed' = r.key /\ r.key # NoKey
    <3>1. \A t \in PageSlots \ {s} : ~(request'[t].awaited /\ request'[t].kind = "login")
      BY <1>2, <2>2 DEF Page, Talks
    <3> QED
      BY <1>2, <2>2, <3>1 DEF Page, Talks
  <2>3. CASE r.kind \notin {"setup", "login"} /\ view = "dashboard" /\ typed' = typed
    BY <1>2, <2>3 DEF Page, Talks
  <2> QED
    BY <2>1, <2>2, <2>3
<1> QED
  BY <1>4, <1>5, <1>6, <1>7 DEF Page

LEMMA CallPage ==
  ASSUME IInv, Page, NEW kind, NEW key, NEW patch, Call(kind, key, patch),
         kind \in {"setup", "login", "default", "import", "regenerate", "clear", "restart"},
         UNCHANGED <<config, bound, news, view, adminKey, shown, origin, leaving>>,
         \/ kind = "setup" /\ view = "setup" /\ Idle /\ typed' = typed
         \/ kind = "login" /\ view = "login" /\ typed = NoKey /\ typed' = key /\ key # NoKey
         \/ kind \notin {"setup", "login"} /\ view = "dashboard" /\ typed' = typed,
         kind \in {"default", "import"} => shown # <<>>
  PROVE  Page'
<1>1. PICK s \in FreeSlots : Send(s, kind, key, patch)
  BY DEF Call
<1> DEFINE r == [Free EXCEPT !.pc = "sent", !.kind = kind, !.key = key, !.patch = patch,
                             !.awaited = TRUE]
<1>2. r.pc = "sent" /\ r.kind = kind /\ r.key = key
  BY DEF Free
<1>3. request' = [request EXCEPT ![s] = r]
  BY <1>1 DEF Send
<1> HIDE DEF r
<1> QED
  BY <1>2, <1>3, SendPage

LEMMA SavePage ==
  ASSUME IInv, Page, Save
  PROVE  Page'
<1>1. PICK patch \in sections, s \in FreeSlots :
        /\ \A t \in PageSlots : request[t].kind = "save" => DOMAIN request[t].patch # DOMAIN patch
        /\ request' = [request EXCEPT ![s] =
             [Free EXCEPT !.pc = "sent", !.kind = "save", !.key = adminKey, !.patch = patch,
                          !.before = shown.port, !.awaited = TRUE]]
  BY DEF Save
<1>2. /\ view = "dashboard" /\ shown # <<>> /\ typed' = typed
      /\ UNCHANGED <<config, bound, news, view, adminKey, shown, origin, leaving>>
  BY DEF Save, Ready, serverVars, pageVars
<1>3. "port" \in DOMAIN patch => DOMAIN patch = {"port"}
  BY DEF sections
<1> DEFINE r == [Free EXCEPT !.pc = "sent", !.kind = "save", !.key = adminKey, !.patch = patch,
                             !.before = shown.port, !.awaited = TRUE]
<1>4. r.pc = "sent" /\ r.kind = "save" /\ r.patch = patch
  BY DEF Free
<1>5. request' = [request EXCEPT ![s] = r]
  BY <1>1
<1> HIDE DEF r
<1> QED
  BY <1>1, <1>2, <1>3, <1>4, <1>5, SendPage

LEMMA LogoutPage ==
  ASSUME Page, Logout
  PROVE  Page'
<1>1. /\ view = "dashboard" /\ view' = "login"
      /\ UNCHANGED <<config, bound, news, request, shown, typed, origin, leaving>>
  BY DEF Logout, serverVars
<1>2. \A s \in PageSlots : /\ OkAnswer(s)' <=> OkAnswer(s)
                           /\ HasMoved(s)' <=> HasMoved(s)
                           /\ TellsKey(s)' <=> TellsKey(s)
  BY <1>1 DEF OkAnswer, HasMoved, TellsKey
<1>3. Talks'
  BY <1>1, <1>2 DEF Page, Talks
<1>4. Keyed' /\ Saves' /\ Located'
  BY <1>1, <1>2 DEF Page, Keyed, Saves, Located
<1> QED
  BY <1>3, <1>4 DEF Page

\* The answers of the page before are nobody's.
LEMMA LoadPage ==
  ASSUME IInv, Page, NEW port, Load(port)
  PROVE  Page'
<1>1. PICK s \in PageSlots :
        /\ origin' = port /\ leaving' = {} /\ view' = "loading" /\ shown' = <<>>
        /\ Reloaded(s) /\ UNCHANGED <<config, bound>>
  BY DEF Load, Reloaded
<1>2. "key" \in news' <=> "key" \in news
  BY DEF Load
<1>3. /\ request'[s].pc = "sent" /\ request'[s].kind = "status"
  BY <1>1, ConfigStoreAssumption DEF Reloaded, Free
<1>4. ASSUME NEW t \in PageSlots \ {s}
      PROVE  /\ ~request'[t].awaited /\ request'[t].pc # "answered"
             /\ request'[t].kind = "save" => /\ request[t].kind = "save"
                                             /\ request'[t].patch = request[t].patch
  <2>1. t \in Slots /\ Wellformed(request[t]) /\ ~Free.awaited /\ Free.pc = "free"
        /\ Free.kind = "none"
    BY ConfigStoreAssumption DEF IInv, Requests, Free
  <2>2. CASE request[t].pc \in {"free", "answered"}
    BY <1>1, <2>1, <2>2 DEF Reloaded, Wellformed
  <2>3. CASE request[t].pc \notin {"free", "answered"}
    <3>1. request'[t] = [request[t] EXCEPT !.awaited = FALSE]
      BY <1>1, <2>1, <2>3 DEF Reloaded
    <3> QED
      BY <2>1, <2>3, <3>1 DEF Wellformed, Free
  <2> QED
    BY <2>2, <2>3
<1>5. \A t \in PageSlots : ~OkAnswer(t)' /\ ~HasMoved(t)'
  BY <1>3, <1>4 DEF OkAnswer, HasMoved
<1>6. Talks'
  BY <1>1, <1>3, <1>4, <1>5 DEF Talks
<1>7. Keyed' /\ Located'
  BY <1>1, <1>5 DEF Keyed, Located
<1>8. Saves'
  BY <1>3, <1>4, <1>5 DEF Page, Saves
<1> QED
  BY <1>6, <1>7, <1>8 DEF Page

LEMMA UserPage ==
  ASSUME IInv, Page, UserActs
  PROVE  Page'
<1>1. CASE Open \/ Reload
  BY <1>1, LoadPage DEF Open, Reload
<1>2. CASE FinishSetup
  BY <1>2, CallPage DEF FinishSetup, serverVars, pageVars
<1>3. CASE SubmitLogin
  <2>1. PICK key \in Keys : typed' = key /\ Call("login", key, NoPatch)
    BY <1>3 DEF SubmitLogin
  <2>2. key # NoKey
    BY ConfigStoreAssumption DEF Values
  <2> QED
    BY <1>3, <2>1, <2>2, CallPage DEF SubmitLogin, serverVars
<1>4. CASE Logout
  BY <1>4, LogoutPage
<1>5. CASE Save
  BY <1>5, SavePage
<1>6. CASE SetDefaultModel \/ Import
  BY <1>6, CallPage DEF SetDefaultModel, Import, Ready, serverVars, pageVars
<1>7. CASE RegenerateKey \/ ClearKey \/ RestartGateway
  BY <1>7, CallPage DEF RegenerateKey, ClearKey, RestartGateway, Ready, serverVars, pageVars
<1> QED
  BY <1>1, <1>2, <1>3, <1>4, <1>5, <1>6, <1>7 DEF UserActs

-----------------------------------------------------------------------------
LEMMA InitPage == ControlInit => Page
<1> SUFFICES ASSUME ControlInit PROVE Page
  OBVIOUS
<1>1. /\ request = [s \in Slots |-> Free] /\ news = {} /\ view = "loading" /\ shown = <<>>
      /\ origin = env.port /\ bound = env.port
  BY DEF ControlInit, StoreInit, DashboardInit
<1>2. ASSUME NEW s \in PageSlots
      PROVE  /\ ~request[s].awaited /\ request[s].kind = "none"
             /\ ~OkAnswer(s) /\ ~HasMoved(s)
  BY <1>1, ConfigStoreAssumption DEF Free, OkAnswer, HasMoved
<1>3. Talks /\ Saves
  BY <1>1, <1>2 DEF Talks, Saves
<1>4. Keyed /\ Located
  BY <1>1, <1>2 DEF Keyed, Located
<1> QED
  BY <1>3, <1>4 DEF Page

LEMMA StepPage == IInv /\ Page /\ [ControlNext]_controlVars => Page'
<1> SUFFICES ASSUME IInv, Page, [ControlNext]_controlVars PROVE Page'
  OBVIOUS
<1>0. Requests
  BY DEF IInv
<1>1. CASE Terminate /\ UNCHANGED pageVars
  BY <1>0, <1>1, ElsewhereOutside, OutsidePage DEF Terminate, history
<1>2. CASE UNCHANGED controlVars
  BY <1>0, <1>2, ElsewhereOutside, OutsidePage DEF controlVars, storeVars
<1>3. CASE UserActs
  BY <1>3, UserPage
<1>4. CASE Cli \/ \E s \in Slots : CliDone(s)
  BY <1>0, <1>4, CliOutside, OutsidePage
<1>5. CASE Exit /\ UNCHANGED pageVars
  BY <1>0, <1>5, ExitOutside, OutsidePage
<1>6. CASE \E s \in Slots : Reaches(s) /\ Handle(s) /\ UNCHANGED pageVars
  BY <1>0, <1>6, HandleOutside, OutsidePage
<1>7. CASE \E s \in Slots : Fails(s) /\ UNCHANGED pageVars
  BY <1>0, <1>7, UnreachableOutside, OutsidePage DEF Fails
<1>8. CASE \E s \in PageSlots : Answer(s)
  BY <1>8, AnswerPage
<1>9. CASE Navigate
  BY <1>9, LoadPage DEF Navigate
<1>10. CASE Boot /\ UNCHANGED pageVars
  BY <1>0, <1>10, BootOutside, OutsidePage
<1>11. CASE GotoDashboard
  BY <1>11, GotoPage
<1> QED
  BY <1>1, <1>2, <1>3, <1>4, <1>5, <1>6, <1>7, <1>8, <1>9, <1>10, <1>11 DEF ControlNext

LEMMA PageInvariance == ControlSpec => []Page
  BY InitPage, StepPage, Invariance, PTL DEF ControlSpec

\* A dashboard that waits for nothing has the key that the gateway wants, or
\* the key was changed from elsewhere: whatever answers of its own
\* requests came late, failed, were lost in a crash, or were left behind by a
\* reload.
THEOREM PageHasTheKey == ControlSpec => []PageKeyAgrees
<1>1. IInv /\ Page => PageKeyAgrees
  BY ConfigStoreAssumption
     DEF IInv, Page, Keyed, Shows, Known, PageKeyAgrees, Settled, Idle, OkAnswer
<1> QED
  BY <1>1, Invariance, PageInvariance, PTL

\* It is where the gateway listens, or on its way there, or the port was
\* changed by another way than its own form.
THEOREM PageIsAtTheGateway == ControlSpec => []PageFindsGateway
<1>1. IInv /\ Page => PageFindsGateway
  <2> SUFFICES ASSUME IInv, Page, Settled, "address" \notin news, leaving = {}
               PROVE  origin = bound
    BY DEF PageFindsGateway
  <2>1. \A s \in PageSlots : ~HasMoved(s)
    BY DEF Settled, Idle, HasMoved, OkAnswer
  <2>2. view # "loading" /\ bound # 0
    BY ConfigStoreAssumption DEF Settled, IInv, Stored
  <2> QED
    BY <2>1, <2>2 DEF Page, Located
<1> QED
  BY <1>1, Invariance, PageInvariance, PTL
=============================================================================
