------------------------------- MODULE Photoshop -------------------------------
(* The Photoshop integration: sessions and commands (photoshop/integration.rs),    *)
(* the gateway that serves the plugin (gateway.rs) and the worker that owns the     *)
(* gateway (lifecycle.rs).                                                          *)
(*                                                                                 *)
(* The gateway is one thread and runs one handler at a time; places come from the   *)
(* threads of the Workbench, broadcast_projects from whoever changed a Project, and *)
(* the setting from one thread at a time (lifecycle_mutation). What is transferred, *)
(* the Project revisions and the permits of the Runtime are left out.               *)
EXTENDS Naturals, FiniteSets

CONSTANTS Sessions,   \* identities of the sockets the plugin opens, each used once
          Places,     \* calls of send_project_file
          Exports,    \* export commands the plugin starts
          MaxToggles, \* bound on the changes of the setting
          Observed,   \* whether what is published is followed
          Nobody

ASSUME SessionAssumption == Nobody \notin Sessions \cup Places \cup Exports
ASSUME CommandAssumption == Places \cap Exports = {}
ASSUME BoundAssumption == MaxToggles \in Nat /\ Observed \in BOOLEAN

Commands == Places \cup Exports
Publishers == Places \cup {"gateway", "worker", "setting", "broadcast"}

VARIABLES
  enabled, avail,    \* State.enabled, State.gateway_availability
  sessions, active,  \* State.sessions and active_command of each
  commands, owner,   \* State.commands and the session_id of each
  lost,              \* session_lost of the command that is being uploaded
  conn,              \* run_session of each socket: "new", "open", "ended"
  gw, cur,           \* what the gateway's thread does, and for whom
  pc, answer,        \* the places, and the completion of each
  admission,         \* who holds the admission mutex
  setting, want,     \* mutate_enabled, and the value it sets
  toggles,
  worker, retries,   \* run_lifecycle, and its own copy of enabled
  snap,              \* what publish has read and not delivered yet
  published          \* the last PhotoshopChanged of the Global stream

State == <<enabled, avail, sessions, active, commands, owner, lost>>
Switch == <<setting, want, toggles, worker, retries>>
Events == <<snap, published>>
vars == <<State, Switch, Events, conn, gw, cur, pc, answer, admission>>

TransferActive == commands # {} \/ \E s \in sessions : active[s] # Nobody
Available == enabled /\ avail = "available" \* require_available

\* state_view
View == IF Observed
        THEN <<enabled, enabled /\ avail = "available", sessions, TransferActive>>
        ELSE <<>>
None == Nobody

Init ==
  /\ enabled \in BOOLEAN /\ avail = "unchecked" /\ retries = enabled
  /\ sessions = {} /\ active = [s \in Sessions |-> Nobody]
  /\ commands = {} /\ owner = [c \in Commands |-> Nobody] /\ lost = FALSE
  /\ conn = [s \in Sessions |-> "new"]
  /\ gw = "off" /\ cur = Nobody
  /\ pc = [p \in Places |-> "idle"] /\ answer = [p \in Places |-> None]
  /\ admission = "free" /\ setting = "idle" /\ want = FALSE /\ toggles = 0
  /\ worker = "idle"
  /\ snap = [a \in Publishers |-> None] /\ published = View

-----------------------------------------------------------------------------
(* publish reads the state under its mutex and calls the observer without it.   *)

Free(a) == snap[a] = None
Publish(a) == snap' = [snap EXCEPT ![a] = View'] /\ UNCHANGED published

Deliver(a) ==
  /\ ~Free(a)
  /\ published' = snap[a]
  /\ snap' = [snap EXCEPT ![a] = None]
  /\ admission' = IF a = "gateway" /\ gw = "admitted" THEN "free" ELSE admission
  /\ gw' = IF a = "gateway" /\ gw = "admitted" THEN "idle" ELSE gw
  /\ UNCHANGED <<State, Switch, conn, cur, pc, answer>>

Uploading == IF gw = "commit" THEN {cur} ELSE {}

\* Mutant: an upload in progress is not spared.
RetiresAll(s) ==
  /\ sessions' = sessions \ {s}
  /\ active' = [active EXCEPT ![s] = Nobody]
  /\ commands' = {c \in commands : owner[c] # s}
  /\ lost' = lost
  /\ answer' = [p \in Places |-> IF p \in commands /\ owner[p] = s THEN "failed" ELSE answer[p]]
\* The critical section of disconnect, and the answers of the commands it retires.
Retires(s) ==
  /\ sessions' = sessions \ {s}
  /\ active' = [active EXCEPT ![s] = Nobody]
  /\ commands' = {c \in commands : owner[c] # s \/ c \in Uploading}
  /\ lost' = (lost \/ \E c \in Uploading : owner[c] = s)
  /\ answer' = [p \in Places |-> IF p \in commands /\ owner[p] = s THEN "failed" ELSE answer[p]]

\* disconnect, by the thread a
Disconnect(s, a) ==
  /\ Retires(s)
  /\ UNCHANGED <<enabled, avail, owner>>
  /\ IF s \in sessions THEN Publish(a) ELSE UNCHANGED Events

\* clear_active, by the thread a
ClearActive(c, a) ==
  /\ active' = [active EXCEPT ![owner[c]] = Nobody]
  /\ IF owner[c] \in sessions THEN Publish(a) ELSE UNCHANGED Events

-----------------------------------------------------------------------------
(* The gateway's thread: run_session of each socket, and the uploads.           *)

GatewayFree == gw = "idle" /\ Free("gateway")
GatewayAt(step) == gw = step /\ Free("gateway")
Goes(step) == gw' = step /\ UNCHANGED cur

Open(s) ==
  /\ GatewayFree
  /\ conn[s] = "new"
  /\ gw' = "connect" /\ cur' = s
  /\ UNCHANGED <<State, Switch, Events, conn, pc, answer, admission>>

\* Mutant: the availability is not asked again once the mutex is there.
ConnectsUnchecked ==
  /\ GatewayAt("connect")
  /\ admission = "free"
  /\ admission' = "gateway"
  /\ sessions' = sessions \cup {cur}
  /\ conn' = [conn EXCEPT ![cur] = "open"]
  /\ UNCHANGED <<enabled, avail, active, commands, owner, lost, Switch, pc, answer>>
  /\ Publish("gateway")
  /\ Goes("admitted")
\* connect holds the admission mutex until its event is delivered.
Connect ==
  /\ GatewayAt("connect")
  /\ admission = "free"
  /\ UNCHANGED <<enabled, avail, active, commands, owner, lost, Switch, pc, answer>>
  /\ IF Available
     THEN /\ admission' = "gateway"
          /\ sessions' = sessions \cup {cur}
          /\ conn' = [conn EXCEPT ![cur] = "open"]
          /\ Publish("gateway")
          /\ Goes("admitted")
     ELSE /\ conn' = [conn EXCEPT ![cur] = "ended"]
          /\ Goes("idle")
          /\ UNCHANGED <<admission, sessions, Events>>

\* The socket closes, a message is refused, or the session's sender is gone.
Close(s) ==
  /\ GatewayFree
  /\ conn[s] = "open"
  /\ conn' = [conn EXCEPT ![s] = "ended"]
  /\ Disconnect(s, "gateway")
  /\ UNCHANGED <<Switch, gw, cur, pc, admission>>

\* A handler failed: its session is closed.
Break ==
  /\ GatewayAt("break")
  /\ conn' = [conn EXCEPT ![owner[cur]] = "ended"]
  /\ Disconnect(owner[cur], "gateway")
  /\ Goes("idle")
  /\ UNCHANGED <<Switch, pc, admission>>

ExportStart(s, e) ==
  /\ GatewayFree
  /\ conn[s] = "open" /\ owner[e] = Nobody
  /\ owner' = [owner EXCEPT ![e] = s]
  /\ gw' = "reserve" /\ cur' = e
  /\ UNCHANGED <<enabled, avail, sessions, active, commands, lost, Switch, Events, conn, pc,
                 answer, admission>>

\* Whether the session can be reserved: reserve_place_session, reserve_export_session.
Reservable(s) == Available /\ s \in sessions /\ active[s] = Nobody

ReserveExport ==
  /\ GatewayAt("reserve")
  /\ admission = "free"
  /\ UNCHANGED <<enabled, avail, sessions, commands, owner, lost, Switch, conn, pc, answer,
                 admission>>
  /\ IF Reservable(owner[cur])
     THEN active' = [active EXCEPT ![owner[cur]] = cur] /\ Publish("gateway") /\ Goes("prepare")
     ELSE UNCHANGED <<active, Events>> /\ Goes("break")

PrepareExport ==
  /\ GatewayAt("prepare")
  /\ UNCHANGED <<enabled, avail, sessions, commands, owner, lost, Switch, conn, pc, answer,
                 admission>>
  /\ \/ Goes("register") /\ UNCHANGED <<active, Events>>
     \/ ClearActive(cur, "gateway") /\ Goes("break")

\* The command is registered and ExportReady sent, unless the session is gone.
RegisterExport ==
  /\ GatewayAt("register")
  /\ IF owner[cur] \in sessions
     THEN commands' = commands \cup {cur} /\ gw' \in {"idle", "break"}
     ELSE UNCHANGED commands /\ gw' = "break"
  /\ UNCHANGED <<enabled, avail, sessions, active, owner, lost, Switch, Events, conn, cur, pc,
                 answer, admission>>

Upload(e) ==
  /\ GatewayFree
  /\ e \in commands /\ owner[e] \in sessions
  /\ gw' = "commit" /\ cur' = e
  /\ UNCHANGED <<State, Switch, Events, conn, pc, answer, admission>>

\* The Project commit is over, whatever came of it.
UploadSettles ==
  /\ GatewayAt("commit")
  /\ Goes("idle")
  /\ lost' = FALSE
  /\ UNCHANGED <<enabled, avail, sessions, active, owner, Switch, conn, pc, answer, admission>>
  /\ IF lost
     THEN commands' = commands \ {cur} /\ Publish("gateway")
     ELSE UNCHANGED <<commands, Events>>

\* finish_export and finish_place, of a command of the socket that says so.
Finish(c) ==
  /\ GatewayFree
  /\ c \in commands /\ conn[owner[c]] = "open"
  /\ c \in Places => pc[c] = "wait"
  /\ commands' = commands \ {c}
  /\ gw' = "clear" /\ cur' = c
  /\ UNCHANGED <<enabled, avail, sessions, active, owner, lost, Switch, Events, conn, pc, answer,
                 admission>>

\* Mutant: the completion is forgotten when the session is gone.
ClearOrForget ==
  /\ GatewayAt("clear")
  /\ UNCHANGED <<enabled, avail, sessions, commands, owner, lost, Switch, conn, pc, answer,
                 admission>>
  /\ ClearActive(cur, "gateway")
  /\ Goes(IF cur \in Places /\ owner[cur] \in sessions THEN "answer" ELSE "idle")
Clear ==
  /\ GatewayAt("clear")
  /\ UNCHANGED <<enabled, avail, sessions, commands, owner, lost, Switch, conn, pc, answer,
                 admission>>
  /\ ClearActive(cur, "gateway")
  /\ Goes(IF cur \in Places THEN "answer" ELSE "idle")

Answer ==
  /\ GatewayAt("answer")
  /\ \E result \in {"ok", "failed"} : answer' = [answer EXCEPT ![cur] = result]
  /\ Goes("idle")
  /\ UNCHANGED <<State, Switch, Events, conn, pc, admission>>

-----------------------------------------------------------------------------
(* The calls of the Workbench and of the Project registry.                      *)

PlaceAt(p, step) == pc[p] = step /\ Free(p)
Moves(p, step) == pc' = [pc EXCEPT ![p] = step]

ReservePlace(p, s) ==
  /\ PlaceAt(p, "idle")
  /\ admission = "free"
  /\ Reservable(s)
  /\ active' = [active EXCEPT ![s] = p]
  /\ owner' = [owner EXCEPT ![p] = s]
  /\ UNCHANGED <<enabled, avail, sessions, commands, lost, Switch, conn, gw, cur, answer, admission>>
  /\ Publish(p)
  /\ Moves(p, "prepare")

PreparePlace(p) ==
  /\ PlaceAt(p, "prepare")
  /\ UNCHANGED <<enabled, avail, sessions, commands, owner, lost, Switch, conn, gw, cur, answer,
                 admission>>
  /\ \/ Moves(p, "register") /\ UNCHANGED <<active, Events>>
     \/ ClearActive(p, p) /\ Moves(p, "done")

RegisterPlace(p) ==
  /\ PlaceAt(p, "register")
  /\ IF owner[p] \in sessions
     THEN commands' = commands \cup {p} /\ Moves(p, "send")
     ELSE UNCHANGED commands /\ Moves(p, "done")
  /\ UNCHANGED <<enabled, avail, sessions, active, owner, lost, Switch, Events, conn, gw, cur,
                 answer, admission>>

\* The request is in the session's queue, or the queue is full or gone.
SendPlace(p) ==
  /\ PlaceAt(p, "send")
  /\ \/ owner[p] \in sessions /\ Moves(p, "wait") /\ UNCHANGED <<State, Events, answer>>
     \/ Disconnect(owner[p], p) /\ Moves(p, "done")
  /\ UNCHANGED <<Switch, conn, gw, cur, admission>>

PlaceEnds(p) ==
  /\ PlaceAt(p, "wait")
  /\ answer[p] # None
  /\ Moves(p, "done")
  /\ UNCHANGED <<State, Switch, Events, conn, gw, cur, answer, admission>>

\* broadcast_projects finds the queue of a session full.
Broadcast(s) ==
  /\ Free("broadcast")
  /\ s \in sessions
  /\ Disconnect(s, "broadcast")
  /\ UNCHANGED <<Switch, conn, gw, cur, pc, admission>>

-----------------------------------------------------------------------------
(* mutate_enabled, and the worker that starts and stops the gateway.            *)

SettingAt(step) == setting = step /\ Free("setting")

Toggle(value) ==
  /\ SettingAt("idle")
  /\ toggles < MaxToggles
  /\ toggles' = toggles + 1
  /\ want' = value
  /\ setting' = "lock"
  /\ UNCHANGED <<State, Events, worker, retries, conn, gw, cur, pc, answer, admission>>

\* A transfer refuses the disabling; otherwise admissions wait for the persistence.
Admits ==
  /\ SettingAt("lock")
  /\ admission = "free"
  /\ IF enabled /\ ~want /\ TransferActive
     THEN setting' = "idle" /\ UNCHANGED admission
     ELSE setting' = "persist" /\ admission' = "setting"
  /\ UNCHANGED <<State, Events, want, toggles, worker, retries, conn, gw, cur, pc, answer>>

PersistFails ==
  /\ SettingAt("persist")
  /\ setting' = "idle"
  /\ admission' = "free"
  /\ UNCHANGED <<State, Events, want, toggles, worker, retries, conn, gw, cur, pc, answer>>

\* Mutant: the mutex is kept until the gateway has stopped.
AppliesHolding ==
  /\ SettingAt("persist")
  /\ setting' = IF want = enabled THEN "idle" ELSE "settle"
  /\ admission' = IF want = enabled THEN "free" ELSE "setting"
  /\ enabled' = want
  /\ avail' = IF want = enabled THEN avail ELSE "unchecked"
  /\ IF want THEN UNCHANGED <<sessions, active>>
     ELSE sessions' = {} /\ active' = [s \in Sessions |-> Nobody]
  /\ UNCHANGED <<commands, owner, lost, Events, want, toggles, worker, retries, conn, gw, cur, pc,
                 answer>>
\* Persisted: apply_enabled, and the mutex is released before the worker settles.
Applies ==
  /\ SettingAt("persist")
  /\ setting' = IF want = enabled THEN "idle" ELSE "settle"
  /\ admission' = "free"
  /\ enabled' = want
  /\ avail' = IF want = enabled THEN avail ELSE "unchecked"
  /\ IF want THEN UNCHANGED <<sessions, active>>
     ELSE sessions' = {} /\ active' = [s \in Sessions |-> Nobody]
  /\ UNCHANGED <<commands, owner, lost, Events, want, toggles, worker, retries, conn, gw, cur, pc,
                 answer>>

Settled ==
  /\ SettingAt("settled")
  /\ setting' = "idle"
  /\ UNCHANGED <<State, want, toggles, worker, retries, conn, gw, cur, pc, answer>>
  /\ IF want THEN UNCHANGED Events ELSE Publish("setting")
  /\ admission' = IF admission = "setting" THEN "free" ELSE admission

WorkerAt(step) == worker = step /\ Free("worker")

\* SetEnabled: the first bind, or the shutdown of the gateway.
Command ==
  /\ WorkerAt("idle") /\ setting = "settle"
  /\ retries' = want
  /\ IF want
     THEN worker' = "report" /\ gw' \in IF gw = "off" THEN {"off", "idle"} ELSE {gw}
     ELSE worker' = "stop" /\ UNCHANGED gw
  /\ UNCHANGED <<State, Events, setting, want, toggles, conn, cur, pc, answer, admission>>

\* The gateway's thread is joined, and its sessions end with it.
Stop ==
  /\ WorkerAt("stop")
  /\ gw = "off" \/ GatewayFree
  /\ gw' = "off"
  /\ conn' = [s \in Sessions |-> IF conn[s] = "open" THEN "ended" ELSE conn[s]]
  /\ worker' = "report"
  /\ UNCHANGED <<State, Events, setting, want, toggles, retries, cur, pc, answer, admission>>

\* RETRY_INTERVAL has passed without a command; or the Runtime starts.
Retry ==
  /\ WorkerAt("idle") /\ setting # "settle"
  /\ retries /\ gw = "off"
  /\ gw' \in {"off", "idle"}
  /\ worker' = "retried"
  /\ UNCHANGED <<State, Events, setting, want, toggles, retries, conn, cur, pc, answer, admission>>

\* set_gateway_available
Report ==
  /\ worker \in {"report", "retried"} /\ Free("worker")
  /\ worker' = IF worker = "report" THEN "answer" ELSE "idle"
  /\ UNCHANGED <<enabled, sessions, active, commands, owner, lost, setting, want, toggles, retries,
                 conn, gw, cur, pc, answer, admission>>
  /\ LET found == IF gw = "off" THEN "unavailable" ELSE "available"
     IN IF enabled /\ avail # found
        THEN avail' = found /\ Publish("worker")
        ELSE UNCHANGED <<avail, Events>>

WorkerAnswers ==
  /\ WorkerAt("answer")
  /\ worker' = "idle"
  /\ setting' = "settled"
  /\ UNCHANGED <<State, Events, want, toggles, retries, conn, gw, cur, pc, answer, admission>>

-----------------------------------------------------------------------------
GatewayStep == \/ Connect \/ Break \/ ReserveExport \/ PrepareExport \/ RegisterExport
               \/ UploadSettles \/ Clear \/ Answer
PlaceStep(p) == PreparePlace(p) \/ RegisterPlace(p) \/ SendPlace(p) \/ PlaceEnds(p)
SettingStep == Admits \/ PersistFails \/ Applies \/ Settled
WorkerStep == Command \/ Stop \/ Report \/ WorkerAnswers

Next ==
  \/ GatewayStep \/ SettingStep \/ WorkerStep \/ Retry
  \/ \E a \in Publishers : Deliver(a)
  \/ \E s \in Sessions : Open(s) \/ Close(s) \/ Broadcast(s)
  \/ \E s \in Sessions, e \in Exports : ExportStart(s, e)
  \/ \E e \in Exports : Upload(e)
  \/ \E c \in Commands : Finish(c)
  \/ \E p \in Places : PlaceStep(p) \/ \E s \in Sessions : ReservePlace(p, s)
  \/ \E value \in BOOLEAN : Toggle(value)

\* A thread goes on with what it has begun. Nothing is assumed of the plugin, which
\* need not answer or close its socket.
Fairness ==
  /\ WF_vars(GatewayStep) /\ WF_vars(SettingStep) /\ WF_vars(WorkerStep)
  /\ \A p \in Places : WF_vars(PlaceStep(p))
  /\ \A a \in Publishers : WF_vars(Deliver(a))

Spec == Init /\ [][Next]_vars /\ Fairness

-----------------------------------------------------------------------------
(* Type correctness.                                                            *)
TypeOK ==
  /\ enabled \in BOOLEAN /\ avail \in {"unchecked", "unavailable", "available"}
  /\ sessions \subseteq Sessions /\ active \in [Sessions -> Commands \cup {Nobody}]
  /\ commands \subseteq Commands /\ owner \in [Commands -> Sessions \cup {Nobody}]
  /\ lost \in BOOLEAN
  /\ conn \in [Sessions -> {"new", "open", "ended"}]
  /\ gw \in {"off", "idle", "connect", "admitted", "reserve", "prepare", "register", "commit",
             "clear", "answer", "break"}
  /\ cur \in Sessions \cup Commands \cup {Nobody}
  /\ pc \in [Places -> {"idle", "prepare", "register", "send", "wait", "done"}]
  /\ answer \in [Places -> {None, "ok", "failed"}]
  /\ admission \in {"free", "gateway", "setting"}
  /\ setting \in {"idle", "lock", "persist", "settle", "settled"} /\ want \in BOOLEAN
  /\ toggles \in 0..MaxToggles
  /\ worker \in {"idle", "stop", "report", "retried", "answer"} /\ retries \in BOOLEAN

Owns(c) == owner[c] \in sessions => active[owner[c]] = c

(* None of the assertions of the integration fails, whichever threads meet: an      *)
(* upload finds its command after the Project commit, a command that settles or     *)
(* registers is still the active one of its session, and a disabling finds no       *)
(* transfer (integration.rs 241-249, 554-567, 683-688, 1205-1209).                  *)
NoPanic ==
  /\ gw = "commit" => cur \in commands
  /\ gw \in {"prepare", "register", "clear"} => Owns(cur)
  /\ \A p \in Places : pc[p] \in {"prepare", "register"} => Owns(p)
  /\ setting = "persist" /\ enabled /\ ~want => ~TransferActive

(* Once the integration is off it binds no port and retains no session and no       *)
(* command, whatever was connecting meanwhile (integration.rs 170-253, 263-289).    *)
OffRetainsNothing ==
  ~enabled /\ setting = "idle" =>
    gw = "off" /\ sessions = {} /\ commands = {} /\ \A s \in Sessions : conn[s] # "open"

(* Nobody waits for ever. A place whose session is gone is answered, also when the  *)
(* session goes while its result is being handled; a change of the setting returns, *)
(* although it waits for a gateway whose handlers wait for the mutex it takes       *)
(* (integration.rs 170-198, 323-362, 1056-1104, lifecycle.rs 96-106).               *)
CallersAreAnswered ==
  /\ \A p \in Places : pc[p] = "wait" /\ owner[p] \notin sessions ~> pc[p] = "done"
  /\ setting # "idle" ~> setting = "idle"

\* No thread is at work.
Quiet == /\ \A a \in Publishers : Free(a)
         /\ gw \in {"off", "idle"} /\ setting = "idle" /\ worker = "idle"
         /\ \A p \in Places : pc[p] \in {"idle", "wait", "done"}

(* Once every thread has finished, the Workbenches show no session whose socket is  *)
(* closed. It does not hold: publish reads the state and delivers it in two steps,  *)
(* and another thread may publish in between (integration.rs 1221-1224).            *)
ClosedIsWithdrawn == Quiet => published[3] \subseteq sessions
=============================================================================
