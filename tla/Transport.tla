------------------------------ MODULE Transport ------------------------------
(***************************************************************************)
(* The DeviceGateway (gateway.rs) over its two adapters (ble.rs, lan.rs).  *)
(* Each adapter has a supervisor task driven by a watch channel, the       *)
(* connection intent, which the handlers of the web API write.  A switch   *)
(* of transport withdraws the intent of the old adapter before it states   *)
(* one on the new adapter, a handler step at a time.                       *)
(*                                                                         *)
(* One device per transport.  A connection attempt is one choice of how it *)
(* ends; the frames, the handshake and the pairing ceremony are left out,  *)
(* and so is device.phase, which nothing in the Agent reads.  Writes of    *)
(* the files device-transport.json and lan-target.json succeed.            *)
(***************************************************************************)
EXTENDS Naturals, FiniteSets

CONSTANTS
    Handlers,      \* requests of the web API served at the same time
    MaxCommands,   \* bound: scan, connect, auto-connect, disconnect requests
    MaxFailures,   \* bound: attempts and sessions that fail
    MaxPauses,     \* bound: times the user pauses the Agent
    MaxRestarts    \* bound: restarts of the Agent

ASSUME BoundAssumption == {MaxCommands, MaxFailures, MaxPauses, MaxRestarts} \subseteq Nat

VARIABLES
    active,      \* DeviceGateway.active
    saved,       \* device-transport.json
    intent,      \* per transport, the value of the watch channel
    fresh,       \* per transport, is that value one its supervisor has not seen?
    sup,         \* per transport, its supervisor
    target,      \* the LAN target: in lan-target.json, in preferred_target
    status,      \* device.transport and device.connection_mode of the snapshot
    paused,      \* agent.paused
    handler,     \* the web handlers
    request,     \* the device request of the publisher
    used,        \* how much of each bound is used
    last,        \* history: the operation of the handler that finished last
    overwritten  \* history: a supervisor replaced an intent it had not seen

vars == <<active, saved, intent, fresh, sup, target, status, paused, handler,
          request, used, last, overwritten>>

gatewayVars == <<active, saved, handler, last>>
watchVars == <<intent, fresh>>
userVars == <<active, saved, handler, last, paused>>

-----------------------------------------------------------------------------

Transports == {"ble", "lan"}
Intents == {"idle", "auto", "scan", "manual"}
Operations == {"auto", "scan", "manual", "disconnect"}

NewSupervisor == [at |-> "top", desired |-> "idle", controlled |-> FALSE, next |-> "idle"]
NoHandler == [pc |-> "idle", op |-> "disconnect", transport |-> "ble", previous |-> "ble"]
NoRequest == [at |-> "none", via |-> "ble"]

Connected(t) == sup[t].at = "session"
HandlersIdle == \A h \in Handlers : handler[h].pc = "idle"

StartIntent(transport) == [t \in Transports |-> IF t = transport THEN "auto" ELSE "idle"]

Init ==
    /\ active \in Transports
    /\ saved = active
    /\ intent = StartIntent(active)
    /\ fresh = [t \in Transports |-> FALSE]
    /\ sup = [t \in Transports |-> NewSupervisor]
    /\ \E known \in BOOLEAN : target = [file |-> known, memory |-> known]
    /\ status = [transport |-> "ble", mode |-> "auto"]
    /\ paused = FALSE
    /\ handler = [h \in Handlers |-> NoHandler]
    /\ request = NoRequest
    /\ used = [commands |-> 0, failures |-> 0, pauses |-> 0, restarts |-> 0]
    /\ last = "none"
    /\ overwritten = FALSE

-----------------------------------------------------------------------------
(* The watch channel. *)

\* send_replace by a handler: the supervisor has a change to see.
Want(t, wanted) ==
    /\ intent' = [intent EXCEPT ![t] = wanted]
    /\ fresh' = [fresh EXCEPT ![t] = TRUE]

\* intent.changed() resolves: the change is seen, its value is not read yet.
Notice(t) == fresh[t] /\ fresh' = [fresh EXCEPT ![t] = FALSE]

\* intent_sender.send_replace, then borrow_and_update, by the supervisor that
\* read the value checked before: what came in between is gone unseen.
Replace(t, checked, wanted) ==
    /\ intent' = [intent EXCEPT ![t] = wanted]
    /\ fresh' = [fresh EXCEPT ![t] = FALSE]
    /\ overwritten' = (overwritten \/ intent[t] # checked)

\* At these places a supervisor holds nothing of its last attempt.
Fresh == {"top", "parked", "paused", "wait"}

Goto(t, place) ==
    sup' = [sup EXCEPT ![t] = IF place \in Fresh THEN [NewSupervisor EXCEPT !.at = place]
                                               ELSE [@ EXCEPT !.at = place]]

MayFail == used.failures < MaxFailures
Fail == MayFail /\ used' = [used EXCEPT !.failures = @ + 1]

-----------------------------------------------------------------------------
(* The handlers of the web API. *)

\* Faulty Begin: activate does not disconnect the transport it leaves.
BeginAnywhere(h) ==
    /\ handler[h].pc = "idle"
    /\ used.commands < MaxCommands
    /\ used' = [used EXCEPT !.commands = @ + 1]
    /\ \E op \in Operations, t \in Transports :
          handler' = [handler EXCEPT ![h] =
              [pc |-> IF op = "disconnect" THEN "leave"
                      ELSE IF t = active THEN "announce" ELSE "switch",
               op |-> op, transport |-> t, previous |-> active]]
    /\ UNCHANGED <<active, saved, last, watchVars, sup, target, status, paused, request, overwritten>>

\* The request arrives; activate reads which transport is active.
Begin(h) ==
    /\ handler[h].pc = "idle"
    /\ used.commands < MaxCommands
    /\ used' = [used EXCEPT !.commands = @ + 1]
    /\ \E op \in Operations, t \in Transports :
          handler' = [handler EXCEPT ![h] =
              [pc |-> IF op # "disconnect" /\ t = active THEN "announce" ELSE "leave",
               op |-> op, transport |-> t, previous |-> active]]
    /\ UNCHANGED <<active, saved, last, watchVars, sup, target, status, paused, request, overwritten>>

\* Faulty Leave: the adapter reports the operation for its mode.
LeaveAsAsked(h) ==
    /\ handler[h].pc = "leave"
    /\ status' = [status EXCEPT !.mode = handler[h].op]
    /\ handler' = [handler EXCEPT ![h].pc = "release"]
    /\ UNCHANGED <<active, saved, last, watchVars, sup, target, paused, request, used, overwritten>>

\* disconnect of the previous adapter reports it; the LAN adapter only when
\* the snapshot shows LAN.
Leave(h) ==
    /\ handler[h].pc = "leave"
    /\ IF handler[h].previous = "ble" \/ status.transport = "lan"
       THEN status' = [status EXCEPT !.mode = "idle"]
       ELSE UNCHANGED status
    /\ handler' = [handler EXCEPT ![h].pc = "release"]
    /\ UNCHANGED <<active, saved, last, watchVars, sup, target, paused, request, used, overwritten>>

\* Faulty Release: an adapter without a session is not told.
ReleaseConnected(h) ==
    /\ handler[h].pc = "release"
    /\ IF Connected(handler[h].previous)
       THEN Want(handler[h].previous, "idle")
       ELSE UNCHANGED watchVars
    /\ IF handler[h].op = "disconnect"
       THEN handler' = [handler EXCEPT ![h] = NoHandler] /\ last' = "disconnect"
       ELSE handler' = [handler EXCEPT ![h].pc = "switch"] /\ UNCHANGED last
    /\ UNCHANGED <<active, saved, sup, target, status, paused, request, used, overwritten>>

\* ... and withdraws its intent.  A disconnect ends here.
Release(h) ==
    /\ handler[h].pc = "release"
    /\ Want(handler[h].previous, "idle")
    /\ IF handler[h].op = "disconnect"
       THEN handler' = [handler EXCEPT ![h] = NoHandler] /\ last' = "disconnect"
       ELSE handler' = [handler EXCEPT ![h].pc = "switch"] /\ UNCHANGED last
    /\ UNCHANGED <<active, saved, sup, target, status, paused, request, used, overwritten>>

\* active.store.
Switch(h) ==
    /\ handler[h].pc = "switch"
    /\ active' = handler[h].transport
    /\ handler' = [handler EXCEPT ![h].pc = "save"]
    /\ UNCHANGED <<saved, last, watchVars, sup, target, status, paused, request, used, overwritten>>

\* save_active_transport.
Save(h) ==
    /\ handler[h].pc = "save"
    /\ saved' = handler[h].transport
    /\ handler' = [handler EXCEPT ![h].pc = "reset"]
    /\ UNCHANGED <<active, last, watchVars, sup, target, status, paused, request, used, overwritten>>

\* activate clears what the snapshot says of the device.
Reset(h) ==
    /\ handler[h].pc = "reset"
    /\ status' = [transport |-> handler[h].transport, mode |-> "idle"]
    /\ handler' = [handler EXCEPT ![h].pc = "announce"]
    /\ UNCHANGED <<active, saved, last, watchVars, sup, target, paused, request, used, overwritten>>

\* The adapter reports what it was asked for ...
Announce(h) ==
    /\ handler[h].pc = "announce"
    /\ status' = [transport |-> handler[h].transport, mode |-> handler[h].op]
    /\ handler' = [handler EXCEPT ![h].pc = "command"]
    /\ UNCHANGED <<active, saved, last, watchVars, sup, target, paused, request, used, overwritten>>

\* ... a connect request for an unknown device or without a key is refused ...
Refuse(h) ==
    /\ handler[h].pc = "announce" /\ handler[h].op = "manual"
    /\ handler' = [handler EXCEPT ![h] = NoHandler]
    /\ last' = "refused"
    /\ UNCHANGED <<active, saved, watchVars, sup, target, status, paused, request, used, overwritten>>

\* ... and states the new intent.
Command(h) ==
    /\ handler[h].pc = "command"
    /\ Want(handler[h].transport, handler[h].op)
    /\ handler' = [handler EXCEPT ![h] = NoHandler]
    /\ last' = handler[h].op
    /\ UNCHANGED <<active, saved, sup, target, status, paused, request, used, overwritten>>

Serve(h) ==
    \/ Leave(h) \/ Release(h) \/ Switch(h) \/ Save(h) \/ Reset(h)
    \/ Announce(h) \/ Refuse(h) \/ Command(h)

\* POST /api/v1/agent/pause.
TogglePause ==
    /\ paused \/ used.pauses < MaxPauses
    /\ paused' = ~paused
    /\ used' = IF paused THEN used ELSE [used EXCEPT !.pauses = @ + 1]
    /\ UNCHANGED <<gatewayVars, watchVars, sup, target, status, request, overwritten>>
-----------------------------------------------------------------------------
(* What both supervisors do with a session. *)

\* The session is primed: the target is saved, connected is stored.  Only the
\* LAN adapter writes the transport into the snapshot once more.
Open(t) ==
    /\ sup[t].at = "prime"
    /\ Goto(t, "session")
    /\ IF t = "lan"
       THEN /\ status' = [status EXCEPT !.transport = "lan"]
            /\ target' = [file |-> TRUE, memory |-> TRUE]
       ELSE UNCHANGED <<status, target>>
    /\ UNCHANGED <<userVars, watchVars, request, used, overwritten>>

\* The session ends: connected is cleared, the intent is read.
End(t, controlled) ==
    sup' = [sup EXCEPT ![t] = [@ EXCEPT !.at = IF t = "ble" THEN "revert" ELSE "report",
                                        !.controlled = controlled, !.next = intent[t]]]

\* The link fails: read error, heartbeat without answer.
LinkFails(t) ==
    /\ Connected(t)
    /\ End(t, FALSE)
    /\ Fail
    /\ UNCHANGED <<userVars, watchVars, target, status, request, overwritten>>

\* Faulty HealthTick: the LAN session does not look at the pause.
HealthTickBleOnly(t) ==
    /\ Connected(t) /\ paused /\ t = "ble"
    /\ End(t, FALSE)
    /\ UNCHANGED <<userVars, watchVars, target, status, request, used, overwritten>>

\* The health tick finds the Agent paused.
HealthTick(t) ==
    /\ Connected(t) /\ paused
    /\ End(t, FALSE)
    /\ UNCHANGED <<userVars, watchVars, target, status, request, used, overwritten>>

\* Faulty Interrupt: a session looks at the intent only while it is paused.
InterruptPaused(t) ==
    /\ Connected(t) /\ paused
    /\ Notice(t)
    /\ End(t, TRUE)
    /\ UNCHANGED <<userVars, intent, target, status, request, used, overwritten>>

\* The user changes the intent.
Interrupt(t) ==
    /\ Connected(t)
    /\ Notice(t)
    /\ End(t, TRUE)
    /\ UNCHANGED <<userVars, intent, target, status, request, used, overwritten>>

\* A queued command is executed and its caller answered.
Execute(t) ==
    /\ Connected(t)
    /\ request = [at |-> "queued", via |-> t]
    /\ request' = NoRequest
    /\ UNCHANGED <<userVars, watchVars, sup, target, status, used, overwritten>>

\* ... with an error that ends the session.
ExecuteFails(t) ==
    /\ Connected(t)
    /\ request = [at |-> "queued", via |-> t]
    /\ request' = NoRequest
    /\ End(t, FALSE)
    /\ Fail
    /\ UNCHANGED <<userVars, watchVars, target, status, overwritten>>

\* A session that broke under a manual intent goes on under auto; one that
\* the user ended does not.
RevertTo(t, place) ==
    /\ sup[t].at = "revert"
    /\ IF ~sup[t].controlled /\ sup[t].next = "manual"
       THEN /\ Replace(t, "manual", "auto")
            /\ sup' = [sup EXCEPT ![t] = [@ EXCEPT !.at = place, !.next = "auto"]]
       ELSE Goto(t, place) /\ UNCHANGED <<watchVars, overwritten>>
    /\ UNCHANGED <<userVars, target, status, request, used>>

\* The snapshot shows the intent the supervisor goes on with.
ReportTo(t, place) ==
    /\ sup[t].at = "report"
    /\ IF t = "ble" \/ status.transport = "lan"
       THEN status' = [status EXCEPT !.mode = sup[t].next]
       ELSE UNCHANGED status
    /\ Goto(t, place)
    /\ UNCHANGED <<userVars, watchVars, target, request, used, overwritten>>

Revert(t) == RevertTo(t, IF t = "ble" THEN "report" ELSE "top")
Report(t) == ReportTo(t, IF t = "ble" THEN "top" ELSE "revert")

\* A pause of one second, or a backoff that runs out or is cut short by a
\* change: the loop starts over, and reads the intent there.
Retry(t) ==
    /\ sup[t].at \in {"paused", "wait"}
    /\ Goto(t, "top")
    /\ UNCHANGED <<userVars, watchVars, target, status, request, used, overwritten>>

\* A parked supervisor wakes up on a change only.
Wake(t) ==
    /\ sup[t].at = "parked"
    /\ Notice(t)
    /\ Goto(t, "top")
    /\ UNCHANGED <<userVars, intent, target, status, request, used, overwritten>>

\* A change while the session is primed: the attempt is dropped.
PrimeInterrupted(t) ==
    /\ sup[t].at = "prime"
    /\ Notice(t)
    /\ Goto(t, "top")
    /\ UNCHANGED <<userVars, intent, target, status, request, used, overwritten>>

\* The handshake fails: BLE starts over at once, LAN after its delay.
PrimeFails(t) ==
    /\ sup[t].at = "prime"
    /\ Goto(t, IF t = "ble" THEN "top" ELSE "wait")
    /\ Fail
    /\ UNCHANGED <<userVars, watchVars, target, status, request, overwritten>>

\* The link is there; the handshake starts.
LinkUp(t) ==
    /\ sup[t].at = "connect"
    /\ Goto(t, "prime")
    /\ UNCHANGED <<userVars, watchVars, target, status, request, used, overwritten>>

\* discover announces the scan, with the intent read at the top of the loop.
Browse(t) ==
    /\ sup[t].at = "browse"
    /\ status' = [transport |-> t, mode |-> sup[t].desired]
    /\ Goto(t, "discover")
    /\ UNCHANGED <<userVars, watchVars, target, request, used, overwritten>>

-----------------------------------------------------------------------------
(* The BLE supervisor. *)

BleTop ==
    /\ sup["ble"].at = "top"
    /\ IF paused
       THEN Goto("ble", "paused") /\ UNCHANGED fresh
       ELSE /\ fresh' = [fresh EXCEPT !["ble"] = FALSE]
            /\ sup' = [sup EXCEPT !["ble"] =
                  [@ EXCEPT !.desired = intent["ble"],
                            !.at = IF intent["ble"] = "idle" THEN "rest" ELSE "browse"]]
    /\ UNCHANGED <<userVars, intent, target, status, request, used, overwritten>>

\* Nothing to do: the snapshot shows so, whatever transport it shows.
BleRests ==
    /\ sup["ble"].at = "rest"
    /\ status' = [status EXCEPT !.mode = "idle"]
    /\ Goto("ble", "parked")
    /\ UNCHANGED <<userVars, watchVars, target, request, used, overwritten>>

BleFinds ==
    /\ sup["ble"].at = "discover" /\ sup["ble"].desired # "scan"
    /\ Goto("ble", "connect")
    /\ UNCHANGED <<userVars, watchVars, target, status, request, used, overwritten>>

BleScanEnds ==
    /\ sup["ble"].at = "discover" /\ sup["ble"].desired = "scan"
    /\ Goto("ble", "ended")
    /\ UNCHANGED <<userVars, watchVars, target, status, request, used, overwritten>>

\* No adapter, no device found, or it does not connect.
BleFails ==
    /\ sup["ble"].at \in {"browse", "discover", "connect"}
    /\ Goto("ble", "wait")
    /\ Fail
    /\ UNCHANGED <<userVars, watchVars, target, status, request, overwritten>>

\* discover and connect take a change for the end of a scan: Ok(None).
BleInterrupted ==
    /\ sup["ble"].at \in {"discover", "connect"}
    /\ Notice("ble")
    /\ Goto("ble", "ended")
    /\ UNCHANGED <<userVars, intent, target, status, request, used, overwritten>>

\* Ok(None): start over if the intent differs from the one at the top.
BleEnded ==
    /\ sup["ble"].at = "ended"
    /\ IF intent["ble"] # sup["ble"].desired
       THEN fresh' = [fresh EXCEPT !["ble"] = FALSE] /\ Goto("ble", "top")
       ELSE Goto("ble", "rest") /\ UNCHANGED fresh
    /\ UNCHANGED <<userVars, intent, target, status, request, used, overwritten>>

-----------------------------------------------------------------------------
(* The LAN supervisor. *)

\* Where the loop goes with the intent it reads: a saved target is tried
\* before the network is searched.
LanPlace(desired) ==
    CASE desired = "idle" -> "parked"
      [] desired # "idle" /\ paused -> "paused"
      [] desired = "scan" /\ ~paused -> "browse"
      [] desired = "auto" /\ ~paused /\ ~target.memory -> "browse"
      [] OTHER -> "connect"

\* The attempt that starts there.
LanAttempt(place) ==
    [NewSupervisor EXCEPT !.at = place,
                          !.desired = IF place \in {"browse", "connect"} THEN intent["lan"] ELSE @]

LanTop ==
    /\ sup["lan"].at = "top"
    /\ fresh' = [fresh EXCEPT !["lan"] = FALSE]
    /\ sup' = [sup EXCEPT !["lan"] = LanAttempt(LanPlace(intent["lan"]))]
    /\ UNCHANGED <<userVars, intent, target, status, request, used, overwritten>>

LanFinds ==
    /\ sup["lan"].at = "discover" /\ sup["lan"].desired = "auto"
    /\ Goto("lan", "connect")
    /\ UNCHANGED <<userVars, watchVars, target, status, request, used, overwritten>>

LanFindsNone ==
    /\ sup["lan"].at = "discover" /\ sup["lan"].desired = "auto"
    /\ Goto("lan", "wait")
    /\ Fail
    /\ UNCHANGED <<userVars, watchVars, target, status, request, overwritten>>

LanScanEnds ==
    /\ sup["lan"].at = "discover" /\ sup["lan"].desired = "scan"
    /\ Goto("lan", "ended")
    /\ UNCHANGED <<userVars, watchVars, target, status, request, used, overwritten>>

\* Faulty LanSearchInterrupted: the search goes on with what it has found.
SearchKeepsTarget ==
    /\ sup["lan"].at = "discover"
    /\ Notice("lan")
    /\ Goto("lan", IF sup["lan"].desired = "scan" THEN "ended" ELSE "connect")
    /\ UNCHANGED <<userVars, intent, target, status, request, used, overwritten>>

\* Faulty LanSearchInterrupted: a search that is interrupted counts as a scan
\* that is over, and waits for the user.
SearchParks ==
    /\ sup["lan"].at = "discover"
    /\ Notice("lan")
    /\ Goto("lan", IF sup["lan"].desired = "scan" THEN "ended" ELSE "parked")
    /\ UNCHANGED <<userVars, intent, target, status, request, used, overwritten>>

\* A change ends the search; one for a target counts as not found.
LanSearchInterrupted ==
    /\ sup["lan"].at = "discover"
    /\ Notice("lan")
    /\ Goto("lan", IF sup["lan"].desired = "scan" THEN "ended" ELSE "wait")
    /\ UNCHANGED <<userVars, intent, target, status, request, used, overwritten>>

LanConnectInterrupted ==
    /\ sup["lan"].at = "connect"
    /\ Notice("lan")
    /\ Goto("lan", "top")
    /\ UNCHANGED <<userVars, intent, target, status, request, used, overwritten>>

\* The endpoint may be stale: an automatic attempt forgets it.
LanConnectFails ==
    /\ sup["lan"].at = "connect"
    /\ target' = [target EXCEPT !.memory = @ /\ sup["lan"].desired # "auto"]
    /\ Goto("lan", "wait")
    /\ Fail
    /\ UNCHANGED <<userVars, watchVars, status, request, overwritten>>

\* After a scan: is the intent still to scan?
LanEnded ==
    /\ sup["lan"].at = "ended"
    /\ Goto("lan", IF intent["lan"] = sup["lan"].desired THEN "clear" ELSE "top")
    /\ UNCHANGED <<userVars, watchVars, target, status, request, used, overwritten>>

LanClears ==
    /\ sup["lan"].at = "clear"
    /\ Replace("lan", "scan", "idle")
    /\ Goto("lan", "rest")
    /\ UNCHANGED <<userVars, target, status, request, used>>

LanRests ==
    /\ sup["lan"].at = "rest"
    /\ IF status.transport = "lan"
       THEN status' = [status EXCEPT !.mode = "idle"]
       ELSE UNCHANGED status
    /\ Goto("lan", "top")
    /\ UNCHANGED <<userVars, watchVars, target, request, used, overwritten>>

-----------------------------------------------------------------------------
(* The publisher's requests, restarts, the specification. *)

\* DeviceGateway.request: refused unless the active transport is connected,
\* else queued at its supervisor until a session takes it.
Ask ==
    /\ request = NoRequest
    /\ Connected(active)
    /\ request' = [at |-> "queued", via |-> active]
    /\ UNCHANGED <<userVars, watchVars, sup, target, status, used, overwritten>>

\* The Agent dies and starts: the files are all that is left.
Restart ==
    /\ used.restarts < MaxRestarts
    /\ used' = [used EXCEPT !.restarts = @ + 1]
    /\ active' = saved
    /\ intent' = StartIntent(saved)
    /\ fresh' = [t \in Transports |-> FALSE]
    /\ sup' = [t \in Transports |-> NewSupervisor]
    /\ target' = [target EXCEPT !.memory = target.file]
    /\ status' = [transport |-> "ble", mode |-> "auto"]
    /\ paused' = FALSE
    /\ handler' = [h \in Handlers |-> NoHandler]
    /\ request' = NoRequest
    /\ last' = "none"
    /\ overwritten' = FALSE
    /\ UNCHANGED saved

\* A supervisor goes on: its attempts end, its session serves, its timers fire.
Proceed(t) ==
    \/ Open(t) \/ HealthTick(t) \/ Interrupt(t) \/ Execute(t)
    \/ Revert(t) \/ Report(t) \/ Retry(t) \/ Wake(t) \/ PrimeInterrupted(t)
    \/ LinkUp(t) \/ Browse(t)

ProceedBle ==
    \/ BleTop \/ BleRests \/ BleFinds \/ BleScanEnds \/ BleInterrupted \/ BleEnded

ProceedLan ==
    \/ LanTop \/ LanFinds \/ LanScanEnds \/ LanSearchInterrupted
    \/ LanConnectInterrupted \/ LanEnded \/ LanClears \/ LanRests

Supervise(t) == Proceed(t) \/ (t = "ble" /\ ProceedBle) \/ (t = "lan" /\ ProceedLan)

Trouble(t) == LinkFails(t) \/ ExecuteFails(t) \/ PrimeFails(t)

Next ==
    \/ \E h \in Handlers : Begin(h) \/ Serve(h)
    \/ \E t \in Transports : Supervise(t) \/ Trouble(t)
    \/ BleFails \/ LanFindsNone \/ LanConnectFails
    \/ TogglePause \/ Ask \/ Restart

Spec == Init /\ [][Next]_vars

\* Tasks of a runtime with idle workers run; sleeps and ticks come due, and
\* select! picks a ready branch at random.
Fairness ==
    /\ \A h \in Handlers : WF_vars(Serve(h))
    /\ \A t \in Transports :
          WF_vars(Supervise(t)) /\ WF_vars(Interrupt(t)) /\ WF_vars(HealthTick(t))

FairSpec == Spec /\ Fairness

-----------------------------------------------------------------------------
(* Properties. *)

Places == {"top", "paused", "parked", "rest", "browse", "discover", "connect",
           "prime", "session", "revert", "report", "wait", "ended", "clear"}

\* Types of the gateway, the supervisors and the handlers.
TypeOK ==
    /\ active \in Transports /\ saved \in Transports
    /\ intent \in [Transports -> Intents]
    /\ fresh \in [Transports -> BOOLEAN]
    /\ sup \in [Transports -> [at : Places, desired : Intents,
                               controlled : BOOLEAN, next : Intents]]
    /\ target \in [file : BOOLEAN, memory : BOOLEAN]
    /\ status \in [transport : Transports, mode : Intents]
    /\ paused \in BOOLEAN
    /\ handler \in [Handlers -> [pc : {"idle", "leave", "release", "switch", "save",
                                       "reset", "announce", "command"},
                                 op : Operations, transport : Transports,
                                 previous : Transports]]
    /\ request \in [at : {"none", "queued"}, via : Transports]
    /\ used \in [commands : 0..MaxCommands, failures : 0..MaxFailures,
                 pauses : 0..MaxPauses, restarts : 0..MaxRestarts]
    /\ last \in Operations \cup {"none", "refused"}
    /\ overwritten \in BOOLEAN

\* A transport that is not the active one keeps no session that has not been
\* told to end, unless a supervisor replaced an intent it had not seen
\* (gateway.rs activate against the session loops of ble.rs and lan.rs).
StraySessionEnds ==
    \A t \in Transports :
        Connected(t) /\ t # active /\ HandlersIdle => fresh[t] \/ overwritten

\* After a disconnect no transport keeps a session that has not been told to
\* end, with the same exception (gateway.rs disconnect).
DisconnectHolds ==
    \A t \in Transports :
        last = "disconnect" /\ HandlersIdle /\ Connected(t) => fresh[t] \/ overwritten

\* A session serves the intent of the user: every change seen during the
\* attempt that opened it made the supervisor start over.
SessionServesIntent ==
    \A t \in Transports : Connected(t) /\ ~fresh[t] => intent[t] = sup[t].desired

\* The LAN supervisor parks for good only when it is to stay idle.
LanParksIdle == sup["lan"].at = "parked" /\ ~fresh["lan"] => intent["lan"] = "idle"

\* A session whose intent is withdrawn ends.
IdleDisconnects ==
    \A t \in Transports :
        intent[t] = "idle" ~> (~Connected(t) \/ intent[t] # "idle")

\* A session does not outlive a pause that lasts.
PauseDisconnects == \A t \in Transports : paused ~> (~paused \/ ~Connected(t))

\* An automatic LAN connection comes about, once failures stop, unless the user
\* changes the intent or pauses.
LanAutoConnects ==
    intent["lan"] = "auto" ~> (Connected("lan") \/ intent["lan"] # "auto" \/ paused)

-----------------------------------------------------------------------------
(* What the README says and the code does not keep. *)

\* BLE and LAN sessions exclude each other, once all intents are seen.
SessionsExclusive ==
    HandlersIdle /\ (\A t \in Transports : ~fresh[t]) => ~ \A t \in Transports : Connected(t)

=============================================================================
