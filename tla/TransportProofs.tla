--------------------------- MODULE TransportProofs ---------------------------
(* The types of Transport, that a supervisor works for the intent, and that *)
(* with requests served one at a time no session is left behind.            *)
EXTENDS Transport, TLAPS

\* A handler that goes on after it has left a transport states a new intent.
StatesIntent ==
    \A h \in Handlers :
        handler[h].pc \in {"switch", "save", "reset", "announce", "command"}
            => handler[h].op \in Intents

TypeInv == TypeOK /\ StatesIntent

HandlerState == [pc : {"idle", "leave", "release", "switch", "save",
                       "reset", "announce", "command"},
                 op : Operations, transport : Transports, previous : Transports]

SupState == [at : Places, desired : Intents, controlled : BOOLEAN, next : Intents]

-----------------------------------------------------------------------------
(* Types. *)

LEMMA InitType == Init => TypeInv
<1> SUFFICES ASSUME Init PROVE TypeInv
  OBVIOUS
<1>1. TypeOK
  <2>1. /\ active \in Transports /\ saved \in Transports /\ paused \in BOOLEAN
        /\ last \in Operations \cup {"none", "refused"} /\ overwritten \in BOOLEAN
    BY DEF Init
  <2>2. intent \in [Transports -> Intents] /\ fresh \in [Transports -> BOOLEAN]
    BY DEF Init, StartIntent, Intents
  <2>3. sup \in [Transports -> [at : Places, desired : Intents,
                               controlled : BOOLEAN, next : Intents]]
    BY DEF Init, NewSupervisor, Places, Intents
  <2>4. target \in [file : BOOLEAN, memory : BOOLEAN]
    BY DEF Init
  <2>5. status \in [transport : Transports, mode : Intents]
    BY DEF Init, Transports, Intents
  <2>6. handler \in [Handlers -> HandlerState]
    BY DEF Init, NoHandler, HandlerState, Operations, Transports
  <2>7. request \in [at : {"none", "queued"}, via : Transports]
    BY DEF Init, NoRequest, Transports
  <2>8. used \in [commands : 0..MaxCommands, failures : 0..MaxFailures,
                 pauses : 0..MaxPauses, restarts : 0..MaxRestarts]
    BY BoundAssumption DEF Init
  <2> QED
    BY <2>1, <2>2, <2>3, <2>4, <2>5, <2>6, <2>7, <2>8 DEF TypeOK, HandlerState
<1>2. StatesIntent
  BY DEF Init, StatesIntent, NoHandler
<1> QED
  BY <1>1, <1>2 DEF TypeInv

\* Moving a supervisor to a place of the loop keeps the types.
LEMMA GotoType ==
  ASSUME NEW t \in Transports, NEW place \in Places, TypeOK, Goto(t, place)
  PROVE  sup' \in [Transports -> SupState]
<1>1. sup \in [Transports -> SupState]
  BY DEF TypeOK, SupState
<1>2. [NewSupervisor EXCEPT !.at = place] \in SupState
  BY DEF NewSupervisor, SupState, Intents
<1>3. [sup[t] EXCEPT !.at = place] \in SupState
  BY <1>1 DEF SupState
<1> QED
  BY <1>1, <1>2, <1>3 DEF Goto

LEMMA EndType ==
  ASSUME NEW t \in Transports, NEW controlled \in BOOLEAN, TypeOK, End(t, controlled)
  PROVE  sup' \in [Transports -> SupState]
<1>1. sup \in [Transports -> SupState] /\ intent[t] \in Intents
  BY DEF TypeOK, SupState
<1>2. [sup[t] EXCEPT !.at = IF t = "ble" THEN "revert" ELSE "report",
                     !.controlled = controlled, !.next = intent[t]] \in SupState
  BY <1>1 DEF SupState, Places
<1> QED
  BY <1>1, <1>2 DEF End

\* A step of a handler that only moves itself and the active transport.
LEMMA HandlerFrame ==
  ASSUME TypeInv, active' \in Transports, saved' \in Transports,
         handler' \in [Handlers -> HandlerState], StatesIntent',
         UNCHANGED <<last, watchVars, sup, target, status, paused, request, used, overwritten>>
  PROVE  TypeInv'
  BY DEF TypeInv, TypeOK, HandlerState, watchVars

LEMMA MoveType ==
  ASSUME NEW h \in Handlers, TypeInv, Switch(h) \/ Save(h)
  PROVE  TypeInv'
<1>1. /\ active \in Transports /\ saved \in Transports
      /\ handler \in [Handlers -> HandlerState]
  BY DEF TypeInv, TypeOK, HandlerState
<1>2. handler[h].transport \in Transports /\ handler[h].op \in Intents
  BY <1>1 DEF Switch, Save, TypeInv, StatesIntent, HandlerState
<1>3. handler' = [handler EXCEPT ![h].pc = handler'[h].pc] /\ handler'[h].pc \in {"save", "reset"}
  BY <1>1 DEF Switch, Save, HandlerState
<1>4. handler' \in [Handlers -> HandlerState]
  BY <1>1, <1>3 DEF HandlerState
<1>5. StatesIntent'
  BY <1>1, <1>2, <1>3 DEF TypeInv, StatesIntent, HandlerState
<1>6. active' \in Transports /\ saved' \in Transports
  BY <1>1, <1>2 DEF Switch, Save
<1>7. UNCHANGED <<last, watchVars, sup, target, status, paused, request, used, overwritten>>
  BY DEF Switch, Save
<1> QED
  BY <1>4, <1>5, <1>6, <1>7, HandlerFrame

\* The steps of the web handlers.
LEMMA ServeType ==
  ASSUME NEW h \in Handlers, TypeInv, Begin(h) \/ Serve(h)
  PROVE  TypeInv'
<1>1. CASE Begin(h)
  BY SMTT(30), <1>1, BoundAssumption DEF Begin, Operations, Intents, Transports,
      TypeInv, TypeOK, StatesIntent, watchVars
<1>2. CASE Leave(h)
  BY SMTT(30), <1>2 DEF Leave, Intents,
      TypeInv, TypeOK, StatesIntent, watchVars
<1>3. CASE Release(h)
  BY <1>3 DEF Release, Want, NoHandler, Operations, Intents, Transports,
      TypeInv, TypeOK, StatesIntent, watchVars
<1>4. CASE Switch(h)
  BY <1>4, MoveType
<1>5. CASE Save(h)
  BY <1>5, MoveType
<1>6. CASE Reset(h)
  BY SMTT(30), <1>6 DEF Reset, Intents,
      TypeInv, TypeOK, StatesIntent, watchVars
<1>7. CASE Announce(h)
  BY ZenonT(30), <1>7 DEF Announce,
      TypeInv, TypeOK, StatesIntent, watchVars
<1>8. CASE Refuse(h)
  BY <1>8 DEF Refuse, NoHandler, Operations, Transports,
      TypeInv, TypeOK, StatesIntent, watchVars
<1>9. CASE Command(h)
  BY <1>9 DEF Command, Want, NoHandler, Operations, Transports,
      TypeInv, TypeOK, StatesIntent, watchVars
<1> QED
  BY <1>1, <1>2, <1>3, <1>4, <1>5, <1>6, <1>7, <1>8, <1>9 DEF Serve

\* A step that leaves the handlers and the active transport alone, and keeps
\* the types of what it changes.
LEMMA FrameType ==
  ASSUME TypeInv, UNCHANGED <<active, saved, handler, last>>,
         paused' \in BOOLEAN,
         intent' \in [Transports -> Intents], fresh' \in [Transports -> BOOLEAN],
         sup' \in [Transports -> SupState],
         target' \in [file : BOOLEAN, memory : BOOLEAN],
         status' \in [transport : Transports, mode : Intents],
         request' \in [at : {"none", "queued"}, via : Transports],
         used' \in [commands : 0..MaxCommands, failures : 0..MaxFailures,
                    pauses : 0..MaxPauses, restarts : 0..MaxRestarts],
         overwritten' \in BOOLEAN
  PROVE  TypeInv'
  BY DEF TypeInv, TypeOK, StatesIntent, SupState

LEMMA FailType ==
  ASSUME TypeOK, Fail
  PROVE  used' \in [commands : 0..MaxCommands, failures : 0..MaxFailures,
                    pauses : 0..MaxPauses, restarts : 0..MaxRestarts]
  BY BoundAssumption DEF TypeOK, Fail, MayFail

LEMMA NoticeType ==
  ASSUME NEW t \in Transports, TypeOK, Notice(t)
  PROVE  fresh' \in [Transports -> BOOLEAN]
  BY DEF TypeOK, Notice

\* The types a step starts from, part by part.
LEMMA TypeParts ==
  ASSUME TypeInv
  PROVE  /\ TypeOK
         /\ paused \in BOOLEAN
         /\ intent \in [Transports -> Intents] /\ fresh \in [Transports -> BOOLEAN]
         /\ sup \in [Transports -> SupState]
         /\ target \in [file : BOOLEAN, memory : BOOLEAN]
         /\ status \in [transport : Transports, mode : Intents]
         /\ request \in [at : {"none", "queued"}, via : Transports]
         /\ used \in [commands : 0..MaxCommands, failures : 0..MaxFailures,
                      pauses : 0..MaxPauses, restarts : 0..MaxRestarts]
         /\ overwritten \in BOOLEAN
  BY DEF TypeInv, TypeOK, SupState

\* The steps of both supervisors.
LEMMA ProceedType ==
  ASSUME NEW t \in Transports, TypeInv, Proceed(t) \/ Trouble(t)
  PROVE  TypeInv'
<1> USE TypeParts DEF userVars, watchVars
<1>0. t \in {"ble", "lan"} /\ NoRequest \in [at : {"none", "queued"}, via : Transports]
  BY DEF Transports, NoRequest
<1>1. CASE Open(t)
  <2>1. sup' \in [Transports -> SupState]
    BY <1>1, GotoType DEF Open, Places
  <2>2. /\ target' \in [file : BOOLEAN, memory : BOOLEAN]
        /\ status' \in [transport : Transports, mode : Intents]
    <3>1. CASE t = "lan"
      <4>1. status' = [status EXCEPT !.transport = "lan"]
            /\ target' = [file |-> TRUE, memory |-> TRUE]
        BY <1>1, <3>1 DEF Open
      <4>2. target' \in [file : BOOLEAN, memory : BOOLEAN]
        BY <4>1
      <4>3. status' \in [transport : Transports, mode : Intents]
        BY <4>1 DEF Transports
      <4> QED
        BY <4>2, <4>3
    <3>2. CASE t # "lan"
      BY <1>1, <3>2 DEF Open
    <3> QED
      BY <3>1, <3>2
  <2> QED
    BY <1>1, <2>1, <2>2, FrameType DEF Open
<1>2. CASE LinkFails(t)
  <2>1. sup' \in [Transports -> SupState]
    BY <1>2, EndType DEF LinkFails
  <2> QED
    BY <1>2, <2>1, FailType, FrameType DEF LinkFails
<1>3. CASE HealthTick(t)
  <2>1. sup' \in [Transports -> SupState]
    BY <1>3, EndType DEF HealthTick
  <2> QED
    BY <1>3, <2>1, FrameType DEF HealthTick
<1>4. CASE Interrupt(t)
  <2>1. sup' \in [Transports -> SupState]
    BY <1>4, EndType DEF Interrupt
  <2> QED
    BY <1>4, <2>1, NoticeType, FrameType DEF Interrupt
<1>5. CASE Execute(t)
  BY <1>0, <1>5, FrameType DEF Execute
<1>6. CASE ExecuteFails(t)
  <2>1. sup' \in [Transports -> SupState]
    BY <1>6, EndType DEF ExecuteFails
  <2> QED
    BY <1>0, <1>6, <2>1, FailType, FrameType DEF ExecuteFails
<1>7. CASE Revert(t)
  <2>1. PICK place \in {"report", "top"} : RevertTo(t, place)
    BY <1>7 DEF Revert
  <2>2. CASE ~sup[t].controlled /\ sup[t].next = "manual"
    <3>1. sup' = [sup EXCEPT ![t] = [@ EXCEPT !.at = place, !.next = "auto"]]
          /\ Replace(t, "manual", "auto")
      BY <2>1, <2>2 DEF RevertTo
    <3>2. [sup[t] EXCEPT !.at = place, !.next = "auto"] \in SupState
      <4>1. sup[t] \in SupState /\ place \in Places
        BY <2>1 DEF Places
      <4> QED
        BY <4>1 DEF SupState, Intents
    <3>3. sup' \in [Transports -> SupState]
      BY <3>1, <3>2
    <3>4. /\ intent' \in [Transports -> Intents] /\ fresh' \in [Transports -> BOOLEAN]
          /\ overwritten' \in BOOLEAN
      BY <3>1 DEF Replace, Intents
    <3> QED
      BY <2>1, <3>3, <3>4, FrameType DEF RevertTo
  <2>3. CASE ~(~sup[t].controlled /\ sup[t].next = "manual")
    <3>1. Goto(t, place) /\ UNCHANGED <<watchVars, overwritten>>
      BY <2>1, <2>3 DEF RevertTo
    <3>2. sup' \in [Transports -> SupState]
      BY <3>1, GotoType DEF Places
    <3> QED
      BY <2>1, <3>1, <3>2, FrameType DEF RevertTo
  <2> QED
    BY <2>2, <2>3
<1>8. CASE Report(t)
  <2>1. PICK place \in {"revert", "top"} : ReportTo(t, place)
    BY <1>8 DEF Report
  <2>2. sup' \in [Transports -> SupState]
    BY <2>1, GotoType DEF ReportTo, Places
  <2>3. status' \in [transport : Transports, mode : Intents]
    BY <2>1 DEF ReportTo, SupState
  <2> QED
    BY <2>1, <2>2, <2>3, FrameType DEF ReportTo
<1>9. CASE Retry(t)
  <2>1. sup' \in [Transports -> SupState]
    BY <1>9, GotoType DEF Retry, Places
  <2> QED
    BY <1>9, <2>1, FrameType DEF Retry
<1>10. CASE Wake(t)
  <2>1. sup' \in [Transports -> SupState]
    BY <1>10, GotoType DEF Wake, Places
  <2> QED
    BY <1>10, <2>1, NoticeType, FrameType DEF Wake
<1>11. CASE PrimeInterrupted(t)
  <2>1. sup' \in [Transports -> SupState]
    BY <1>11, GotoType DEF PrimeInterrupted, Places
  <2> QED
    BY <1>11, <2>1, NoticeType, FrameType DEF PrimeInterrupted
<1>12. CASE PrimeFails(t)
  <2>1. PICK place \in {"top", "wait"} : Goto(t, place)
    BY <1>12 DEF PrimeFails
  <2>2. sup' \in [Transports -> SupState]
    BY <2>1, GotoType DEF Places
  <2> QED
    BY <1>12, <2>2, FailType, FrameType DEF PrimeFails
<1>13. CASE LinkUp(t)
  <2>1. sup' \in [Transports -> SupState]
    BY <1>13, GotoType DEF LinkUp, Places
  <2> QED
    BY <1>13, <2>1, FrameType DEF LinkUp
<1>14. CASE Browse(t)
  <2>1. sup' \in [Transports -> SupState]
    BY <1>14, GotoType DEF Browse, Places
  <2>2. status' \in [transport : Transports, mode : Intents]
    BY <1>14 DEF Browse, SupState
  <2> QED
    BY <1>14, <2>1, <2>2, FrameType DEF Browse
<1> QED
  BY <1>1, <1>2, <1>3, <1>4, <1>5, <1>6, <1>7, <1>8, <1>9, <1>10, <1>11, <1>12, <1>13, <1>14
     DEF Proceed, Trouble
\* The steps of the BLE supervisor.
LEMMA BleType ==
  ASSUME TypeInv, ProceedBle \/ BleFails
  PROVE  TypeInv'
<1> USE TypeParts DEF userVars, watchVars
<1>0. "ble" \in Transports
  BY DEF Transports
<1>1. CASE BleTop
  <2>1. CASE paused
    <3>1. Goto("ble", "paused") /\ UNCHANGED fresh
      BY <1>1, <2>1 DEF BleTop
    <3>2. sup' \in [Transports -> SupState]
      BY <1>0, <3>1, GotoType DEF Places
    <3> QED
      BY <1>1, <3>1, <3>2, FrameType DEF BleTop
  <2>2. CASE ~paused
    <3>1. sup' = [sup EXCEPT !["ble"] =
                     [@ EXCEPT !.desired = intent["ble"],
                               !.at = IF intent["ble"] = "idle" THEN "rest" ELSE "browse"]]
          /\ fresh' = [fresh EXCEPT !["ble"] = FALSE]
      BY <1>1, <2>2 DEF BleTop
    <3>2. [sup["ble"] EXCEPT !.desired = intent["ble"],
              !.at = IF intent["ble"] = "idle" THEN "rest" ELSE "browse"] \in SupState
      <4>1. sup["ble"] \in SupState /\ intent["ble"] \in Intents
        BY <1>0
      <4> QED
        BY <4>1 DEF SupState, Places
    <3>3. sup' \in [Transports -> SupState] /\ fresh' \in [Transports -> BOOLEAN]
      BY <3>1, <3>2
    <3> QED
      BY <1>1, <3>3, FrameType DEF BleTop
  <2> QED
    BY <2>1, <2>2
<1>2. CASE BleRests
  <2>1. sup' \in [Transports -> SupState]
    BY <1>0, <1>2, GotoType DEF BleRests, Places
  <2>2. status' \in [transport : Transports, mode : Intents]
    BY <1>2 DEF BleRests, Intents
  <2> QED
    BY <1>2, <2>1, <2>2, FrameType DEF BleRests
<1>3. CASE BleFinds
  <2>1. sup' \in [Transports -> SupState]
    BY <1>0, <1>3, GotoType DEF BleFinds, Places
  <2> QED
    BY <1>3, <2>1, FrameType DEF BleFinds
<1>4. CASE BleScanEnds
  <2>1. sup' \in [Transports -> SupState]
    BY <1>0, <1>4, GotoType DEF BleScanEnds, Places
  <2> QED
    BY <1>4, <2>1, FrameType DEF BleScanEnds
<1>5. CASE BleInterrupted
  <2>1. sup' \in [Transports -> SupState]
    BY <1>0, <1>5, GotoType DEF BleInterrupted, Places
  <2> QED
    BY <1>0, <1>5, <2>1, NoticeType, FrameType DEF BleInterrupted
<1>6. CASE BleEnded
  <2>1. PICK place \in {"top", "rest"} : Goto("ble", place)
    BY <1>6 DEF BleEnded
  <2>2. sup' \in [Transports -> SupState]
    BY <1>0, <2>1, GotoType DEF Places
  <2>3. fresh' \in [Transports -> BOOLEAN]
    BY <1>6 DEF BleEnded
  <2> QED
    BY <1>6, <2>2, <2>3, FrameType DEF BleEnded
<1>7. CASE BleFails
  <2>1. sup' \in [Transports -> SupState]
    BY <1>0, <1>7, GotoType DEF BleFails, Places
  <2> QED
    BY <1>7, <2>1, FailType, FrameType DEF BleFails
<1> QED
  BY <1>1, <1>2, <1>3, <1>4, <1>5, <1>6, <1>7 DEF ProceedBle

\* The steps of the LAN supervisor.
LEMMA LanType ==
  ASSUME TypeInv, ProceedLan \/ LanFindsNone \/ LanConnectFails
  PROVE  TypeInv'
<1> USE TypeParts DEF userVars, watchVars
<1>0. "lan" \in Transports
  BY DEF Transports
<1>1. CASE LanTop
  <2>1. LanPlace(intent["lan"]) \in Places
    BY DEF LanPlace, Places
  <2>2. ASSUME NEW place \in Places PROVE LanAttempt(place) \in SupState
    <3>1. intent["lan"] \in Intents
      BY <1>0
    <3> QED
      BY <3>1 DEF LanAttempt, NewSupervisor, SupState, Intents
  <2>3. sup' \in [Transports -> SupState]
    BY <1>1, <2>1, <2>2 DEF LanTop
  <2>4. fresh' \in [Transports -> BOOLEAN]
    BY <1>1 DEF LanTop
  <2> QED
    BY <1>1, <2>3, <2>4, FrameType DEF LanTop
<1>2. CASE LanFinds
  <2>1. sup' \in [Transports -> SupState]
    BY <1>0, <1>2, GotoType DEF LanFinds, Places
  <2> QED
    BY <1>2, <2>1, FrameType DEF LanFinds
<1>3. CASE LanFindsNone
  <2>1. sup' \in [Transports -> SupState]
    BY <1>0, <1>3, GotoType DEF LanFindsNone, Places
  <2> QED
    BY <1>3, <2>1, FailType, FrameType DEF LanFindsNone
<1>4. CASE LanScanEnds
  <2>1. sup' \in [Transports -> SupState]
    BY <1>0, <1>4, GotoType DEF LanScanEnds, Places
  <2> QED
    BY <1>4, <2>1, FrameType DEF LanScanEnds
<1>5. CASE LanSearchInterrupted
  <2>1. PICK place \in {"ended", "wait"} : Goto("lan", place)
    BY <1>5 DEF LanSearchInterrupted
  <2>2. sup' \in [Transports -> SupState]
    BY <1>0, <2>1, GotoType DEF Places
  <2> QED
    BY <1>0, <1>5, <2>2, NoticeType, FrameType DEF LanSearchInterrupted
<1>6. CASE LanConnectInterrupted
  <2>1. sup' \in [Transports -> SupState]
    BY <1>0, <1>6, GotoType DEF LanConnectInterrupted, Places
  <2> QED
    BY <1>0, <1>6, <2>1, NoticeType, FrameType DEF LanConnectInterrupted
<1>7. CASE LanConnectFails
  <2>1. sup' \in [Transports -> SupState]
    BY <1>0, <1>7, GotoType DEF LanConnectFails, Places
  <2>2. target' \in [file : BOOLEAN, memory : BOOLEAN]
    BY <1>7 DEF LanConnectFails
  <2> QED
    BY <1>7, <2>1, <2>2, FailType, FrameType DEF LanConnectFails
<1>8. CASE LanEnded
  <2>1. PICK place \in {"clear", "top"} : Goto("lan", place)
    BY <1>8 DEF LanEnded
  <2>2. sup' \in [Transports -> SupState]
    BY <1>0, <2>1, GotoType DEF Places
  <2> QED
    BY <1>8, <2>2, FrameType DEF LanEnded
<1>9. CASE LanClears
  <2>1. sup' \in [Transports -> SupState]
    BY <1>0, <1>9, GotoType DEF LanClears, Places
  <2>2. /\ intent' \in [Transports -> Intents] /\ fresh' \in [Transports -> BOOLEAN]
        /\ overwritten' \in BOOLEAN
    BY <1>9 DEF LanClears, Replace, Intents
  <2> QED
    BY <1>9, <2>1, <2>2, FrameType DEF LanClears
<1>10. CASE LanRests
  <2>1. sup' \in [Transports -> SupState]
    BY <1>0, <1>10, GotoType DEF LanRests, Places
  <2>2. status' \in [transport : Transports, mode : Intents]
    BY <1>10 DEF LanRests, Intents
  <2> QED
    BY <1>10, <2>1, <2>2, FrameType DEF LanRests
<1> QED
  BY <1>1, <1>2, <1>3, <1>4, <1>5, <1>6, <1>7, <1>8, <1>9, <1>10 DEF ProceedLan

\* The user, the publisher, the restart.
LEMMA OtherType ==
  ASSUME TypeInv, TogglePause \/ Ask \/ Restart
  PROVE  TypeInv'
<1> USE TypeParts DEF watchVars
<1>1. CASE TogglePause
  <2>1. /\ paused' \in BOOLEAN
        /\ used' \in [commands : 0..MaxCommands, failures : 0..MaxFailures,
                      pauses : 0..MaxPauses, restarts : 0..MaxRestarts]
    BY <1>1, BoundAssumption DEF TogglePause
  <2> QED
    BY <1>1, <2>1, FrameType DEF TogglePause, gatewayVars
<1>2. CASE Ask
  <2>1. request' \in [at : {"none", "queued"}, via : Transports]
    BY <1>2 DEF Ask, TypeOK
  <2> QED
    BY <1>2, <2>1, FrameType DEF Ask, userVars
<1>3. CASE Restart
  <2>1. /\ active' \in Transports /\ saved' \in Transports /\ paused' \in BOOLEAN
        /\ last' \in Operations \cup {"none", "refused"} /\ overwritten' \in BOOLEAN
    BY <1>3 DEF Restart, TypeOK
  <2>2. intent' \in [Transports -> Intents] /\ fresh' \in [Transports -> BOOLEAN]
    BY <1>3 DEF Restart, StartIntent, Intents
  <2>3. sup' \in [Transports -> SupState]
    BY <1>3 DEF Restart, NewSupervisor, SupState, Places, Intents
  <2>4. target' \in [file : BOOLEAN, memory : BOOLEAN]
    BY <1>3 DEF Restart
  <2>5. status' \in [transport : Transports, mode : Intents]
    BY <1>3 DEF Restart, Transports, Intents
  <2>6. handler' \in [Handlers -> HandlerState] /\ StatesIntent'
    BY <1>3 DEF Restart, NoHandler, HandlerState, StatesIntent, Operations, Transports
  <2>7. request' \in [at : {"none", "queued"}, via : Transports]
    BY <1>3 DEF Restart, NoRequest, Transports
  <2>8. used' \in [commands : 0..MaxCommands, failures : 0..MaxFailures,
                   pauses : 0..MaxPauses, restarts : 0..MaxRestarts]
    BY <1>3, BoundAssumption DEF Restart
  <2> QED
    BY <2>1, <2>2, <2>3, <2>4, <2>5, <2>6, <2>7, <2>8 DEF TypeInv, TypeOK, HandlerState, SupState
<1> QED
  BY <1>1, <1>2, <1>3

LEMMA TypeStep == TypeInv /\ [Next]_vars => TypeInv'
<1> SUFFICES ASSUME TypeInv, [Next]_vars PROVE TypeInv'
  OBVIOUS
<1>1. ASSUME NEW h \in Handlers, Begin(h) \/ Serve(h) PROVE TypeInv'
  BY <1>1, ServeType
<1>2. ASSUME NEW t \in Transports, Proceed(t) \/ Trouble(t) PROVE TypeInv'
  BY <1>2, ProceedType
<1>3. CASE UNCHANGED vars
  BY <1>3 DEF vars, watchVars, TypeInv, TypeOK, StatesIntent
<1> QED
  BY <1>1, <1>2, <1>3, BleType, LanType, OtherType DEF Next, Supervise

\* Types of the gateway, the supervisors and the handlers (gateway.rs, ble.rs,
\* lan.rs): a handler never states "disconnect" as an intent.
THEOREM TransportTypes == Spec => []TypeOK
<1>1. Spec => []TypeInv
  BY InitType, TypeStep, PTL DEF Spec
<1> QED
  BY <1>1, PTL DEF TypeInv
-----------------------------------------------------------------------------
(* A supervisor works for the intent. *)

Attempting == {"browse", "discover", "connect", "prime", "session"}

\* Whatever the supervisor of t has seen of the intent it works for, or, over
\* LAN, waits for: from the top of the loop to the end of the session.  There is no
\* attempt for the intent to stay idle.
WorksForIntent(t) ==
    /\ sup[t].at \in Attempting =>
         /\ sup[t].desired # "idle"
         /\ ~fresh[t] => intent[t] = sup[t].desired
    /\ t = "lan" /\ sup[t].at = "parked" /\ ~fresh[t] => intent[t] = "idle"

AttemptServesIntent == \A t \in Transports : WorksForIntent(t)

LEMMA InitIntent == Init => AttemptServesIntent
  BY DEF Init, AttemptServesIntent, WorksForIntent, NewSupervisor, Attempting

\* A step of one supervisor leaves the other one, its intent and its view of
\* that intent alone.
OnlyMoves(t) ==
    \A u \in Transports \ {t} :
        sup'[u] = sup[u] /\ intent'[u] = intent[u] /\ fresh'[u] = fresh[u]

LEMMA OneMoves ==
  ASSUME NEW t \in Transports, AttemptServesIntent, OnlyMoves(t), WorksForIntent(t)'
  PROVE  AttemptServesIntent'
  BY DEF AttemptServesIntent, OnlyMoves, WorksForIntent

\* A supervisor that moves to a place where it holds no attempt.
LEMMA AttemptDropped ==
  ASSUME NEW t \in Transports, NEW place \in Places \ (Attempting \cup {"parked"}),
         TypeInv, AttemptServesIntent, Goto(t, place),
         intent' = intent, fresh' \in [Transports -> BOOLEAN],
         \A u \in Transports \ {t} : fresh'[u] = fresh[u]
  PROVE  AttemptServesIntent'
<1> USE TypeParts
<1>1. OnlyMoves(t)
  BY DEF Goto, OnlyMoves
<1>2. sup'[t].at = place
  BY DEF Goto, NewSupervisor, SupState
<1>3. WorksForIntent(t)'
  BY <1>2 DEF WorksForIntent
<1> QED
  BY <1>1, <1>3, OneMoves

\* An attempt that goes on keeps the intent it was made for.
LEMMA AttemptGoesOn ==
  ASSUME NEW t \in Transports, NEW place \in Attempting,
         TypeInv, AttemptServesIntent, Goto(t, place), sup[t].at \in Attempting,
         UNCHANGED <<intent, fresh>>
  PROVE  AttemptServesIntent'
<1> USE TypeParts
<1>1. OnlyMoves(t)
  BY DEF Goto, OnlyMoves
<1>2. sup'[t].at = place /\ sup'[t].desired = sup[t].desired
  BY DEF Goto, Fresh, Attempting, SupState
<1>3. place # "parked"
  BY DEF Attempting
<1>4. WorksForIntent(t)'
  BY <1>2, <1>3 DEF WorksForIntent, AttemptServesIntent
<1> QED
  BY <1>1, <1>4, OneMoves

LEMMA SessionEnded ==
  ASSUME NEW t \in Transports, NEW controlled, TypeInv, AttemptServesIntent,
         End(t, controlled), intent' = intent, fresh' \in [Transports -> BOOLEAN],
         \A u \in Transports \ {t} : fresh'[u] = fresh[u]
  PROVE  AttemptServesIntent'
<1> USE TypeParts
<1>1. OnlyMoves(t)
  BY DEF End, OnlyMoves
<1>2. sup'[t].at \in {"revert", "report"}
  BY DEF End, SupState
<1>3. WorksForIntent(t)'
  BY <1>2 DEF WorksForIntent, Attempting
<1> QED
  BY <1>1, <1>3, OneMoves

\* Handlers state intents: what they change the supervisor has not seen.
LEMMA IntentStated ==
  ASSUME TypeInv, AttemptServesIntent, UNCHANGED sup,
         \/ UNCHANGED watchVars
         \/ \E t \in Transports, wanted \in Intents : Want(t, wanted)
  PROVE  AttemptServesIntent'
  BY TypeParts DEF AttemptServesIntent, WorksForIntent, Want, watchVars

\* Noticing a change changes what one supervisor has seen.
LEMMA NoticeFrame ==
  ASSUME NEW t \in Transports, TypeOK,
         Notice(t) \/ fresh' = [fresh EXCEPT ![t] = FALSE] \/ UNCHANGED fresh
  PROVE  /\ fresh' \in [Transports -> BOOLEAN]
         /\ \A u \in Transports \ {t} : fresh'[u] = fresh[u]
  BY DEF TypeOK, Notice

\* The handlers and the publisher.
LEMMA StateIntent ==
  ASSUME TypeInv, AttemptServesIntent,
         \/ \E h \in Handlers : Begin(h) \/ Serve(h)
         \/ TogglePause \/ Ask \/ Restart
  PROVE  AttemptServesIntent'
<1>1. ASSUME NEW h \in Handlers, Begin(h) \/ Serve(h) PROVE AttemptServesIntent'
  <2>1. CASE Begin(h)
    BY <2>1, IntentStated DEF Begin
  <2>2. CASE Leave(h)
    BY <2>2, IntentStated DEF Leave
  <2>3. CASE Release(h)
    <3>1. handler[h].previous \in Transports
      BY DEF TypeInv, TypeOK
    <3>2. Want(handler[h].previous, "idle") /\ UNCHANGED sup
      BY <2>3 DEF Release
    <3> QED
      BY <3>1, <3>2, IntentStated DEF Intents
  <2>4. CASE Switch(h)
    BY <2>4, IntentStated DEF Switch
  <2>5. CASE Save(h)
    BY <2>5, IntentStated DEF Save
  <2>6. CASE Reset(h)
    BY <2>6, IntentStated DEF Reset
  <2>7. CASE Announce(h)
    BY <2>7, IntentStated DEF Announce
  <2>8. CASE Refuse(h)
    BY <2>8, IntentStated DEF Refuse
  <2>9. CASE Command(h)
    <3>1. handler[h].transport \in Transports /\ handler[h].op \in Intents
      BY <2>9 DEF TypeInv, TypeOK, StatesIntent, Command
    <3>2. Want(handler[h].transport, handler[h].op) /\ UNCHANGED sup
      BY <2>9 DEF Command
    <3> QED
      BY <3>1, <3>2, IntentStated
  <2> QED
    BY <1>1, <2>1, <2>2, <2>3, <2>4, <2>5, <2>6, <2>7, <2>8, <2>9 DEF Serve
<1>2. CASE TogglePause
  BY <1>2, IntentStated DEF TogglePause
<1>3. CASE Ask
  BY <1>3, IntentStated DEF Ask
<1>4. CASE Restart
  BY <1>4 DEF Restart, AttemptServesIntent, WorksForIntent, NewSupervisor, Attempting
<1> QED
  BY <1>1, <1>2, <1>3, <1>4

\* The steps of both supervisors.
LEMMA ProceedIntent ==
  ASSUME NEW t \in Transports, TypeInv, AttemptServesIntent, Proceed(t) \/ Trouble(t)
  PROVE  AttemptServesIntent'
<1> USE TypeParts DEF watchVars
<1>1. CASE Open(t)
  BY <1>1, AttemptGoesOn DEF Open, Attempting
<1>2. CASE LinkFails(t)
  BY <1>2, NoticeFrame, SessionEnded DEF LinkFails
<1>3. CASE HealthTick(t)
  BY <1>3, NoticeFrame, SessionEnded DEF HealthTick
<1>4. CASE Interrupt(t)
  BY <1>4, NoticeFrame, SessionEnded DEF Interrupt, userVars
<1>5. CASE Execute(t)
  BY <1>5, IntentStated DEF Execute
<1>6. CASE ExecuteFails(t)
  BY <1>6, NoticeFrame, SessionEnded DEF ExecuteFails
<1>7. CASE Revert(t)
  <2>1. PICK place \in {"report", "top"} : RevertTo(t, place)
    BY <1>7 DEF Revert
  <2>2. CASE ~sup[t].controlled /\ sup[t].next = "manual"
    <3>1. /\ sup' = [sup EXCEPT ![t] = [@ EXCEPT !.at = place, !.next = "auto"]]
          /\ intent' = [intent EXCEPT ![t] = "auto"]
          /\ fresh' = [fresh EXCEPT ![t] = FALSE]
      BY <2>1, <2>2 DEF RevertTo, Replace
    <3>2. OnlyMoves(t)
      BY <3>1 DEF OnlyMoves
    <3>3. sup'[t].at = place
      BY <3>1 DEF SupState
    <3>4. WorksForIntent(t)'
      BY <3>3 DEF WorksForIntent, Attempting
    <3> QED
      BY <3>2, <3>4, OneMoves
  <2>3. CASE ~(~sup[t].controlled /\ sup[t].next = "manual")
    <3>1. Goto(t, place) /\ intent' = intent /\ UNCHANGED fresh
      BY <2>1, <2>3 DEF RevertTo
    <3>2. place \in Places \ (Attempting \cup {"parked"})
      BY DEF Places, Attempting
    <3> QED
      BY <3>1, <3>2, NoticeFrame, AttemptDropped
  <2> QED
    BY <2>2, <2>3
<1>8. CASE Report(t)
  <2>1. PICK place \in {"revert", "top"} : ReportTo(t, place)
    BY <1>8 DEF Report
  <2>2. place \in Places \ (Attempting \cup {"parked"})
    BY DEF Places, Attempting
  <2> QED
    BY <2>1, <2>2, NoticeFrame, AttemptDropped DEF ReportTo
<1>9. "top" \in Places \ (Attempting \cup {"parked"}) /\ "wait" \in Places \ (Attempting \cup {"parked"})
  BY DEF Places, Attempting
<1>10. CASE Retry(t)
  BY <1>9, <1>10, NoticeFrame, AttemptDropped DEF Retry
<1>11. CASE Wake(t)
  BY <1>9, <1>11, NoticeFrame, AttemptDropped DEF Wake
<1>12. CASE PrimeInterrupted(t)
  BY <1>9, <1>12, NoticeFrame, AttemptDropped DEF PrimeInterrupted
<1>13. CASE PrimeFails(t)
  <2>1. PICK place \in {"top", "wait"} : Goto(t, place) /\ UNCHANGED <<intent, fresh>>
    BY <1>13 DEF PrimeFails
  <2> QED
    BY <1>9, <2>1, NoticeFrame, AttemptDropped
<1>14. CASE LinkUp(t)
  BY <1>14, AttemptGoesOn DEF LinkUp, Attempting
<1>15. CASE Browse(t)
  BY <1>15, AttemptGoesOn DEF Browse, Attempting
<1> QED
  BY <1>1, <1>2, <1>3, <1>4, <1>5, <1>6, <1>7, <1>8, <1>10, <1>11, <1>12, <1>13, <1>14, <1>15
     DEF Proceed, Trouble

\* The steps of the BLE supervisor.
LEMMA BleIntent ==
  ASSUME TypeInv, AttemptServesIntent, ProceedBle \/ BleFails
  PROVE  AttemptServesIntent'
<1> USE TypeParts DEF watchVars
<1>0. "ble" \in Transports
  BY DEF Transports
<1>1. ASSUME NEW place \in {"top", "rest", "paused", "ended", "wait"}
      PROVE place \in Places \ (Attempting \cup {"parked"})
  BY DEF Places, Attempting
<1>2. CASE BleTop
  <2>1. CASE paused
    BY <1>0, <1>1, <1>2, <2>1, NoticeFrame, AttemptDropped DEF BleTop
  <2>2. CASE ~paused
    <3>1. /\ sup' = [sup EXCEPT !["ble"] =
                       [@ EXCEPT !.desired = intent["ble"],
                                 !.at = IF intent["ble"] = "idle" THEN "rest" ELSE "browse"]]
          /\ fresh' = [fresh EXCEPT !["ble"] = FALSE]
          /\ intent' = intent
      BY <1>2, <2>2 DEF BleTop
    <3>2. OnlyMoves("ble")
      BY <3>1 DEF OnlyMoves
    <3>3. /\ sup'["ble"].desired = intent["ble"]
          /\ sup'["ble"].at = IF intent["ble"] = "idle" THEN "rest" ELSE "browse"
      BY <1>0, <3>1 DEF SupState
    <3>4. WorksForIntent("ble")'
      BY <3>1, <3>3 DEF WorksForIntent, Attempting
    <3> QED
      BY <1>0, <3>2, <3>4, OneMoves
  <2> QED
    BY <2>1, <2>2
<1>3. CASE BleRests
  <2>1. Goto("ble", "parked") /\ UNCHANGED <<intent, fresh>>
    BY <1>3 DEF BleRests
  <2>2. OnlyMoves("ble") /\ sup'["ble"].at = "parked"
    BY <1>0, <2>1 DEF Goto, OnlyMoves, Fresh, NewSupervisor
  <2>3. WorksForIntent("ble")'
    BY <2>2 DEF WorksForIntent, Attempting
  <2> QED
    BY <1>0, <2>2, <2>3, OneMoves
<1>4. CASE BleFinds
  BY <1>0, <1>4, AttemptGoesOn DEF BleFinds, Attempting
<1>5. CASE BleScanEnds
  BY <1>0, <1>1, <1>5, NoticeFrame, AttemptDropped DEF BleScanEnds
<1>6. CASE BleInterrupted
  BY <1>0, <1>1, <1>6, NoticeFrame, AttemptDropped DEF BleInterrupted
<1>7. CASE BleEnded
  <2>1. PICK place \in {"top", "rest"} : Goto("ble", place)
    BY <1>7 DEF BleEnded
  <2>2. intent' = intent /\ (fresh' = [fresh EXCEPT !["ble"] = FALSE] \/ UNCHANGED fresh)
    BY <1>7 DEF BleEnded
  <2> QED
    BY <1>0, <1>1, <2>1, <2>2, NoticeFrame, AttemptDropped
<1>8. CASE BleFails
  BY <1>0, <1>1, <1>8, NoticeFrame, AttemptDropped DEF BleFails
<1> QED
  BY <1>2, <1>3, <1>4, <1>5, <1>6, <1>7, <1>8 DEF ProceedBle

\* The steps of the LAN supervisor.
LEMMA LanIntent ==
  ASSUME TypeInv, AttemptServesIntent, ProceedLan \/ LanFindsNone \/ LanConnectFails
  PROVE  AttemptServesIntent'
<1> USE TypeParts DEF watchVars
<1>0. "lan" \in Transports
  BY DEF Transports
<1>1. ASSUME NEW place \in {"top", "rest", "clear", "ended", "wait"}
      PROVE place \in Places \ (Attempting \cup {"parked"})
  BY DEF Places, Attempting
<1>2. CASE LanTop
  <2> DEFINE place == LanPlace(intent["lan"])
  <2>1. /\ sup' = [sup EXCEPT !["lan"] = LanAttempt(place)]
        /\ fresh' = [fresh EXCEPT !["lan"] = FALSE]
        /\ intent' = intent
    BY <1>2 DEF LanTop
  <2>2. OnlyMoves("lan")
    BY <2>1 DEF OnlyMoves
  <2>3. sup'["lan"] = LanAttempt(place)
    BY <1>0, <2>1
  <2>4. /\ place \in {"parked", "paused", "browse", "connect"}
        /\ place = "parked" <=> intent["lan"] = "idle"
    BY DEF LanPlace
  <2>5. /\ LanAttempt(place).at = place
        /\ place \in {"browse", "connect"} => LanAttempt(place).desired = intent["lan"]
    BY DEF LanAttempt, NewSupervisor
  <2>6. WorksForIntent("lan")'
    <3> HIDE DEF place
    <3> QED
      BY <2>1, <2>3, <2>4, <2>5 DEF WorksForIntent, Attempting
  <2> QED
    BY <1>0, <2>2, <2>6, OneMoves
<1>3. CASE LanFinds
  BY <1>0, <1>3, AttemptGoesOn DEF LanFinds, Attempting
<1>4. CASE LanFindsNone
  BY <1>0, <1>1, <1>4, NoticeFrame, AttemptDropped DEF LanFindsNone
<1>5. CASE LanScanEnds
  BY <1>0, <1>1, <1>5, NoticeFrame, AttemptDropped DEF LanScanEnds
<1>6. CASE LanSearchInterrupted
  <2>1. PICK place \in {"ended", "wait"} : Goto("lan", place)
    BY <1>6 DEF LanSearchInterrupted
  <2> QED
    BY <1>0, <1>1, <1>6, <2>1, NoticeFrame, AttemptDropped DEF LanSearchInterrupted
<1>7. CASE LanConnectInterrupted
  BY <1>0, <1>1, <1>7, NoticeFrame, AttemptDropped DEF LanConnectInterrupted
<1>8. CASE LanConnectFails
  BY <1>0, <1>1, <1>8, NoticeFrame, AttemptDropped DEF LanConnectFails
<1>9. CASE LanEnded
  <2>1. PICK place \in {"clear", "top"} : Goto("lan", place)
    BY <1>9 DEF LanEnded
  <2> QED
    BY <1>0, <1>1, <1>9, <2>1, NoticeFrame, AttemptDropped DEF LanEnded
<1>10. CASE LanClears
  <2>1. /\ intent' = [intent EXCEPT !["lan"] = "idle"]
        /\ fresh' = [fresh EXCEPT !["lan"] = FALSE]
        /\ Goto("lan", "rest")
    BY <1>10 DEF LanClears, Replace
  <2>2. OnlyMoves("lan") /\ sup'["lan"].at = "rest"
    BY <1>0, <2>1 DEF Goto, OnlyMoves, Fresh, SupState
  <2>3. WorksForIntent("lan")'
    BY <2>2 DEF WorksForIntent, Attempting
  <2> QED
    BY <1>0, <2>2, <2>3, OneMoves
<1>11. CASE LanRests
  BY <1>0, <1>1, <1>11, NoticeFrame, AttemptDropped DEF LanRests
<1> QED
  BY <1>2, <1>3, <1>4, <1>5, <1>6, <1>7, <1>8, <1>9, <1>10, <1>11 DEF ProceedLan

LEMMA IntentStep == TypeInv /\ AttemptServesIntent /\ [Next]_vars => AttemptServesIntent'
<1> SUFFICES ASSUME TypeInv, AttemptServesIntent, [Next]_vars PROVE AttemptServesIntent'
  OBVIOUS
<1>1. ASSUME NEW t \in Transports, Proceed(t) \/ Trouble(t) PROVE AttemptServesIntent'
  BY <1>1, ProceedIntent
<1>2. CASE UNCHANGED vars
  BY <1>2, IntentStated DEF vars, watchVars
<1> QED
  BY <1>1, <1>2, StateIntent, BleIntent, LanIntent DEF Next, Supervise

LEMMA WorkingForIntent == Spec => []AttemptServesIntent
  BY InitType, TypeStep, InitIntent, IntentStep, PTL DEF Spec

\* A session that has no change left to see serves the intent its channel
\* holds: whatever was seen while it was found, connected and primed made the
\* supervisor of ble.rs or lan.rs start over.
THEOREM ServesIntent == Spec => []SessionServesIntent
<1>1. AttemptServesIntent => SessionServesIntent
  BY DEF AttemptServesIntent, WorksForIntent, SessionServesIntent, Connected, Attempting
<1> QED
  BY <1>1, WorkingForIntent, PTL

\* The LAN supervisor waits without a timer only when its intent is to stay
\* idle, or it has a change to wake up for (lan.rs, the top of the loop).
THEOREM LanParks == Spec => []LanParksIdle
<1>1. AttemptServesIntent => LanParksIdle
  BY DEF AttemptServesIntent, WorksForIntent, LanParksIdle, Transports
<1> QED
  BY <1>1, WorkingForIntent, PTL

-----------------------------------------------------------------------------
(* Requests one at a time. *)

\* At most one request is being served.
OneAtATime ==
    \A g, h \in Handlers : handler[g].pc # "idle" /\ handler[h].pc # "idle" => g = h

\* A handler leaves the active transport, or states an intent on it.
OnActive ==
    \A h \in Handlers :
        /\ handler[h].pc \in {"leave", "release", "switch"} => handler[h].previous = active
        /\ handler[h].pc \in {"save", "reset", "announce", "command"} =>
             handler[h].transport = active

\* Only the active transport has something to do, and not while it is being left or
\* after a disconnect.
OthersIdle ==
    ~overwritten =>
        /\ \A t \in Transports : t # active => intent[t] = "idle"
        /\ \A h \in Handlers : handler[h].pc = "switch" => intent[active] = "idle"
        /\ last = "disconnect" => \A t \in Transports : intent[t] = "idle"

SwitchInv == OnActive /\ OthersIdle

LEMMA InitSwitch == Init => SwitchInv
  BY DEF Init, SwitchInv, OnActive, OthersIdle, StartIntent, NoHandler

\* A supervisor replaces what is not idle, or has overwritten it.
LEMMA SwitchKept ==
  ASSUME TypeInv, SwitchInv, UNCHANGED <<active, handler, last>>,
         \/ UNCHANGED <<intent, overwritten>>
         \/ \E t \in Transports, checked \in {"manual", "scan"}, wanted \in Intents :
               Replace(t, checked, wanted)
  PROVE  SwitchInv'
<1>1. OnActive'
  BY DEF SwitchInv, OnActive
<1>2. CASE UNCHANGED <<intent, overwritten>>
  BY <1>1, <1>2 DEF SwitchInv, OthersIdle
<1>3. ASSUME NEW t \in Transports, NEW checked \in {"manual", "scan"}, NEW wanted \in Intents,
             Replace(t, checked, wanted)
      PROVE  OthersIdle'
  <2> SUFFICES ASSUME ~overwritten' PROVE OthersIdle'
    BY DEF OthersIdle
  <2>1. ~overwritten /\ intent[t] = checked
    BY <1>3 DEF Replace
  <2>2. intent[t] # "idle"
    BY <2>1
  <2>3. t = active /\ last # "disconnect" /\ \A h \in Handlers : handler[h].pc # "switch"
    BY <2>1, <2>2 DEF SwitchInv, OthersIdle
  <2>4. \A u \in Transports : u # active => intent'[u] = intent[u]
    BY <1>3, <2>3 DEF Replace
  <2> QED
    BY <2>1, <2>3, <2>4 DEF SwitchInv, OthersIdle
<1> QED
  BY <1>1, <1>2, <1>3 DEF SwitchInv

\* The steps of the web handlers.
LEMMA ServeSwitch ==
  ASSUME TypeInv, SwitchInv, OneAtATime, OneAtATime',
         NEW h \in Handlers, Begin(h) \/ Serve(h)
  PROVE  SwitchInv'
<1>1. \A g \in Handlers \ {h} : handler'[g].pc = "idle"
  <2>1. \A g \in Handlers \ {h} : handler'[g] = handler[g]
    BY DEF Begin, Serve, Leave, Release, Switch, Save, Reset, Announce, Refuse, Command,
       TypeInv, TypeOK
  <2>2. CASE Begin(h)
    <3>1. handler'[h].pc # "idle"
      BY <2>2 DEF Begin, TypeInv, TypeOK
    <3> QED
      BY <3>1 DEF OneAtATime
  <2>3. CASE Serve(h)
    <3>1. handler[h].pc # "idle"
      BY <2>3 DEF Serve, Leave, Release, Switch, Save, Reset, Announce, Refuse, Command
    <3> QED
      BY <2>1, <3>1 DEF OneAtATime
  <2> QED
    BY <2>2, <2>3
<1>2. /\ handler \in [Handlers -> HandlerState] /\ intent \in [Transports -> Intents]
      /\ active \in Transports
      /\ handler[h].pc \in {"leave", "release", "switch"} => handler[h].previous = active
      /\ handler[h].pc \in {"save", "reset", "announce", "command"} =>
           handler[h].transport = active
  BY DEF TypeInv, TypeOK, HandlerState, SwitchInv, OnActive
<1>3. ASSUME UNCHANGED <<active, intent, last, overwritten>>,
             handler'[h].pc # "switch",
             handler'[h].pc = "leave" => handler'[h].previous = active,
             handler'[h].pc = "release" => handler'[h].previous = active,
             handler'[h].pc \in {"save", "reset", "announce", "command"} =>
               handler'[h].transport = active
      PROVE  SwitchInv'
  BY <1>1, <1>3 DEF SwitchInv, OnActive, OthersIdle
<1>4. CASE Begin(h)
  <2>1. PICK op \in Operations, t \in Transports :
          handler' = [handler EXCEPT ![h] =
              [pc |-> IF op # "disconnect" /\ t = active THEN "announce" ELSE "leave",
               op |-> op, transport |-> t, previous |-> active]]
    BY <1>4 DEF Begin
  <2>2. /\ handler'[h].pc \in {"announce", "leave"} /\ handler'[h].previous = active
        /\ handler'[h].pc = "announce" => handler'[h].transport = active
    BY <1>2, <2>1
  <2> QED
    BY <1>3, <1>4, <2>2 DEF Begin, watchVars
<1>5. CASE Leave(h)
  <2>1. handler'[h].pc = "release" /\ handler'[h].previous = active
    BY <1>2, <1>5 DEF Leave, HandlerState
  <2> QED
    BY <1>3, <1>5, <2>1 DEF Leave, watchVars
<1>6. CASE Release(h)
  <2>1. /\ intent' = [intent EXCEPT ![active] = "idle"] /\ UNCHANGED <<active, overwritten>>
    BY <1>2, <1>6 DEF Release, Want
  <2>2. intent'[active] = "idle" /\ \A u \in Transports : u # active => intent'[u] = intent[u]
    BY <1>2, <2>1
  <2>3. /\ handler'[h].pc \in {"idle", "switch"}
        /\ handler'[h].pc = "switch" => handler'[h].previous = active
    BY <1>2, <1>6 DEF Release, NoHandler, HandlerState
  <2>4. OnActive'
    BY <1>1, <2>1, <2>3 DEF OnActive
  <2>5. OthersIdle'
    BY <2>1, <2>2 DEF SwitchInv, OthersIdle
  <2> QED
    BY <2>4, <2>5 DEF SwitchInv
<1>7. CASE Switch(h)
  <2>1. /\ active' = handler[h].transport /\ UNCHANGED <<intent, overwritten, last>>
    BY <1>7 DEF Switch, watchVars
  <2>2. handler'[h].pc = "save" /\ handler'[h].transport = active'
    BY <1>2, <1>7 DEF Switch, HandlerState
  <2>3. OnActive'
    BY <1>1, <2>2 DEF OnActive
  <2>4. ~overwritten => \A u \in Transports : intent[u] = "idle"
    BY <1>7 DEF SwitchInv, OthersIdle, Switch
  <2>5. OthersIdle'
    BY <1>1, <2>1, <2>2, <2>4 DEF OthersIdle
  <2> QED
    BY <2>3, <2>5 DEF SwitchInv
<1>8. CASE Save(h)
  <2>1. handler'[h].pc = "reset" /\ handler'[h].transport = active
    BY <1>2, <1>8 DEF Save, HandlerState
  <2> QED
    BY <1>3, <1>8, <2>1 DEF Save, watchVars
<1>9. CASE Reset(h)
  <2>1. handler'[h].pc = "announce" /\ handler'[h].transport = active
    BY <1>2, <1>9 DEF Reset, HandlerState
  <2> QED
    BY <1>3, <1>9, <2>1 DEF Reset, watchVars
<1>10. CASE Announce(h)
  <2>1. handler'[h].pc = "command" /\ handler'[h].transport = active
    BY <1>2, <1>10 DEF Announce, HandlerState
  <2> QED
    BY <1>3, <1>10, <2>1 DEF Announce, watchVars
<1>11. CASE Refuse(h)
  <2>1. /\ UNCHANGED <<active, intent, overwritten>> /\ last' = "refused"
        /\ handler'[h].pc = "idle"
    BY <1>2, <1>11 DEF Refuse, watchVars, NoHandler
  <2> QED
    BY <1>1, <2>1 DEF SwitchInv, OnActive, OthersIdle
<1>12. CASE Command(h)
  <2>1. /\ intent' = [intent EXCEPT ![active] = handler[h].op] /\ UNCHANGED <<active, overwritten>>
        /\ handler'[h].pc = "idle"
    BY <1>2, <1>12 DEF Command, Want, NoHandler
  <2>2. last' # "disconnect"
    BY <1>12 DEF Command, TypeInv, StatesIntent, Intents
  <2>3. \A u \in Transports : u # active => intent'[u] = intent[u]
    BY <1>2, <2>1
  <2> QED
    BY <1>1, <2>1, <2>2, <2>3 DEF SwitchInv, OnActive, OthersIdle
<1> QED
  BY <1>4, <1>5, <1>6, <1>7, <1>8, <1>9, <1>10, <1>11, <1>12 DEF Serve

\* The steps of the supervisors.
LEMMA SuperviseSwitch ==
  ASSUME TypeInv, SwitchInv,
         \/ \E t \in Transports : Supervise(t) \/ Trouble(t)
         \/ BleFails \/ LanFindsNone \/ LanConnectFails
  PROVE  SwitchInv'
<1> USE DEF userVars, watchVars
<1>1. ASSUME NEW t \in Transports, Revert(t) PROVE SwitchInv'
  <2>1. PICK place \in {"report", "top"} : RevertTo(t, place)
    BY <1>1 DEF Revert
  <2>2. /\ UNCHANGED <<active, handler, last>>
        /\ UNCHANGED <<intent, overwritten>> \/ Replace(t, "manual", "auto")
    BY <2>1 DEF RevertTo
  <2> QED
    BY <2>2, SwitchKept DEF Intents
<1>2. ASSUME NEW t \in Transports, Proceed(t) \/ Trouble(t), ~Revert(t) PROVE SwitchInv'
  <2>1. UNCHANGED <<active, handler, last>> /\ UNCHANGED <<intent, overwritten>>
    BY <1>2 DEF Proceed, Trouble, Open, HealthTick, Interrupt, Execute, Report, ReportTo,
       Retry, Wake, PrimeInterrupted, LinkUp, Browse, LinkFails, ExecuteFails, PrimeFails
  <2> QED
    BY <2>1, SwitchKept
<1>3. ASSUME ProceedBle \/ BleFails PROVE SwitchInv'
  <2>1. UNCHANGED <<active, handler, last>> /\ UNCHANGED <<intent, overwritten>>
    BY <1>3 DEF ProceedBle, BleTop, BleRests, BleFinds, BleScanEnds, BleInterrupted,
       BleEnded, BleFails
  <2> QED
    BY <2>1, SwitchKept
<1>4. ASSUME LanClears PROVE SwitchInv'
  <2>1. "lan" \in Transports /\ "idle" \in Intents
    BY DEF Transports, Intents
  <2>2. UNCHANGED <<active, handler, last>> /\ Replace("lan", "scan", "idle")
    BY <1>4 DEF LanClears
  <2> QED
    BY <2>1, <2>2, SwitchKept
<1>5. ASSUME ProceedLan \/ LanFindsNone \/ LanConnectFails, ~LanClears PROVE SwitchInv'
  <2>1. UNCHANGED <<active, handler, last>> /\ UNCHANGED <<intent, overwritten>>
    BY <1>5 DEF ProceedLan, LanTop, LanFinds, LanScanEnds, LanSearchInterrupted,
       LanConnectInterrupted, LanEnded, LanRests, LanFindsNone, LanConnectFails
  <2> QED
    BY <2>1, SwitchKept
<1> QED
  BY <1>1, <1>2, <1>3, <1>4, <1>5 DEF Supervise

LEMMA SwitchStep ==
  ASSUME TypeInv, SwitchInv, OneAtATime, OneAtATime', [Next]_vars
  PROVE  SwitchInv'
<1>1. CASE \E h \in Handlers : Begin(h) \/ Serve(h)
  BY <1>1, ServeSwitch
<1>2. CASE TogglePause \/ Ask \/ UNCHANGED vars
  <2>1. UNCHANGED <<active, handler, last>> /\ UNCHANGED <<intent, overwritten>>
    BY <1>2 DEF TogglePause, Ask, vars, gatewayVars, userVars, watchVars
  <2> QED
    BY <2>1, SwitchKept
<1>3. CASE Restart
  BY <1>3 DEF Restart, SwitchInv, OnActive, OthersIdle, StartIntent, NoHandler
<1> QED
  BY <1>1, <1>2, <1>3, SuperviseSwitch DEF Next

LEMMA OnlyActiveWorks == Spec /\ []OneAtATime => [](AttemptServesIntent /\ SwitchInv)
<1>1. TypeInv /\ SwitchInv /\ OneAtATime /\ OneAtATime' /\ [Next]_vars => SwitchInv'
  BY SwitchStep
<1> QED
  BY <1>1, InitType, TypeStep, InitSwitch, WorkingForIntent, PTL DEF Spec

\* While requests are served one at a time, a transport that is not the active one keeps
\* no session that has not been told to end, unless a supervisor replaced an intent it
\* had not seen (gateway.rs activate against the session loops of ble.rs and lan.rs).
THEOREM StrayEnds == Spec /\ []OneAtATime => []StraySessionEnds
<1>1. AttemptServesIntent /\ SwitchInv => StraySessionEnds
  BY DEF AttemptServesIntent, WorksForIntent, SwitchInv, OthersIdle, StraySessionEnds,
     Connected, Attempting
<1> QED
  BY <1>1, OnlyActiveWorks, PTL

\* While requests are served one at a time, a disconnect leaves no session on either
\* transport that has not been told to end, with the same exception (gateway.rs
\* disconnect).
THEOREM DisconnectLeavesNone == Spec /\ []OneAtATime => []DisconnectHolds
<1>1. AttemptServesIntent /\ SwitchInv => DisconnectHolds
  BY DEF AttemptServesIntent, WorksForIntent, SwitchInv, OthersIdle, DisconnectHolds,
     Connected, Attempting
<1> QED
  BY <1>1, OnlyActiveWorks, PTL

\* What two requests at once break holds while they are served one at a time: once all
\* intents are seen, BLE and LAN are not connected together, again unless a supervisor
\* replaced an intent it had not seen (src/README.md:13 against gateway.rs activate).
THEOREM ExclusiveAlone == Spec /\ []OneAtATime => [](SessionsExclusive \/ overwritten)
<1>1. StraySessionEnds => SessionsExclusive \/ overwritten
  <2>1. ~ \A t \in Transports : t = active
    BY DEF Transports
  <2> QED
    BY <2>1 DEF StraySessionEnds, SessionsExclusive
<1> QED
  BY <1>1, StrayEnds, PTL

=============================================================================
