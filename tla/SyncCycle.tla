------------------------------ MODULE SyncCycle ------------------------------
(***************************************************************************)
(* The battery auto-sync cycle of the Agent: the SyncCoordinator           *)
(* (coordinator.rs), the run loops of the auto-sync producers              *)
(* (producer.rs, codex*.rs, cli.rs, http.rs, balance.rs, ccswitch.rs) and  *)
(* the part of the ResourcePublisher loop the cycle passes through         *)
(* (publisher.rs).                                                         *)
(*                                                                         *)
(*    device.connected --> coordinator --SyncCycle(id)--> producers        *)
(*         ^                   ^                             |             *)
(*         |                   |        publish, CycleComplete             *)
(*    device link       completions <-- publisher <----------+             *)
(*                                                                         *)
(* All four arrows are bounded channels.  What a collection reads and what *)
(* a resource holds is left out; that a collection or a put fails is not.  *)
(***************************************************************************)
EXTENDS Naturals, Sequences, FiniteSets, Functions

CONSTANTS
    Producers,       \* the auto-sync producers of the registry (seven in main.rs)
    Rank,            \* their registration order
    Droppers,        \* those whose loop may return with a cycle in hand
    Sources,         \* how many sources one run of a producer collects
    TriggerCap,      \* capacity of a producer's trigger channel (8)
    QueueCap,        \* capacity of the publisher's command channel (32)
    CompletionCap,   \* capacity of the completions channel (16)
    EventCap,        \* capacity of the device event broadcast (64)
    MaxSessions      \* bound: device sessions in one behaviour

ASSUME RegistryAssumption ==
    /\ Producers # {}
    /\ IsFiniteSet(Producers)
    /\ Droppers \subseteq Producers
    /\ Rank \in [Producers -> Nat]
    /\ \A p, q \in Producers : Rank[p] = Rank[q] => p = q
    /\ Sources \in [Producers -> Nat]

ASSUME CapacityAssumption ==
    /\ TriggerCap \in Nat \ {0}
    /\ QueueCap \in Nat \ {0}
    /\ CompletionCap \in Nat \ {0}
    /\ EventCap \in Nat \ {0}
    /\ MaxSessions \in Nat

VARIABLES
    link,          \* the device session: up, its number, and "auto and battery"
    events,        \* device events the coordinator has not received yet
    coord,         \* the coordinator: pc, the cycle it serves, triggers to send
    active,        \* the cycle being collected (id 0: none)
    nextId,        \* the id of the next cycle
    triggers,      \* per producer, queued triggers: a cycle id, or Manual
    producer,      \* per producer: pc, cycle in hand, sources left, success
    queue,         \* commands queued at the publisher
    held,          \* the command the publisher is busy with (at most one)
    completions,   \* completions the coordinator has not received yet
    ran,           \* history: <<cycle, producer>> reported by a producer
    lost,          \* history: <<cycle, producer>> a producer dropped
    synced         \* history: the cycles of the system.sync.complete requests served

vars == <<link, events, coord, active, nextId, triggers, producer, queue,
          held, completions, ran, lost, synced>>

linkVars == <<link, events>>
coordVars == <<coord, active, nextId>>
historyVars == <<ran, lost, synced>>

-----------------------------------------------------------------------------

Manual == 0                        \* ProducerTrigger::Manual, or a poll tick
NoCycle == [id |-> 0, expected |-> {}, ok |-> TRUE]
Idle == [pc |-> "idle", cycle |-> Manual, left |-> 0, ok |-> TRUE]

Cycles == 1..MaxSessions           \* at most one cycle per device.connected

Event == {"device.connected", "device.disconnected"}

\* A command of the publisher; a completion is a "complete" command on its way.
Command == [op : {"publish", "complete", "flush"},
            from : Producers \cup {"coordinator"}, cycle : Nat, ok : BOOLEAN]
Completion == [op : {"complete"}, from : Producers, cycle : Nat, ok : BOOLEAN]

Request(op, from, cycle, ok) == [op |-> op, from |-> from, cycle |-> cycle, ok |-> ok]

\* tokio's broadcast: a full ring drops its oldest message.
Broadcast(q, e) == IF Len(q) < EventCap THEN Append(q, e) ELSE Append(Tail(q), e)

Init ==
    /\ link = [up |-> FALSE, no |-> 0, auto |-> TRUE]
    /\ events = <<>>
    /\ coord = [pc |-> "select", cycle |-> 0, toSend |-> {}]
    /\ active = NoCycle
    /\ nextId = 1
    /\ triggers = [p \in Producers |-> <<>>]
    /\ producer = [p \in Producers |-> Idle]
    /\ queue = <<>>
    /\ held = <<>>
    /\ completions = <<>>
    /\ ran = {}
    /\ lost = {}
    /\ synced = <<>>

-----------------------------------------------------------------------------
(* The device link and the user.                                           *)

Connect ==
    /\ ~link.up
    /\ link.no < MaxSessions
    /\ link' = [link EXCEPT !.up = TRUE, !.no = @ + 1]
    /\ events' = Broadcast(events, "device.connected")
    /\ UNCHANGED <<coordVars, triggers, producer, queue, held, completions, historyVars>>

Disconnect ==
    /\ link.up
    /\ link' = [link EXCEPT !.up = FALSE]
    /\ events' = Broadcast(events, "device.disconnected")
    /\ UNCHANGED <<coordVars, triggers, producer, queue, held, completions, historyVars>>

\* The connection mode or the power profile changes.
ChangeMode ==
    /\ link' = [link EXCEPT !.auto = ~@]
    /\ UNCHANGED <<events, coordVars, triggers, producer, queue, held, completions, historyVars>>

\* A refresh request of the web API or of the source scheduler.
RefreshManually(p) ==
    /\ Len(triggers[p]) < TriggerCap
    /\ triggers' = [triggers EXCEPT ![p] = Append(@, Manual)]
    /\ UNCHANGED <<linkVars, coordVars, producer, queue, held, completions, historyVars>>

-----------------------------------------------------------------------------
(* The coordinator.                                                        *)

IgnoreEvent ==
    /\ coord.pc = "select"
    /\ events # <<>>
    /\ Head(events) = "device.connected" => ~link.auto
    /\ events' = Tail(events)
    /\ UNCHANGED <<link, coordVars, triggers, producer, queue, held, completions, historyVars>>

\* Faulty StartCycle: the id of a cycle is used again.
StartCycleAgain ==
    /\ coord.pc = "select"
    /\ events # <<>>
    /\ Head(events) = "device.connected"
    /\ link.auto
    /\ events' = Tail(events)
    /\ active' = [id |-> nextId, expected |-> Producers, ok |-> TRUE]
    /\ coord' = [pc |-> "trigger", cycle |-> nextId, toSend |-> Producers]
    /\ UNCHANGED <<link, nextId, triggers, producer, queue, held, completions, historyVars>>

\* A cycle that is still collecting is replaced: only the new one counts.
StartCycle ==
    /\ coord.pc = "select"
    /\ events # <<>>
    /\ Head(events) = "device.connected"
    /\ link.auto
    /\ events' = Tail(events)
    /\ active' = [id |-> nextId, expected |-> Producers, ok |-> TRUE]
    /\ coord' = [pc |-> "trigger", cycle |-> nextId, toSend |-> Producers]
    /\ nextId' = nextId + 1
    /\ UNCHANGED <<link, triggers, producer, queue, held, completions, historyVars>>

\* Faulty SendTrigger: try_send, which gives up on a full channel.
TrySendTrigger(p) ==
    /\ coord.pc = "trigger"
    /\ p \in coord.toSend
    /\ triggers' = IF Len(triggers[p]) < TriggerCap
                   THEN [triggers EXCEPT ![p] = Append(@, coord.cycle)] ELSE triggers
    /\ coord' = [coord EXCEPT !.toSend = @ \ {p},
                              !.pc = IF coord.toSend = {p} THEN "select" ELSE @]
    /\ UNCHANGED <<linkVars, active, nextId, producer, queue, held, completions, historyVars>>

\* ProducerRegistry::refresh_cycle: in registration order, waiting for room.
SendTrigger(p) ==
    /\ coord.pc = "trigger"
    /\ p \in coord.toSend
    /\ \A q \in coord.toSend : Rank[p] <= Rank[q]
    /\ Len(triggers[p]) < TriggerCap
    /\ triggers' = [triggers EXCEPT ![p] = Append(@, coord.cycle)]
    /\ coord' = [coord EXCEPT !.toSend = @ \ {p},
                              !.pc = IF coord.toSend = {p} THEN "select" ELSE @]
    /\ UNCHANGED <<linkVars, active, nextId, producer, queue, held, completions, historyVars>>

IgnoreCompletion ==
    /\ coord.pc = "select"
    /\ completions # <<>>
    /\ Head(completions).cycle # active.id
    /\ completions' = Tail(completions)
    /\ UNCHANGED <<linkVars, coordVars, triggers, producer, queue, held, historyVars>>

\* Counting one report; the cycle `finished' completes when `rest' is empty.
Count(rest, ok, finished) ==
    /\ completions' = Tail(completions)
    /\ active' = IF rest = {} THEN NoCycle
                 ELSE [active EXCEPT !.expected = rest, !.ok = @ /\ ok]
    /\ coord' = IF rest = {} THEN [coord EXCEPT !.pc = "flush", !.cycle = finished]
                ELSE coord
    /\ UNCHANGED <<linkVars, nextId, triggers, producer, queue, held, historyVars>>

\* Faulty CountCompletion: the report of a replaced cycle counts, too.
CountStale ==
    LET report == Head(completions) IN
    /\ coord.pc = "select"
    /\ completions # <<>>
    /\ active.id # 0
    /\ Count(active.expected \ {report.from}, report.ok, report.cycle)

\* Faulty CountCompletion: the first report completes the cycle.
CountOne ==
    /\ coord.pc = "select"
    /\ completions # <<>>
    /\ Head(completions).cycle = active.id
    /\ Count({}, TRUE, active.id)

CountCompletion ==
    LET report == Head(completions) IN
    /\ coord.pc = "select"
    /\ completions # <<>>
    /\ report.cycle = active.id
    /\ Count(active.expected \ {report.from}, report.ok, active.id)

SendFlush ==
    /\ coord.pc = "flush"
    /\ Len(queue) < QueueCap
    /\ queue' = Append(queue, Request("flush", "coordinator", coord.cycle, TRUE))
    /\ coord' = [coord EXCEPT !.pc = "flushing"]
    /\ UNCHANGED <<linkVars, active, nextId, triggers, producer, held, completions, historyVars>>

\* gateway.request: refused at once without a session, queued otherwise.
SyncRefused ==
    /\ coord.pc = "request"
    /\ ~link.up
    /\ coord' = [coord EXCEPT !.pc = "select"]
    /\ UNCHANGED <<linkVars, active, nextId, triggers, producer, queue, held, completions, historyVars>>

RequestSync ==
    /\ coord.pc = "request"
    /\ link.up
    /\ coord' = [coord EXCEPT !.pc = "waiting"]
    /\ UNCHANGED <<linkVars, active, nextId, triggers, producer, queue, held, completions, historyVars>>

\* A queued request is served by the session that is up when its turn comes,
\* which need not be the one it was queued in.
SyncServed ==
    /\ coord.pc = "waiting"
    /\ link.up
    /\ coord' = [coord EXCEPT !.pc = "select"]
    /\ synced' = Append(synced, coord.cycle)
    /\ UNCHANGED <<linkVars, active, nextId, triggers, producer, queue, held, completions, ran, lost>>

\* The link breaks under a request it has already begun to serve.
SyncFails ==
    /\ coord.pc = "waiting"
    /\ ~link.up
    /\ coord' = [coord EXCEPT !.pc = "select"]
    /\ UNCHANGED <<linkVars, active, nextId, triggers, producer, queue, held, completions, historyVars>>

-----------------------------------------------------------------------------
(* A producer's run loop.                                                  *)

Run(p, cycle) ==
    producer' = [producer EXCEPT
        ![p] = [pc |-> "collect", cycle |-> cycle, left |-> Sources[p], ok |-> TRUE]]

\* One source is done; `ok' tells whether it was collected and published.
NextSource(p, ok) ==
    LET run == producer[p] IN
    producer' = [producer EXCEPT
        ![p] = [pc |-> "collect", cycle |-> run.cycle, left |-> run.left - 1,
                ok |-> run.ok /\ ok]]

TakeTrigger(p) ==
    /\ producer[p].pc = "idle"
    /\ triggers[p] # <<>>
    /\ Run(p, Head(triggers[p]))
    /\ triggers' = [triggers EXCEPT ![p] = Tail(@)]
    /\ UNCHANGED <<linkVars, coordVars, queue, held, completions, historyVars>>

Poll(p) ==
    /\ producer[p].pc = "idle"
    /\ Run(p, Manual)
    /\ UNCHANGED <<linkVars, coordVars, triggers, queue, held, completions, historyVars>>

\* Faulty CollectFails: the sources left are not counted.
CollectFailsUncounted(p) ==
    /\ producer[p].pc = "collect"
    /\ NextSource(p, FALSE)
    /\ UNCHANGED <<linkVars, coordVars, triggers, queue, held, completions, historyVars>>

CollectFails(p) ==
    /\ producer[p].pc = "collect"
    /\ producer[p].left > 0
    /\ NextSource(p, FALSE)
    /\ UNCHANGED <<linkVars, coordVars, triggers, queue, held, completions, historyVars>>

\* The resource goes to the publisher, and the loop waits for its reply.
Publish(p) ==
    /\ producer[p].pc = "collect"
    /\ producer[p].left > 0
    /\ Len(queue) < QueueCap
    /\ queue' = Append(queue, Request("publish", p, producer[p].cycle, TRUE))
    /\ producer' = [producer EXCEPT ![p].pc = "publishing"]
    /\ UNCHANGED <<linkVars, coordVars, triggers, held, completions, historyVars>>

EndRun(p) ==
    /\ producer[p].pc = "collect"
    /\ producer[p].left = 0
    /\ producer[p].cycle = Manual
    /\ producer' = [producer EXCEPT ![p] = Idle]
    /\ UNCHANGED <<linkVars, coordVars, triggers, queue, held, completions, historyVars>>

\* The cycle completion is sent, and the loop selects again.
Report(p) ==
    /\ producer[p].pc = "collect"
    /\ producer[p].left = 0
    /\ producer[p].cycle # Manual
    /\ Len(queue) < QueueCap
    /\ queue' = Append(queue, Request("complete", p, producer[p].cycle, producer[p].ok))
    /\ producer' = [producer EXCEPT ![p] = Idle]
    /\ ran' = ran \cup {<<producer[p].cycle, p>>}
    /\ UNCHANGED <<linkVars, coordVars, triggers, held, completions, lost, synced>>

\* Faulty ReportCycle: a run that failed returns before its completion.
ReportSuccess(p) == producer[p].ok /\ Report(p)

\* A failed run reports its cycle as well.
ReportCycle(p) == Report(p)

\* collect_tasks(..).await? leaves run_connected with the cycle id in hand.
DropCycle(p) ==
    /\ p \in Droppers
    /\ producer[p].pc = "collect"
    /\ producer' = [producer EXCEPT ![p] = Idle]
    /\ lost' = IF producer[p].cycle = Manual THEN lost
               ELSE lost \cup {<<producer[p].cycle, p>>}
    /\ UNCHANGED <<linkVars, coordVars, triggers, queue, held, completions, ran, synced>>

-----------------------------------------------------------------------------
(* The publisher's loop: one command at a time, in order.                  *)

Take(op) ==
    /\ held = <<>>
    /\ queue # <<>>
    /\ Head(queue).op = op
    /\ queue' = Tail(queue)

\* Nothing to write (unchanged, not bound, source disabled, store full) or
\* nowhere to write it: publish_one returns without a request.
SkipPut ==
    /\ Take("publish")
    /\ \E ok \in BOOLEAN : NextSource(Head(queue).from, ok)
    /\ UNCHANGED <<linkVars, coordVars, triggers, held, completions, historyVars>>

StartPut ==
    /\ Take("publish")
    /\ link.up
    /\ held' = <<Head(queue)>>
    /\ UNCHANGED <<linkVars, coordVars, triggers, producer, completions, historyVars>>

PutAnswered ==
    /\ held # <<>>
    /\ Head(held).op = "publish"
    /\ link.up
    /\ held' = <<>>
    /\ \E ok \in BOOLEAN : NextSource(Head(held).from, ok)
    /\ UNCHANGED <<linkVars, coordVars, triggers, queue, completions, historyVars>>

PutFails ==
    /\ held # <<>>
    /\ Head(held).op = "publish"
    /\ ~link.up
    /\ held' = <<>>
    /\ NextSource(Head(held).from, FALSE)
    /\ UNCHANGED <<linkVars, coordVars, triggers, queue, completions, historyVars>>

HandleComplete ==
    /\ Take("complete")
    /\ held' = <<Head(queue)>>
    /\ UNCHANGED <<linkVars, coordVars, triggers, producer, completions, historyVars>>

\* completions.send(..).await: the loop stands still while the channel is full.
ForwardCompletion ==
    /\ held # <<>>
    /\ Head(held).op = "complete"
    /\ Len(completions) < CompletionCap
    /\ completions' = Append(completions, Head(held))
    /\ held' = <<>>
    /\ UNCHANGED <<linkVars, coordVars, triggers, producer, queue, historyVars>>

\* Faulty HandleFlush: the reply is forgotten.
ForgetFlush ==
    /\ Take("flush")
    /\ UNCHANGED <<linkVars, coordVars, triggers, producer, held, completions, historyVars>>

HandleFlush ==
    /\ Take("flush")
    /\ coord' = [coord EXCEPT !.pc = "request"]
    /\ UNCHANGED <<linkVars, active, nextId, triggers, producer, held, completions, historyVars>>

-----------------------------------------------------------------------------

Coordinator ==
    \/ IgnoreEvent \/ StartCycle
    \/ \E p \in Producers : SendTrigger(p)
    \/ IgnoreCompletion \/ CountCompletion
    \/ SendFlush \/ SyncRefused \/ RequestSync \/ SyncServed \/ SyncFails

Producer(p) ==
    \/ TakeTrigger(p) \/ Poll(p)
    \/ CollectFails(p) \/ Publish(p)
    \/ EndRun(p) \/ ReportCycle(p) \/ DropCycle(p)

Publisher ==
    \/ SkipPut \/ StartPut \/ PutAnswered \/ PutFails
    \/ HandleComplete \/ ForwardCompletion \/ HandleFlush

Environment ==
    \/ Connect \/ Disconnect \/ ChangeMode
    \/ \E p \in Producers : RefreshManually(p)

Next ==
    \/ Coordinator
    \/ \E p \in Producers : Producer(p)
    \/ Publisher
    \/ Environment

Spec == Init /\ [][Next]_vars

\* Every task of the runtime runs again while it can: weak fairness.  Strong
\* fairness where a step is enabled on and off: tokio::select! picks among the
\* ready branches at random (the two receives of the coordinator, the trigger
\* branch of a producer), and senders that wait for room in a channel are
\* served in order.  A request is answered while the session lasts: each has a
\* timeout.  Nothing is assumed of the device link or of the user, and a
\* request left behind by a session need not fail.
Fairness ==
    /\ SF_vars(IgnoreEvent \/ StartCycle)
    /\ SF_vars(IgnoreCompletion \/ CountCompletion)
    /\ SF_vars((\E p \in Producers : SendTrigger(p)) \/ SendFlush)
    /\ WF_vars(SyncRefused \/ RequestSync \/ SyncServed)
    /\ WF_vars(SkipPut \/ StartPut \/ PutAnswered
                  \/ HandleComplete \/ ForwardCompletion \/ HandleFlush)
    /\ \A p \in Producers :
        /\ SF_vars(TakeTrigger(p))
        /\ SF_vars(Publish(p) \/ CollectFails(p) \/ EndRun(p) \/ ReportCycle(p))

FairSpec == Spec /\ Fairness

-----------------------------------------------------------------------------
(* Properties.                                                             *)

\* Every variable holds values of its type.
TypeOK ==
    /\ link \in [up : BOOLEAN, no : Nat, auto : BOOLEAN]
    /\ events \in Seq(Event)
    /\ coord \in [pc : {"select", "trigger", "flush", "flushing", "request", "waiting"},
                  cycle : Nat, toSend : SUBSET Producers]
    /\ active \in [id : Nat, expected : SUBSET Producers, ok : BOOLEAN]
    /\ nextId \in Nat \ {0}
    /\ triggers \in [Producers -> Seq(Nat)]
    /\ producer \in [Producers -> [pc : {"idle", "collect", "publishing"},
                                   cycle : Nat, left : Nat, ok : BOOLEAN]]
    /\ queue \in Seq(Command)
    /\ held \in Seq(Command)
    /\ completions \in Seq(Completion)
    /\ ran \subseteq Nat \X Producers
    /\ lost \subseteq Nat \X Producers
    /\ synced \in Seq(Nat)

Completing == coord.pc \in {"flush", "flushing", "request", "waiting"}

SyncedCycles == {synced[i] : i \in DOMAIN synced}

\* system.sync.complete is requested for a cycle only when every producer has
\* reported that very cycle: neither a report of a replaced cycle nor one that
\* is still queued somewhere counts (coordinator.rs, the id comparison).
SyncOnlyAfterReports ==
    /\ Completing => \A p \in Producers : <<coord.cycle, p>> \in ran
    /\ \A c \in SyncedCycles : \A p \in Producers : <<c, p>> \in ran

\* Cycles are completed at most once each and in the order they were started:
\* no device is told twice that one cycle is complete.
SyncOncePerCycle ==
    \A i, j \in DOMAIN synced : i < j => synced[i] < synced[j]

\* Where the report of a producer for a cycle can be on its way.
InTransit == Range(queue) \cup Range(held) \cup Range(completions)
Reports == {m \in InTransit : m.op = "complete"}
InFlight(c, p) ==
    \/ p \in coord.toSend
    \/ c \in Range(triggers[p])
    \/ producer[p].cycle = c
    \/ \E m \in Reports : m.cycle = c /\ m.from = p

\* A producer the cycle still waits for has the cycle somewhere between the
\* coordinator's trigger and its completion, unless its loop dropped it: the
\* cycle never waits for a report nobody will make.
AwaitedIsInFlight ==
    active.id # 0 =>
        \A p \in active.expected :
            InFlight(active.id, p) \/ <<active.id, p>> \in lost

\* While the coordinator waits for its flush it receives no completions; none
\* is left in front of the flush, so the publisher never waits for the
\* coordinator and the coordinator for the publisher at once.
FlushIsNeverBehindReports ==
    coord.pc \in {"flush", "flushing"} => Reports = {}

\* Only the cycle started last may complete: a cycle that was replaced while
\* it was collecting, or whose request was refused, never completes later.
OnlyLatestCompletes ==
    [][\A c \in SyncedCycles' \ SyncedCycles : c = nextId - 1]_vars

\* A cycle completes, or a later one replaces it, as long as the device stays
\* connected and no producer drops it.
CycleCompletes ==
    \A c \in Cycles : (active.id = c) ~> (c \in SyncedCycles \/ nextId > c + 1 \/ ~link.up)

\* The coordinator always comes back to its two receives, unless the device
\* stays away: blocked on a trigger, a flush or a request it hears nothing.
CoordinatorReturns == []<>(coord.pc = "select" \/ ~link.up)

\* The cycle as the device is promised it.
Contract == INSTANCE AutoSync WITH
    phase <- IF Completing THEN "completing"
             ELSE IF active.id = 0 THEN "idle" ELSE "collecting",
    cycle <- nextId - 1,
    waiting <- active.expected,
    reported <- ran,
    served <- SyncedCycles

\* The channels, the blocking sends and the failing producers implement it.
ImplementsContract == Contract!Spec

=============================================================================
