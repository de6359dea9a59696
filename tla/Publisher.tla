------------------------------ MODULE Publisher -------------------------------
(***************************************************************************)
(* The ResourcePublisher (publisher.rs) between the producers, the web     *)
(* handlers that edit the device behind its back (web.rs) and the device:  *)
(* its cache of what was sent, the deletions it still owes, and the        *)
(* Reconcile it runs after every "device.connected".                       *)
(*                                                                         *)
(* A payload is its hash; times are the two deadlines counted from the     *)
(* last write, the heartbeat and the interval of the source.  Every key    *)
(* has a source of its own.  Revisions and the catalog are left out.       *)
(***************************************************************************)
EXTENDS Naturals, Sequences, FiniteSets, Functions

CONSTANTS
    Keys,          \* resource keys
    Values,        \* payload hashes
    None,          \* no payload: no entry, nothing sent, nothing stored
    Volatile,      \* the keys the device keeps in RAM only
    StoreLimit,    \* max_resources of the device
    QueueCap,      \* capacity of the command channel (32)
    SignalCap,     \* capacity of the device event broadcast (64)
    MaxSessions,   \* bound: device sessions in one behaviour
    MaxEdits,      \* bound: edits by the user: page, put, reload, delete, disable
    MaxRestarts    \* bound: restarts of the Agent

ASSUME KeyAssumption == IsFiniteSet(Keys) /\ Volatile \subseteq Keys /\ None \notin Values

ASSUME BoundAssumption ==
    /\ QueueCap \in Nat \ {0}
    /\ SignalCap \in Nat \ {0}
    /\ {StoreLimit, MaxSessions, MaxEdits, MaxRestarts} \subseteq Nat

VARIABLES
    device,     \* the device: what it stores, which keys its page binds
    link,       \* the device session: up, and how many there were
    view,       \* the Agent's copy of the device: stored and bound keys
    signals,    \* device events the reconcile task has not received yet
    relay,      \* is the reconcile task alive?
    enabled,    \* the source policies
    queue,      \* commands queued at the publisher
    cache,      \* per key: the payload, the payload sent, deadlines passed
    pending,    \* deletions owed to the device
    loop,       \* the publisher's loop: the command it is busy with
    edit,       \* the web handler that edits the device
    edits,      \* how many edits and Agent restarts there were
    gone,       \* history: keys deleted and not published since
    foreign     \* history: keys whose stored value an owner put replaced

vars == <<device, link, view, signals, relay, enabled, queue, cache, pending,
          loop, edit, edits, gone, foreign>>

linkVars == <<link, signals, relay>>
userVars == <<enabled, edit, edits>>

-----------------------------------------------------------------------------

Deadlines == {"heartbeat", "interval"}
NoEntry == [value |-> None, sent |-> None, passed |-> Deadlines]
Cached(k) == cache[k].value # None
Stored(store) == {k \in Keys : store[k] # None}

Receiving == [pc |-> "receive", op |-> "none", key |-> None,
              deletes |-> {}, puts |-> {}, page |-> {}]
NoEdit == [pc |-> "idle", op |-> "none", page |-> {}, view |-> [stored |-> {}, page |-> {}]]

Publish(k, v) == [op |-> "publish", key |-> k, value |-> v, keys |-> {}]
Delete(k) == [op |-> "delete", key |-> k, value |-> None, keys |-> {}]
Reconcile == [op |-> "reconcile", key |-> None, value |-> None, keys |-> {}]
Prepare(page) == [op |-> "prepare", key |-> None, value |-> None, keys |-> page]

Command == [op : {"publish", "delete", "reconcile", "prepare"},
            key : Keys \cup {None}, value : Values \cup {None}, keys : SUBSET Keys]

\* Faulty Send: the channel has no bound.
SendUnbounded(command) == queue' = Append(queue, command)

\* A send waits for room in the command channel.
Send(command) ==
    /\ Len(queue) < QueueCap
    /\ queue' = Append(queue, command)

\* The broadcast drops its oldest event on a reader that lags; the reconcile
\* task ends at the first event it missed.
Signal(event) ==
    IF Len(signals) < SignalCap
    THEN signals' = Append(signals, event) /\ UNCHANGED relay
    ELSE signals' = <<>> /\ relay' = FALSE

Init ==
    /\ \E page \in SUBSET Keys : device = [store |-> [k \in Keys |-> None], page |-> page]
    /\ link = [up |-> FALSE, no |-> 0]
    /\ view = [stored |-> {}, page |-> {}]
    /\ signals = <<>>
    /\ relay = TRUE
    /\ enabled = [k \in Keys |-> TRUE]
    /\ queue = <<>>
    /\ cache = [k \in Keys |-> NoEntry]
    /\ pending = {}
    /\ loop = Receiving
    /\ edit = NoEdit
    /\ edits = [edits |-> 0, restarts |-> 0]
    /\ gone = {}
    /\ foreign = {}

-----------------------------------------------------------------------------
(* The device and its session.                                             *)

\* The session is primed before it counts as connected: the Agent's copy is
\* fresh.  A request whose answer was lost has failed before that.
Connect ==
    /\ ~link.up
    /\ link.no < MaxSessions
    /\ loop.pc \notin {"stored", "deleted"}
    /\ link' = [up |-> TRUE, no |-> link.no + 1]
    /\ view' = [stored |-> Stored(device.store), page |-> device.page]
    /\ Signal("device.connected")
    /\ UNCHANGED <<device, userVars, queue, cache, pending, loop, gone, foreign>>

Disconnect ==
    /\ link.up
    /\ link' = [link EXCEPT !.up = FALSE]
    /\ Signal("device.disconnected")
    /\ UNCHANGED <<device, view, userVars, queue, cache, pending, loop, gone, foreign>>

\* The device restarts or comes out of deep sleep: its RAM is empty.
DeviceRestarts ==
    /\ ~link.up
    /\ device' = [device EXCEPT
           !.store = [k \in Keys |-> IF k \in Volatile THEN None ELSE @[k]]]
    /\ UNCHANGED <<linkVars, view, userVars, queue, cache, pending, loop, gone, foreign>>

\* The reconcile task: one Reconcile for every connection.
RelayEvent ==
    /\ relay
    /\ signals # <<>>
    /\ signals' = Tail(signals)
    /\ IF Head(signals) = "device.connected" THEN Send(Reconcile) ELSE UNCHANGED queue
    /\ UNCHANGED <<device, link, relay, view, userVars, cache, pending, loop, gone, foreign>>

\* The Agent starts again: everything it did not write to disk is lost.
AgentRestarts ==
    /\ edits.restarts < MaxRestarts
    /\ edits' = [edits EXCEPT !.restarts = @ + 1]
    /\ link' = [link EXCEPT !.up = FALSE]
    /\ view' = [stored |-> {}, page |-> {}]
    /\ signals' = <<>>
    /\ relay' = TRUE
    /\ queue' = <<>>
    /\ cache' = [k \in Keys |-> NoEntry]
    /\ pending' = {}
    /\ loop' = Receiving
    /\ edit' = NoEdit
    /\ gone' = {}
    /\ UNCHANGED <<device, enabled, foreign>>

-----------------------------------------------------------------------------
(* Producers and web handlers.                                             *)

\* A producer waits for the reply to the one publish it has under way.
PublishValue(k, v) ==
    /\ ~ \E i \in DOMAIN queue : queue[i].op = "publish" /\ queue[i].key = k
    /\ ~ (loop.op = "publish" /\ k \in loop.puts)
    /\ Send(Publish(k, v))
    /\ UNCHANGED <<device, linkVars, view, userVars, cache, pending, loop, gone, foreign>>

CountEdit ==
    /\ edits.edits < MaxEdits
    /\ edits' = [edits EXCEPT !.edits = @ + 1]

\* A source is removed, or a resource is deleted through the web API.
DeleteResource(k) ==
    /\ CountEdit
    /\ Send(Delete(k))
    /\ UNCHANGED <<device, linkVars, view, enabled, edit, cache, pending, loop, gone, foreign>>

\* The policy is written before the deletions of a disabled source are sent.
DisableSource(k) ==
    /\ CountEdit
    /\ enabled[k]
    /\ enabled' = [enabled EXCEPT ![k] = FALSE]
    /\ Send(Delete(k))
    /\ UNCHANGED <<device, linkVars, view, edit, cache, pending, loop, gone, foreign>>

EnableSource(k) ==
    /\ ~enabled[k]
    /\ enabled' = [enabled EXCEPT ![k] = TRUE]
    /\ UNCHANGED <<device, linkVars, view, edit, edits, queue, cache, pending, loop, gone, foreign>>

BeginEdit == edit.pc = "idle" /\ CountEdit

\* page_set: the resources of the new page are written first.
SetPage(page) ==
    /\ BeginEdit
    /\ Send(Prepare(page))
    /\ edit' = [NoEdit EXCEPT !.pc = "preparing", !.op = "page", !.page = page]
    /\ UNCHANGED <<device, linkVars, view, enabled, cache, pending, loop, gone, foreign>>

ApplyPage ==
    /\ edit.pc = "page"
    /\ link.up
    /\ device' = [device EXCEPT !.page = edit.page]
    /\ edit' = [edit EXCEPT !.pc = "reload"]
    /\ UNCHANGED <<linkVars, view, enabled, edits, queue, cache, pending, loop, gone, foreign>>

\* resource_put: straight to the device, past the publisher's cache.
OwnerPuts(k, v) ==
    /\ BeginEdit
    /\ link.up
    /\ device' = [device EXCEPT !.store[k] = v]
    /\ Cardinality(Stored(device'.store)) <= StoreLimit
    /\ edit' = [NoEdit EXCEPT !.pc = "reload", !.op = "put"]
    /\ foreign' = foreign \cup {k}
    /\ gone' = gone \ {k}
    /\ UNCHANGED <<linkVars, view, enabled, queue, cache, pending, loop>>

\* The handlers that only reload: a deleted resource, a new configuration.
StartReload ==
    /\ BeginEdit
    /\ edit' = [NoEdit EXCEPT !.pc = "reload", !.op = "reload"]
    /\ UNCHANGED <<device, linkVars, view, enabled, queue, cache, pending, loop, gone, foreign>>

\* reload_device reads the device first and writes the Agent's copy at the end.
ReloadReads ==
    /\ edit.pc = "reload"
    /\ link.up
    /\ edit' = [edit EXCEPT !.pc = "write",
                    !.view = [stored |-> Stored(device.store), page |-> device.page]]
    /\ UNCHANGED <<device, linkVars, view, enabled, edits, queue, cache, pending, loop, gone, foreign>>

ReloadWrites ==
    /\ edit.pc = "write"
    /\ view' = edit.view
    /\ edit' = IF edit.op = "page" THEN [edit EXCEPT !.pc = "reconcile"] ELSE NoEdit
    /\ UNCHANGED <<device, linkVars, enabled, edits, queue, cache, pending, loop, gone, foreign>>

\* page_set ends with a Reconcile.
EndSetPage ==
    /\ edit.pc = "reconcile"
    /\ Send(Reconcile)
    /\ edit' = NoEdit
    /\ UNCHANGED <<device, linkVars, view, enabled, edits, cache, pending, loop, gone, foreign>>

\* A request of the handler fails: it returns without its remaining steps.
EditFails ==
    /\ edit.pc \in {"page", "reload"}
    /\ edit' = NoEdit
    /\ UNCHANGED <<device, linkVars, view, enabled, edits, queue, cache, pending, loop, gone, foreign>>

-----------------------------------------------------------------------------
(* The publisher's loop: one command at a time, one request at a time.     *)

Take(op) ==
    /\ loop.pc = "receive"
    /\ queue # <<>>
    /\ Head(queue).op = op
    /\ queue' = Tail(queue)

\* The loop is done with a command when it has no request left to make; a
\* Prepare answers the handler that waits for it.
Busy(op, deletes, puts, page) ==
    loop' = [pc |-> "next", op |-> op, key |-> None,
             deletes |-> deletes, puts |-> puts, page |-> page]

TakeDisabled ==
    /\ Take("publish")
    /\ ~enabled[Head(queue).key]
    /\ UNCHANGED <<device, linkVars, view, userVars, cache, pending, loop, gone, foreign>>

\* Faulty TakePublish: the source policy is not asked.
TakePublishAnyway ==
    LET k == Head(queue).key IN
    /\ Take("publish")
    /\ pending' = pending \ {k}
    /\ cache' = [cache EXCEPT ![k].value = Head(queue).value]
    /\ gone' = gone \ {k}
    /\ Busy("publish", {}, {k}, {})
    /\ UNCHANGED <<device, linkVars, view, userVars, foreign>>

\* What is published is not to be deleted any more.
TakePublish ==
    LET k == Head(queue).key IN
    /\ Take("publish")
    /\ enabled[k]
    /\ pending' = pending \ {k}
    /\ cache' = [cache EXCEPT ![k].value = Head(queue).value]
    /\ gone' = gone \ {k}
    /\ Busy("publish", {}, {k}, {})
    /\ UNCHANGED <<device, linkVars, view, userVars, foreign>>

TakeDelete ==
    LET k == Head(queue).key IN
    /\ Take("delete")
    /\ cache' = [cache EXCEPT ![k] = NoEntry]
    /\ pending' = pending \cup {k}
    /\ gone' = gone \cup {k}
    /\ Busy("delete", {k}, {}, {})
    /\ UNCHANGED <<device, linkVars, view, userVars, foreign>>

\* Resources the page does not bind are deleted, every cached one is written.
TakeReconcile ==
    /\ Take("reconcile")
    /\ pending' = pending \cup (view.stored \ view.page)
    /\ Busy("reconcile", pending', {k \in Keys : Cached(k)}, view.page)
    /\ UNCHANGED <<device, linkVars, view, userVars, cache, gone, foreign>>

TakePrepare ==
    /\ Take("prepare")
    /\ Busy("prepare", {}, {k \in Head(queue).keys : Cached(k)}, {})
    /\ UNCHANGED <<device, linkVars, view, userVars, cache, pending, gone, foreign>>

\* Faulty SkipDelete: the deletion counts as done.
SkipDeleteForgets(k) ==
    /\ loop.pc = "next"
    /\ k \in loop.deletes
    /\ ~link.up
    /\ pending' = pending \ {k}
    /\ loop' = [loop EXCEPT !.deletes = @ \ {k}]
    /\ UNCHANGED <<device, linkVars, view, userVars, queue, cache, gone, foreign>>

\* delete_one without a session: the key stays pending.
SkipDelete(k) ==
    /\ loop.pc = "next"
    /\ k \in loop.deletes
    /\ ~link.up
    /\ loop' = [loop EXCEPT !.deletes = @ \ {k}]
    /\ UNCHANGED <<device, linkVars, view, userVars, queue, cache, pending, gone, foreign>>

StartDelete(k) ==
    /\ loop.pc = "next"
    /\ k \in loop.deletes
    /\ link.up
    /\ loop' = [loop EXCEPT !.pc = "deleting", !.key = k]
    /\ UNCHANGED <<device, linkVars, view, userVars, queue, cache, pending, gone, foreign>>

DeviceDeletes ==
    /\ loop.pc = "deleting"
    /\ link.up
    /\ device' = [device EXCEPT !.store[loop.key] = None]
    /\ loop' = [loop EXCEPT !.pc = "deleted"]
    /\ UNCHANGED <<linkVars, view, userVars, queue, cache, pending, gone, foreign>>

DeleteAnswered ==
    /\ loop.pc = "deleted"
    /\ link.up
    /\ pending' = pending \ {loop.key}
    /\ view' = [view EXCEPT !.stored = @ \ {loop.key}]
    /\ loop' = [loop EXCEPT !.pc = "next", !.deletes = @ \ {loop.key}, !.key = None]
    /\ UNCHANGED <<device, linkVars, userVars, queue, cache, gone, foreign>>

\* The early returns of publish_one.
Forced == loop.op # "publish"

\* Faulty Unchanged: no heartbeat.
UnchangedForever(k) == cache[k].sent = cache[k].value

Unchanged(k) == cache[k].sent = cache[k].value /\ "heartbeat" \notin cache[k].passed
Unbound(k) == k \notin view.page
TooEarly(k) == "interval" \notin cache[k].passed
Full(k) == k \notin view.stored /\ Cardinality(view.stored) >= StoreLimit
Skipped(k) ==
    \/ ~Forced /\ Unchanged(k)
    \/ ~link.up
    \/ ~Forced /\ Unbound(k)
    \/ ~enabled[k]
    \/ ~Forced /\ TooEarly(k)

\* Faulty Forget: a Reconcile trusts what was sent before.
ForgetNothing(k) == UNCHANGED cache

\* A Reconcile forgets what was sent before it writes an entry again.
Forget(k) ==
    cache' = IF loop.op = "reconcile" THEN [cache EXCEPT ![k].sent = None] ELSE cache

NextPut(k) ==
    /\ loop.pc = "next"
    /\ loop.deletes = {}
    /\ k \in loop.puts

SkipPut(k) ==
    /\ NextPut(k)
    /\ Skipped(k) \/ (loop.op = "reconcile" /\ k \notin loop.page)
    /\ Forget(k)
    /\ loop' = [loop EXCEPT !.puts = @ \ {k}]
    /\ UNCHANGED <<device, linkVars, view, userVars, queue, pending, gone, foreign>>

\* An error ends a Prepare at once, and with it the handler of the new page;
\* a Reconcile goes on with the next key.
GiveUp(k) ==
    IF loop.op = "prepare" THEN loop' = Receiving /\ edit' = NoEdit
    ELSE /\ loop' = IF loop.pc \in {"deleting", "deleted"}
                    THEN [loop EXCEPT !.pc = "next", !.key = None, !.deletes = @ \ {k}]
                    ELSE [loop EXCEPT !.pc = "next", !.key = None, !.puts = @ \ {k}]
         /\ UNCHANGED edit

StoreIsFull(k) ==
    /\ NextPut(k)
    /\ ~Skipped(k)
    /\ loop.op = "reconcile" => k \in loop.page
    /\ Full(k)
    /\ Forget(k)
    /\ GiveUp(k)
    /\ UNCHANGED <<device, linkVars, view, enabled, edits, queue, pending, gone, foreign>>

StartPut(k) ==
    /\ NextPut(k)
    /\ ~Skipped(k)
    /\ loop.op = "reconcile" => k \in loop.page
    /\ ~Full(k)
    /\ Forget(k)
    /\ loop' = [loop EXCEPT !.pc = "putting", !.key = k]
    /\ UNCHANGED <<device, linkVars, view, userVars, queue, pending, gone, foreign>>

DeviceStores ==
    /\ loop.pc = "putting"
    /\ link.up
    /\ device' = [device EXCEPT !.store[loop.key] = cache[loop.key].value]
    /\ Cardinality(Stored(device'.store)) <= StoreLimit
    /\ loop' = [loop EXCEPT !.pc = "stored"]
    /\ foreign' = foreign \ {loop.key}
    /\ UNCHANGED <<linkVars, view, userVars, queue, cache, pending, gone>>

PutAnswered ==
    /\ loop.pc = "stored"
    /\ link.up
    /\ cache' = [cache EXCEPT ![loop.key].sent = cache[loop.key].value,
                              ![loop.key].passed = {}]
    /\ loop' = [loop EXCEPT !.pc = "listing"]
    /\ UNCHANGED <<device, linkVars, view, userVars, queue, pending, gone, foreign>>

\* resource.list refreshes the Agent's copy; when it fails the copy stays.
ListAnswered ==
    /\ loop.pc = "listing"
    /\ link.up
    /\ view' = [view EXCEPT !.stored = Stored(device.store)]
    /\ loop' = [loop EXCEPT !.pc = "next", !.puts = @ \ {loop.key}, !.key = None]
    /\ UNCHANGED <<device, linkVars, userVars, queue, cache, pending, gone, foreign>>

ListFails ==
    /\ loop.pc = "listing"
    /\ loop' = [loop EXCEPT !.pc = "next", !.puts = @ \ {loop.key}, !.key = None]
    /\ UNCHANGED <<device, linkVars, view, userVars, queue, cache, pending, gone, foreign>>

\* The device refuses the request, or the session ends under it or before it;
\* a request the session had not begun may wait for the next one instead.
RequestFails ==
    /\ loop.pc \in {"deleting", "putting"} \/ (loop.pc \in {"deleted", "stored"} /\ ~link.up)
    /\ GiveUp(loop.key)
    /\ UNCHANGED <<device, linkVars, view, enabled, edits, queue, cache, pending, gone, foreign>>

\* The reply; the handler of a new page learns whether its Prepare failed.
Reply ==
    /\ loop.pc = "next"
    /\ loop.deletes \cup loop.puts = {}
    /\ loop' = Receiving
    /\ edit' = IF loop.op = "prepare" THEN [edit EXCEPT !.pc = "page"] ELSE edit
    /\ UNCHANGED <<device, linkVars, view, enabled, edits, queue, cache, pending, gone, foreign>>

\* A deadline counted from the last write of an entry passes.
DeadlinePasses(k, deadline) ==
    /\ Cached(k)
    /\ cache' = [cache EXCEPT ![k].passed = @ \cup {deadline}]
    /\ UNCHANGED <<device, linkVars, view, userVars, queue, pending, loop, gone, foreign>>

-----------------------------------------------------------------------------

Environment ==
    \/ Connect \/ Disconnect \/ DeviceRestarts \/ AgentRestarts
    \/ \E k \in Keys, d \in Deadlines : DeadlinePasses(k, d)

Web ==
    \/ \E page \in SUBSET Keys : SetPage(page)
    \/ \E k \in Keys, v \in Values : OwnerPuts(k, v)
    \/ \E k \in Keys : DeleteResource(k) \/ DisableSource(k) \/ EnableSource(k)
    \/ StartReload \/ ApplyPage \/ ReloadReads \/ ReloadWrites \/ EndSetPage \/ EditFails

Commands == TakeDisabled \/ TakePublish \/ TakeDelete \/ TakeReconcile \/ TakePrepare

Work ==
    \/ \E k \in Keys : SkipDelete(k) \/ StartDelete(k)
    \/ \E k \in Keys : SkipPut(k) \/ StoreIsFull(k) \/ StartPut(k)
    \/ DeviceDeletes \/ DeleteAnswered
    \/ DeviceStores \/ PutAnswered \/ ListAnswered \/ ListFails
    \/ RequestFails \/ Reply

Next ==
    \/ Environment \/ Web \/ Commands \/ Work \/ RelayEvent
    \/ \E k \in Keys, v \in Values : PublishValue(k, v)

Spec == Init /\ [][Next]_vars

\* The tasks run on, requests are answered or fail while the session lasts,
\* and the deadlines pass.  Every producer publishes again and again (each has
\* a poll), and a device that is asked again and again to store a value in the
\* end does.
Fairness ==
    /\ WF_vars(Commands)
    /\ WF_vars(Work)
    /\ WF_vars(RelayEvent)
    /\ SF_vars(DeviceStores)
    /\ WF_vars(ApplyPage \/ ReloadReads \/ ReloadWrites \/ EndSetPage)
    /\ \A k \in Keys :
        /\ SF_vars(\E v \in Values : PublishValue(k, v))
        /\ \A d \in Deadlines : WF_vars(DeadlinePasses(k, d))

FairSpec == Spec /\ Fairness

-----------------------------------------------------------------------------
(* Properties.                                                             *)

\* Every variable holds values of its type; the channel keeps to its bound.
TypeOK ==
    /\ device \in [store : [Keys -> Values \cup {None}], page : SUBSET Keys]
    /\ link \in [up : BOOLEAN, no : Nat]
    /\ view \in [stored : SUBSET Keys, page : SUBSET Keys]
    /\ signals \in Seq({"device.connected", "device.disconnected"})
    /\ relay \in BOOLEAN
    /\ enabled \in [Keys -> BOOLEAN]
    /\ queue \in Seq(Command)
    /\ Len(queue) <= QueueCap
    /\ cache \in [Keys -> [value : Values \cup {None}, sent : Values \cup {None},
                           passed : SUBSET Deadlines]]
    /\ pending \subseteq Keys
    /\ loop \in [pc : {"receive", "next", "putting", "stored", "listing", "deleting", "deleted"},
                 op : {"none", "publish", "delete", "reconcile", "prepare"},
                 key : Keys \cup {None}, deletes : SUBSET Keys, puts : SUBSET Keys,
                 page : SUBSET Keys]
    /\ edit \in [pc : {"idle", "preparing", "page", "reload", "write", "reconcile"},
                 op : {"none", "page", "put", "reload"}, page : SUBSET Keys,
                 view : [stored : SUBSET Keys, page : SUBSET Keys]]
    /\ edits \in [edits : Nat, restarts : Nat]
    /\ gone \subseteq Keys
    /\ foreign \subseteq Keys

\* A Reconcile is on its way, or under way.
ReconcileDue ==
    \/ "device.connected" \in Range(signals)
    \/ Reconcile \in Range(queue)
    \/ loop.op = "reconcile"

\* Leaving out a write because the same payload was sent before is right: in a
\* session whose Reconcile is done the device still holds what was sent, across
\* lost answers, device restarts and deletions, unless an owner's put replaced
\* it (publish_one's first return; repaired by the heartbeat only).
DedupeSound ==
    relay /\ link.up /\ ~ReconcileDue =>
        \A k \in Keys \ foreign :
            Cached(k) /\ cache[k].sent = cache[k].value => device.store[k] = cache[k].value

\* A deletion is not forgotten, however often requests fail and sessions end,
\* until the key is published again or the Agent restarts.
DeletionIsOwed == \A k \in gone : device.store[k] # None => k \in pending

\* The deletion of k is queued.
Deleting(k) == Delete(k) \in Range(queue)

\* A disabled source leaves nothing behind: its payload is not cached, and the
\* device does not hold it or has its deletion coming, also when a publish was
\* under way while it was disabled (web.rs, source_policy_patch).
DisabledIsWithdrawn ==
    edits.restarts = 0 =>
        \A k \in Keys : ~enabled[k] =>
            \/ Deleting(k)
            \/ ~Cached(k) /\ (device.store[k] # None => k \in pending \cup foreign)

\* What is published and bound reaches the device while a session lasts, again
\* and again, whatever failed, was overwritten or was missed before.
Mirrored(k) ==
    \/ ~link.up \/ ~enabled[k] \/ ~Cached(k) \/ Unbound(k) \/ Full(k)
    \/ device.store[k] = cache[k].value
EventuallyMirrored == \A k \in Keys : []<>Mirrored(k)

=============================================================================
