---------------------------- MODULE PublisherProofs ----------------------------
(***************************************************************************)
(* The invariants of Publisher for any keys, payloads and bounds: types,    *)
(* owed deletions, withdrawal of disabled sources, and that a write is only *)
(* left out when the device still holds what was sent.                      *)
(***************************************************************************)
EXTENDS Publisher, ChannelTheorems

-----------------------------------------------------------------------------
(* Types, one part for each group of variables. *)

Events == {"device.connected", "device.disconnected"}

\* What producers and handlers send names what it is about.
Sendable == {c \in Command :
    /\ c.op \in {"publish", "delete"} => c.key \in Keys
    /\ c.op = "publish" => c.value \in Values}

QueueOK == queue \in Seq(Sendable) /\ Len(queue) <= QueueCap

SignalsOK == signals \in Seq(Events) /\ relay \in BOOLEAN

DeviceOK ==
    /\ device \in [store : [Keys -> Values \cup {None}], page : SUBSET Keys]
    /\ link \in [up : BOOLEAN, no : Nat]
    /\ foreign \subseteq Keys

ViewOK == view \in [stored : SUBSET Keys, page : SUBSET Keys]

Handlers ==
    [pc : {"idle", "preparing", "page", "reload", "write", "reconcile"},
     op : {"none", "page", "put", "reload"}, page : SUBSET Keys,
     view : [stored : SUBSET Keys, page : SUBSET Keys]]

UserOK ==
    /\ enabled \in [Keys -> BOOLEAN]
    /\ edit \in Handlers
    /\ edits \in [edits : Nat, restarts : Nat]

CacheOK ==
    /\ cache \in [Keys -> [value : Values \cup {None}, sent : Values \cup {None},
                           passed : SUBSET Deadlines]]
    /\ pending \subseteq Keys
    /\ gone \subseteq Keys

LoopStates ==
    [pc : {"receive", "next", "putting", "stored", "listing", "deleting", "deleted"},
     op : {"none", "publish", "delete", "reconcile", "prepare"},
     key : Keys \cup {None}, deletes : SUBSET Keys, puts : SUBSET Keys, page : SUBSET Keys]

LoopOK == loop \in LoopStates

Typed == QueueOK /\ SignalsOK /\ DeviceOK /\ ViewOK /\ UserOK /\ CacheOK /\ LoopOK

-----------------------------------------------------------------------------
(* The inductive invariant. *)

\* The loop works on a key it still has to put or to delete; it receives when it has
\* no command.
WorksOnKey ==
    /\ loop.pc = "receive" => loop.op = "none"
    /\ loop.pc \in {"putting", "stored", "listing"} =>
          loop.key \in loop.puts /\ loop.deletes = {}
    /\ loop.pc \in {"deleting", "deleted"} => loop.key \in loop.deletes

\* Only what is cached is put, and only what is cached was sent.
PutsAreCached ==
    /\ \A k \in loop.puts : Cached(k)
    /\ \A k \in Keys : cache[k].sent # None => Cached(k)

\* A Reconcile still has every cached key before it while it deletes; a deletion by
\* its owner is of a key that is cached no more.
DeletesComeFirst ==
    loop.deletes # {} =>
        \/ loop.op = "reconcile" /\ \A k \in Keys : Cached(k) => k \in loop.puts
        \/ loop.op = "delete" /\ \A k \in loop.deletes : ~Cached(k)

LoopInv == WorksOnKey /\ PutsAreCached /\ DeletesComeFirst

\* What was deleted is not cached.
GoneIsNotCached == \A k \in gone : ~Cached(k)

\* A key that the device has just deleted is stored again by an owner's put only.
DeletedIsGone ==
    loop.pc = "deleted" /\ device.store[loop.key] # None =>
        loop.key \in foreign \ gone

DeletionInv == GoneIsNotCached /\ DeletedIsGone /\ DeletionIsOwed

\* A Reconcile comes after the command that the loop is busy with.
MoreDue == "device.connected" \in Range(signals) \/ Reconcile \in Range(queue)

\* The session is the one that the last Reconcile worked in.
Reconciled == relay /\ link.up /\ ~MoreDue

\* A Reconcile still has to put k, or has just forgotten what was sent.
ToReconcile(k) ==
    loop.op = "reconcile" /\ k \in loop.puts /\ ~(loop.pc = "listing" /\ loop.key = k)

\* The device has the value of k, and the publisher has not its answer.
Unanswered(k) == loop.pc = "stored" /\ loop.key = k

\* What a Reconcile or a later put sent is what the device holds.
SentIsStored ==
    Reconciled => \A k \in Keys \ foreign :
        \/ cache[k].sent = None
        \/ device.store[k] = cache[k].sent
        \/ ToReconcile(k)
        \/ Unanswered(k)

\* While its session lasts, the device keeps what it has just stored.
StoredIsCached ==
    loop.pc = "stored" /\ link.up =>
        device.store[loop.key] = cache[loop.key].value \/ loop.key \in foreign

\* A Reconcile has forgotten what was sent of the key it writes.
ForgottenFirst ==
    loop.op = "reconcile" /\ loop.pc \in {"putting", "stored"} => cache[loop.key].sent = None

SentInv == SentIsStored /\ StoredIsCached /\ ForgottenFirst

PublisherInv == Typed /\ LoopInv /\ DeletionInv /\ SentInv /\ DisabledIsWithdrawn

-----------------------------------------------------------------------------
(* The channel and the broadcast. *)

\* Every command that is sent is well-formed.
LEMMA CommandsAreSendable ==
  /\ Reconcile \in Sendable
  /\ \A k \in Keys : Delete(k) \in Sendable
  /\ \A k \in Keys, v \in Values : Publish(k, v) \in Sendable
  /\ \A page \in SUBSET Keys : Prepare(page) \in Sendable
  BY DEF Sendable, Command, Reconcile, Delete, Publish, Prepare

\* A send keeps what is queued.
LEMMA SendStep ==
  ASSUME QueueOK, NEW c \in Sendable, Send(c)
  PROVE  QueueOK' /\ Range(queue') = Range(queue) \cup {c}
<1>1. Len(queue') = Len(queue) + 1 /\ Len(queue) \in Nat
  BY AppendProperties, LenProperties DEF QueueOK, Send
<1>2. QueueOK'
  BY <1>1, SendCarries, BoundAssumption DEF QueueOK, Send
<1> QED
  BY <1>2, SendCarries DEF QueueOK, Send

\* A receive keeps the commands behind the first.
LEMMA TakeStep ==
  ASSUME QueueOK, NEW op, Take(op)
  PROVE  /\ QueueOK' /\ Range(queue) = Range(queue') \cup {Head(queue)}
         /\ Head(queue) \in Sendable /\ Head(queue).op = op /\ loop.pc = "receive"
<1>1. Len(queue') = Len(queue) - 1 /\ Len(queue) \in Nat
  BY HeadTailProperties, LenProperties DEF QueueOK, Take
<1> QED
  BY <1>1, ReceiveCarries, BoundAssumption DEF QueueOK, Take

\* The broadcast keeps its events, or the reconcile task ends.
LEMMA SignalStep ==
  ASSUME SignalsOK, NEW event \in Events, Signal(event)
  PROVE  /\ SignalsOK'
         /\ \/ relay' = FALSE
            \/ relay' = relay /\ Range(signals') = Range(signals) \cup {event}
<1>1. CASE Len(signals) < SignalCap
  <2>1. signals' = Append(signals, event) /\ relay' = relay
    BY <1>1 DEF Signal
  <2>2. signals' \in Seq(Events) /\ Range(signals') = Range(signals) \cup {event}
    BY <2>1, SendCarries DEF SignalsOK
  <2> QED
    BY <2>1, <2>2 DEF SignalsOK
<1>2. CASE ~(Len(signals) < SignalCap)
  BY <1>2, EmptySeq DEF SignalsOK, Signal
<1> QED
  BY <1>1, <1>2

\* The reconcile task turns a connection into a Reconcile.
LEMMA RelayStep ==
  ASSUME QueueOK, SignalsOK, RelayEvent
  PROVE  /\ QueueOK' /\ SignalsOK' /\ relay' = relay
         /\ Range(signals) \subseteq Range(signals') \cup {Head(signals)}
         /\ \/ Head(signals) = "device.connected" /\ Range(queue') = Range(queue) \cup {Reconcile}
            \/ Head(signals) = "device.disconnected" /\ queue' = queue
<1>1. /\ Head(signals) \in Events /\ SignalsOK' /\ relay' = relay
      /\ Range(signals) = Range(signals') \cup {Head(signals)}
  BY ReceiveCarries DEF SignalsOK, RelayEvent
<1>2. CASE Head(signals) = "device.connected"
  BY <1>1, <1>2, SendStep, CommandsAreSendable DEF RelayEvent
<1>3. CASE Head(signals) = "device.disconnected"
  BY <1>1, <1>3 DEF RelayEvent, QueueOK
<1> QED
  BY <1>1, <1>2, <1>3 DEF Events

\* A handler and the loop may end wherever they are.
LEMMA IdleTyped == NoEdit \in Handlers /\ Receiving \in LoopStates
  BY DEF NoEdit, Receiving, Handlers, LoopStates

\* A request that fails takes its key from the loop, or ends a Prepare.
LEMMA GiveUpStep ==
  ASSUME LoopOK, NEW k, GiveUp(k)
  PROVE  \/ loop'.pc = "receive" /\ loop'.op = "none" /\ loop'.deletes = {} /\ loop'.puts = {}
            /\ loop.op = "prepare"
         \/ loop'.pc = "next" /\ loop'.op = loop.op /\ loop.pc \in {"deleting", "deleted"}
            /\ loop'.deletes = loop.deletes \ {k} /\ loop'.puts = loop.puts
         \/ loop'.pc = "next" /\ loop'.op = loop.op /\ loop.pc \notin {"deleting", "deleted"}
            /\ loop'.deletes = loop.deletes /\ loop'.puts = loop.puts \ {k}
<1>1. CASE loop.op = "prepare"
  BY <1>1 DEF GiveUp, Receiving
<1>2. CASE loop.op # "prepare" /\ loop.pc \in {"deleting", "deleted"}
  BY <1>2 DEF GiveUp, LoopOK, LoopStates
<1>3. CASE loop.op # "prepare" /\ loop.pc \notin {"deleting", "deleted"}
  BY <1>3 DEF GiveUp, LoopOK, LoopStates
<1> QED
  BY <1>1, <1>2, <1>3

\* Where a request that fails leaves the loop and the handler.
LEMMA GiveUpTyped ==
  ASSUME LoopOK, edit \in Handlers, NEW k, GiveUp(k)
  PROVE  LoopOK' /\ edit' \in Handlers
<1>1. CASE loop.op = "prepare"
  BY <1>1, IdleTyped DEF GiveUp, LoopOK
<1>2. CASE loop.op # "prepare" /\ loop.pc \in {"deleting", "deleted"}
  <2>1. /\ loop' = [loop EXCEPT !.pc = "next", !.key = None, !.deletes = loop.deletes \ {k}]
        /\ edit' = edit
    BY <1>2 DEF GiveUp
  <2>2. loop' \in LoopStates
    BY <2>1 DEF LoopOK, LoopStates
  <2> QED
    BY <2>1, <2>2 DEF LoopOK
<1>3. CASE loop.op # "prepare" /\ loop.pc \notin {"deleting", "deleted"}
  <2>1. /\ loop' = [loop EXCEPT !.pc = "next", !.key = None, !.puts = loop.puts \ {k}]
        /\ edit' = edit
    BY <1>3 DEF GiveUp
  <2>2. loop' \in LoopStates
    BY <2>1 DEF LoopOK, LoopStates
  <2> QED
    BY <2>1, <2>2 DEF LoopOK
<1> QED
  BY <1>1, <1>2, <1>3

\* A handler that begins.
LEMMA EditTyped ==
  ASSUME NEW at \in {"preparing", "reload"}, NEW op \in {"page", "put", "reload"},
         NEW page \in SUBSET Keys
  PROVE  [NoEdit EXCEPT !.pc = at, !.op = op, !.page = page] \in Handlers
  BY DEF NoEdit, Handlers

\* A handler that reads the view first.
LEMMA ReloadTyped ==
  ASSUME NEW op \in {"page", "put", "reload"}
  PROVE  [NoEdit EXCEPT !.pc = "reload", !.op = op] \in Handlers
  BY DEF NoEdit, Handlers
-----------------------------------------------------------------------------
(* Types. *)

\* The channel keeps to its bound.
LEMMA QueueTyped ==
  ASSUME QueueOK, SignalsOK, [Next]_vars
  PROVE  QueueOK'
<1>1. CASE AgentRestarts
  BY <1>1, BoundAssumption, EmptySeq DEF QueueOK, AgentRestarts
<1>2. ASSUME NEW page \in SUBSET Keys, SetPage(page) PROVE QueueOK'
  BY <1>2, SendStep, CommandsAreSendable DEF QueueOK, SetPage, BeginEdit, CountEdit,
     Prepare, NoEdit, linkVars
<1>3. ASSUME NEW k \in Keys, DeleteResource(k) PROVE QueueOK'
  BY <1>3, SendStep, CommandsAreSendable DEF QueueOK, DeleteResource, CountEdit,
     Delete, linkVars
<1>4. ASSUME NEW k \in Keys, DisableSource(k) PROVE QueueOK'
  BY <1>4, SendStep, CommandsAreSendable DEF QueueOK, DisableSource, CountEdit,
     Delete, linkVars
<1>5. CASE EndSetPage
  BY <1>5, SendStep, CommandsAreSendable DEF QueueOK, EndSetPage, Reconcile, NoEdit,
     linkVars
<1>6. CASE TakeDisabled
  BY <1>6, TakeStep DEF QueueOK, TakeDisabled, linkVars, userVars
<1>7. CASE TakePublish
  BY <1>7, TakeStep DEF QueueOK, TakePublish, Busy, linkVars, userVars
<1>8. CASE TakeDelete
  BY <1>8, TakeStep DEF QueueOK, TakeDelete, NoEntry, Deadlines, Busy, linkVars,
     userVars
<1>9. CASE TakeReconcile
  BY <1>9, TakeStep DEF QueueOK, TakeReconcile, Busy, Cached, linkVars, userVars
<1>10. CASE TakePrepare
  BY <1>10, TakeStep DEF QueueOK, TakePrepare, Busy, Cached, linkVars, userVars
<1>11. CASE RelayEvent
  BY <1>11, RelayStep DEF QueueOK, RelayEvent, Reconcile, userVars
<1>12. ASSUME NEW k \in Keys, NEW v \in Values, PublishValue(k, v) PROVE QueueOK'
  BY <1>12, SendStep, CommandsAreSendable DEF QueueOK, PublishValue, Publish,
     linkVars, userVars
<1>13. CASE UNCHANGED <<queue>>
  BY <1>13 DEF QueueOK
<1> QED
  BY <1>1, <1>2, <1>3, <1>4, <1>5, <1>6, <1>7, <1>8, <1>9, <1>10, <1>11, <1>12, <1>13
     DEF Next, Environment, Web, Commands, Work, vars, linkVars, userVars, Connect,
     Signal, Disconnect, DeviceRestarts, DeadlinePasses, OwnerPuts, CountEdit,
     EnableSource, StartReload, ApplyPage, ReloadReads, ReloadWrites, EditFails,
     SkipDelete, StartDelete, SkipPut, Forget, StoreIsFull, GiveUp, StartPut,
     DeviceDeletes, DeleteAnswered, DeviceStores, PutAnswered, ListAnswered,
     ListFails, RequestFails, Reply

\* The broadcast carries device events.
LEMMA SignalsTyped ==
  ASSUME QueueOK, SignalsOK, [Next]_vars
  PROVE  SignalsOK'
<1>1. CASE Connect
  BY <1>1, SignalStep DEF SignalsOK, Events, Connect, Stored, userVars
<1>2. CASE Disconnect
  BY <1>2, SignalStep DEF SignalsOK, Events, Disconnect, userVars
<1>3. CASE AgentRestarts
  BY <1>3, EmptySeq DEF SignalsOK, AgentRestarts
<1>4. CASE RelayEvent
  BY <1>4, RelayStep DEF SignalsOK, RelayEvent, Reconcile, userVars
<1>5. CASE UNCHANGED <<signals, relay>>
  BY <1>5 DEF SignalsOK
<1> QED
  BY <1>1, <1>2, <1>3, <1>4, <1>5 DEF Next, Environment, Web, Commands, Work, vars,
     linkVars, userVars, DeviceRestarts, DeadlinePasses, SetPage, CountEdit, Send,
     OwnerPuts, DeleteResource, DisableSource, EnableSource, StartReload, ApplyPage,
     ReloadReads, ReloadWrites, EndSetPage, EditFails, TakeDisabled, Take,
     TakePublish, Busy, TakeDelete, TakeReconcile, TakePrepare, SkipDelete,
     StartDelete, SkipPut, Forget, StoreIsFull, GiveUp, StartPut, DeviceDeletes,
     DeleteAnswered, DeviceStores, PutAnswered, ListAnswered, ListFails, RequestFails,
     Reply, PublishValue

\* The device stores payloads.
LEMMA DeviceTyped ==
  ASSUME Typed, LoopInv, [Next]_vars
  PROVE  DeviceOK'
<1>1. CASE Connect
  BY <1>1 DEF Typed, DeviceOK, Connect, Stored, userVars
<1>2. CASE Disconnect
  BY <1>2 DEF Typed, DeviceOK, Disconnect, userVars
<1>3. CASE DeviceRestarts
  BY <1>3 DEF Typed, DeviceOK, DeviceRestarts, linkVars, userVars
<1>4. CASE AgentRestarts
  BY <1>4 DEF Typed, DeviceOK, AgentRestarts, NoEntry, Deadlines, Receiving, NoEdit
<1>5. ASSUME NEW k \in Keys, NEW v \in Values, OwnerPuts(k, v) PROVE DeviceOK'
  BY <1>5 DEF Typed, DeviceOK, OwnerPuts, BeginEdit, CountEdit, Stored, NoEdit,
     linkVars
<1>6. CASE ApplyPage
  BY <1>6 DEF Typed, DeviceOK, UserOK, Handlers, ApplyPage, linkVars
<1>7. CASE DeviceDeletes
  BY <1>7 DEF Typed, DeviceOK, WorksOnKey, LoopInv, LoopOK, LoopStates, DeviceDeletes,
     linkVars, userVars
<1>8. CASE DeviceStores
  BY <1>8 DEF Typed, DeviceOK, WorksOnKey, LoopInv, LoopOK, LoopStates, CacheOK,
     DeviceStores, Stored, linkVars, userVars
<1>9. CASE UNCHANGED <<device, link, foreign>>
  BY <1>9 DEF Typed, DeviceOK
<1> QED
  BY <1>1, <1>2, <1>3, <1>4, <1>5, <1>6, <1>7, <1>8, <1>9 DEF Next, Environment, Web,
     Commands, Work, vars, linkVars, userVars, DeadlinePasses, SetPage, CountEdit,
     Send, DeleteResource, DisableSource, EnableSource, StartReload, ReloadReads,
     ReloadWrites, EndSetPage, EditFails, TakeDisabled, Take, TakePublish, Busy,
     TakeDelete, TakeReconcile, TakePrepare, SkipDelete, StartDelete, SkipPut, Forget,
     StoreIsFull, GiveUp, StartPut, DeleteAnswered, PutAnswered, ListAnswered,
     ListFails, RequestFails, Reply, RelayEvent, PublishValue

\* The Agent knows which keys are stored and bound.
LEMMA ViewTyped ==
  ASSUME Typed, [Next]_vars
  PROVE  ViewOK'
<1>1. CASE Connect
  BY <1>1 DEF Typed, ViewOK, DeviceOK, UserOK, Handlers, Connect, Stored, userVars
<1>2. CASE AgentRestarts
  BY <1>2 DEF Typed, ViewOK, DeviceOK, UserOK, Handlers, AgentRestarts, NoEntry,
     Deadlines, Receiving, NoEdit
<1>3. CASE ReloadWrites
  BY <1>3 DEF Typed, ViewOK, DeviceOK, UserOK, Handlers, ReloadWrites, NoEdit,
     linkVars
<1>4. CASE DeleteAnswered
  BY <1>4 DEF Typed, ViewOK, DeviceOK, UserOK, Handlers, DeleteAnswered, linkVars,
     userVars
<1>5. CASE ListAnswered
  BY <1>5 DEF Typed, ViewOK, DeviceOK, UserOK, Handlers, ListAnswered, Stored,
     linkVars, userVars
<1>6. CASE UNCHANGED <<view>>
  BY <1>6 DEF Typed, ViewOK, DeviceOK, UserOK, Handlers
<1> QED
  BY <1>1, <1>2, <1>3, <1>4, <1>5, <1>6 DEF Next, Environment, Web, Commands, Work,
     vars, linkVars, userVars, Disconnect, Signal, DeviceRestarts, DeadlinePasses,
     SetPage, CountEdit, Send, OwnerPuts, DeleteResource, DisableSource, EnableSource,
     StartReload, ApplyPage, ReloadReads, EndSetPage, EditFails, TakeDisabled, Take,
     TakePublish, Busy, TakeDelete, TakeReconcile, TakePrepare, SkipDelete,
     StartDelete, SkipPut, Forget, StoreIsFull, GiveUp, StartPut, DeviceDeletes,
     DeviceStores, PutAnswered, ListFails, RequestFails, Reply, RelayEvent,
     PublishValue

\* A handler goes from one of its steps to the next.
LEMMA UserTyped ==
  ASSUME Typed, [Next]_vars
  PROVE  UserOK'
<1>1. CASE AgentRestarts
  BY <1>1 DEF Typed, UserOK, Handlers, AgentRestarts, NoEntry, Deadlines, Receiving,
     NoEdit
<1>2. ASSUME NEW page \in SUBSET Keys, SetPage(page) PROVE UserOK'
  <2>1. edit' \in Handlers
    BY <1>2, EditTyped, ReloadTyped DEF SetPage
  <2> QED
    BY <1>2, <2>1 DEF Typed, UserOK, SetPage, BeginEdit, CountEdit
<1>3. ASSUME NEW k \in Keys, NEW v \in Values, OwnerPuts(k, v) PROVE UserOK'
  <2>1. edit' \in Handlers
    BY <1>3, EditTyped, ReloadTyped DEF OwnerPuts
  <2> QED
    BY <1>3, <2>1 DEF Typed, UserOK, OwnerPuts, BeginEdit, CountEdit
<1>4. ASSUME NEW k \in Keys, DeleteResource(k) PROVE UserOK'
  BY <1>4 DEF Typed, UserOK, Handlers, DeleteResource, CountEdit, Delete, linkVars
<1>5. ASSUME NEW k \in Keys, DisableSource(k) PROVE UserOK'
  BY <1>5 DEF Typed, UserOK, Handlers, DisableSource, CountEdit, Delete, linkVars
<1>6. ASSUME NEW k \in Keys, EnableSource(k) PROVE UserOK'
  BY <1>6 DEF Typed, UserOK, Handlers, EnableSource, linkVars
<1>7. CASE StartReload
  <2>1. edit' \in Handlers
    BY <1>7, EditTyped, ReloadTyped DEF StartReload
  <2> QED
    BY <1>7, <2>1 DEF Typed, UserOK, StartReload, BeginEdit, CountEdit
<1>8. CASE ApplyPage
  BY <1>8 DEF Typed, UserOK, Handlers, ApplyPage, linkVars
<1>9. CASE ReloadReads
  BY <1>9 DEF Typed, UserOK, Handlers, DeviceOK, ReloadReads, Stored, linkVars
<1>10. CASE ReloadWrites
  BY <1>10 DEF Typed, UserOK, Handlers, ReloadWrites, NoEdit, linkVars
<1>11. CASE EndSetPage
  BY <1>11 DEF Typed, UserOK, Handlers, EndSetPage, Reconcile, NoEdit, linkVars
<1>12. CASE EditFails
  BY <1>12 DEF Typed, UserOK, Handlers, EditFails, NoEdit, linkVars
<1>13. ASSUME NEW k \in Keys, StoreIsFull(k) PROVE UserOK'
  BY <1>13, GiveUpTyped DEF Typed, UserOK, StoreIsFull
<1>14. CASE RequestFails
  BY <1>14, GiveUpTyped DEF Typed, UserOK, RequestFails
<1>15. CASE Reply
  BY <1>15 DEF Typed, UserOK, Handlers, Reply, Receiving, linkVars
<1>16. CASE UNCHANGED <<enabled, edit, edits>>
  BY <1>16 DEF Typed, UserOK, Handlers
<1> QED
  BY <1>1, <1>2, <1>3, <1>4, <1>5, <1>6, <1>7, <1>8, <1>9, <1>10, <1>11, <1>12, <1>13,
     <1>14, <1>15, <1>16 DEF Next, Environment, Web, Commands, Work, vars, linkVars,
     userVars, Connect, Signal, Disconnect, DeviceRestarts, DeadlinePasses,
     TakeDisabled, Take, TakePublish, Busy, TakeDelete, TakeReconcile, TakePrepare,
     SkipDelete, StartDelete, SkipPut, Forget, StartPut, DeviceDeletes,
     DeleteAnswered, DeviceStores, PutAnswered, ListAnswered, ListFails, RelayEvent,
     Send, PublishValue

\* The cache holds payloads and what was sent.
LEMMA CacheTyped ==
  ASSUME Typed, LoopInv, [Next]_vars
  PROVE  CacheOK'
<1>1. CASE AgentRestarts
  BY <1>1 DEF Typed, CacheOK, AgentRestarts, NoEntry, Deadlines, Receiving, NoEdit
<1>2. ASSUME NEW k \in Keys, NEW d \in Deadlines, DeadlinePasses(k, d) PROVE CacheOK'
  BY <1>2 DEF Typed, CacheOK, DeadlinePasses, Cached, linkVars, userVars
<1>3. ASSUME NEW k \in Keys, NEW v \in Values, OwnerPuts(k, v) PROVE CacheOK'
  BY <1>3 DEF Typed, CacheOK, OwnerPuts, BeginEdit, CountEdit, Stored, NoEdit,
     linkVars
<1>4. CASE TakePublish
  BY <1>4, TakeStep DEF Typed, CacheOK, Sendable, Command, TakePublish, Busy,
     linkVars, userVars
<1>5. CASE TakeDelete
  BY <1>5, TakeStep DEF Typed, CacheOK, Sendable, Command, TakeDelete, NoEntry,
     Deadlines, Busy, linkVars, userVars
<1>6. CASE TakeReconcile
  BY <1>6, TakeStep DEF Typed, CacheOK, ViewOK, TakeReconcile, Busy, Cached, linkVars,
     userVars
<1>7. ASSUME NEW k \in Keys, SkipPut(k) PROVE CacheOK'
  BY <1>7 DEF Typed, CacheOK, SkipPut, NextPut, Forget, linkVars, userVars
<1>8. ASSUME NEW k \in Keys, StoreIsFull(k) PROVE CacheOK'
  BY <1>8, GiveUpStep DEF Typed, CacheOK, StoreIsFull, NextPut, Forget, Receiving,
     NoEdit, linkVars
<1>9. ASSUME NEW k \in Keys, StartPut(k) PROVE CacheOK'
  BY <1>9 DEF Typed, CacheOK, StartPut, NextPut, Forget, linkVars, userVars
<1>10. CASE DeleteAnswered
  BY <1>10 DEF Typed, CacheOK, DeleteAnswered, linkVars, userVars
<1>11. CASE PutAnswered
  BY <1>11 DEF Typed, CacheOK, LoopInv, WorksOnKey, LoopOK, LoopStates, PutAnswered,
     linkVars, userVars
<1>12. CASE UNCHANGED <<cache, pending, gone>>
  BY <1>12 DEF Typed, CacheOK
<1> QED
  BY <1>1, <1>2, <1>3, <1>4, <1>5, <1>6, <1>7, <1>8, <1>9, <1>10, <1>11, <1>12 DEF
     Next, Environment, Web, Commands, Work, vars, linkVars, userVars, Connect,
     Signal, Disconnect, DeviceRestarts, SetPage, CountEdit, Send, DeleteResource,
     DisableSource, EnableSource, StartReload, ApplyPage, ReloadReads, ReloadWrites,
     EndSetPage, EditFails, TakeDisabled, Take, TakePrepare, Busy, SkipDelete,
     StartDelete, DeviceDeletes, DeviceStores, ListAnswered, ListFails, RequestFails,
     GiveUp, Reply, RelayEvent, PublishValue

\* The loop goes from one request to the next.
LEMMA LoopTyped ==
  ASSUME Typed, [Next]_vars
  PROVE  LoopOK'
<1>1. CASE AgentRestarts
  BY <1>1 DEF Typed, LoopOK, LoopStates, AgentRestarts, NoEntry, Deadlines, Receiving,
     NoEdit
<1>2. CASE TakePublish
  BY <1>2, TakeStep DEF Typed, LoopOK, LoopStates, Sendable, Command, TakePublish,
     Busy, linkVars, userVars
<1>3. CASE TakeDelete
  BY <1>3, TakeStep DEF Typed, LoopOK, LoopStates, Sendable, Command, TakeDelete,
     NoEntry, Deadlines, Busy, linkVars, userVars
<1>4. CASE TakeReconcile
  BY <1>4, TakeStep DEF Typed, LoopOK, LoopStates, ViewOK, CacheOK, TakeReconcile,
     Busy, Cached, linkVars, userVars
<1>5. CASE TakePrepare
  BY <1>5, TakeStep DEF Typed, LoopOK, LoopStates, Sendable, Command, TakePrepare,
     Busy, Cached, linkVars, userVars
<1>6. ASSUME NEW k \in Keys, SkipDelete(k) PROVE LoopOK'
  BY <1>6 DEF Typed, LoopOK, LoopStates, SkipDelete, linkVars, userVars
<1>7. ASSUME NEW k \in Keys, StartDelete(k) PROVE LoopOK'
  BY <1>7 DEF Typed, LoopOK, LoopStates, StartDelete, linkVars, userVars
<1>8. ASSUME NEW k \in Keys, SkipPut(k) PROVE LoopOK'
  BY <1>8 DEF Typed, LoopOK, LoopStates, SkipPut, NextPut, Forget, linkVars, userVars
<1>9. ASSUME NEW k \in Keys, StoreIsFull(k) PROVE LoopOK'
  BY <1>9, GiveUpTyped DEF Typed, UserOK, StoreIsFull
<1>10. ASSUME NEW k \in Keys, StartPut(k) PROVE LoopOK'
  BY <1>10 DEF Typed, LoopOK, LoopStates, StartPut, NextPut, Forget, linkVars,
     userVars
<1>11. CASE DeviceDeletes
  BY <1>11 DEF Typed, LoopOK, LoopStates, DeviceDeletes, linkVars, userVars
<1>12. CASE DeleteAnswered
  BY <1>12 DEF Typed, LoopOK, LoopStates, DeleteAnswered, linkVars, userVars
<1>13. CASE DeviceStores
  BY <1>13 DEF Typed, LoopOK, LoopStates, DeviceStores, Stored, linkVars, userVars
<1>14. CASE PutAnswered
  BY <1>14 DEF Typed, LoopOK, LoopStates, PutAnswered, linkVars, userVars
<1>15. CASE ListAnswered
  BY <1>15 DEF Typed, LoopOK, LoopStates, ListAnswered, Stored, linkVars, userVars
<1>16. CASE ListFails
  BY <1>16 DEF Typed, LoopOK, LoopStates, ListFails, linkVars, userVars
<1>17. CASE RequestFails
  BY <1>17, GiveUpTyped DEF Typed, UserOK, RequestFails
<1>18. CASE Reply
  BY <1>18 DEF Typed, LoopOK, LoopStates, Reply, Receiving, linkVars
<1>19. CASE UNCHANGED <<loop>>
  BY <1>19 DEF Typed, LoopOK, LoopStates
<1> QED
  BY <1>1, <1>2, <1>3, <1>4, <1>5, <1>6, <1>7, <1>8, <1>9, <1>10, <1>11, <1>12, <1>13,
     <1>14, <1>15, <1>16, <1>17, <1>18, <1>19 DEF Next, Environment, Web, Commands,
     Work, vars, linkVars, userVars, Connect, Signal, Disconnect, DeviceRestarts,
     DeadlinePasses, SetPage, CountEdit, Send, OwnerPuts, DeleteResource,
     DisableSource, EnableSource, StartReload, ApplyPage, ReloadReads, ReloadWrites,
     EndSetPage, EditFails, TakeDisabled, Take, RelayEvent, PublishValue

-----------------------------------------------------------------------------
(* The loop. *)

\* A request is for a key that the loop still has before it.
LEMMA WorksStep ==
  ASSUME Typed, WorksOnKey, [Next]_vars
  PROVE  WorksOnKey'
<1>1. CASE AgentRestarts
  BY <1>1 DEF Typed, LoopOK, LoopStates, WorksOnKey, AgentRestarts, NoEntry,
     Deadlines, Receiving, NoEdit
<1>2. CASE TakePublish
  BY <1>2, TakeStep, KeyAssumption DEF Typed, LoopOK, LoopStates, WorksOnKey,
     Sendable, Command, ViewOK, TakePublish, Busy, linkVars, userVars
<1>3. CASE TakeDelete
  BY <1>3, TakeStep, KeyAssumption DEF Typed, LoopOK, LoopStates, WorksOnKey,
     Sendable, Command, ViewOK, TakeDelete, NoEntry, Deadlines, Busy, linkVars,
     userVars
<1>4. CASE TakeReconcile
  BY <1>4, TakeStep, KeyAssumption DEF Typed, LoopOK, LoopStates, WorksOnKey,
     Sendable, Command, ViewOK, TakeReconcile, Busy, Cached, linkVars, userVars
<1>5. CASE TakePrepare
  BY <1>5, TakeStep, KeyAssumption DEF Typed, LoopOK, LoopStates, WorksOnKey,
     Sendable, Command, ViewOK, TakePrepare, Busy, Cached, linkVars, userVars
<1>6. ASSUME NEW k \in Keys, SkipDelete(k) PROVE WorksOnKey'
  BY <1>6 DEF Typed, LoopOK, LoopStates, WorksOnKey, SkipDelete, linkVars, userVars
<1>7. ASSUME NEW k \in Keys, StartDelete(k) PROVE WorksOnKey'
  BY <1>7 DEF Typed, LoopOK, LoopStates, WorksOnKey, StartDelete, linkVars, userVars
<1>8. ASSUME NEW k \in Keys, SkipPut(k) PROVE WorksOnKey'
  BY <1>8 DEF Typed, LoopOK, LoopStates, WorksOnKey, SkipPut, NextPut, Forget,
     linkVars, userVars
<1>9. ASSUME NEW k \in Keys, StoreIsFull(k) PROVE WorksOnKey'
  BY <1>9, GiveUpStep DEF Typed, LoopOK, LoopStates, WorksOnKey, StoreIsFull, NextPut,
     Forget, Receiving, NoEdit, linkVars
<1>10. ASSUME NEW k \in Keys, StartPut(k) PROVE WorksOnKey'
  BY <1>10 DEF Typed, LoopOK, LoopStates, WorksOnKey, StartPut, NextPut, Forget,
     linkVars, userVars
<1>11. CASE DeviceDeletes
  BY <1>11 DEF Typed, LoopOK, LoopStates, WorksOnKey, DeviceDeletes, linkVars,
     userVars
<1>12. CASE DeleteAnswered
  BY <1>12 DEF Typed, LoopOK, LoopStates, WorksOnKey, DeleteAnswered, linkVars,
     userVars
<1>13. CASE DeviceStores
  BY <1>13 DEF Typed, LoopOK, LoopStates, WorksOnKey, DeviceStores, Stored, linkVars,
     userVars
<1>14. CASE PutAnswered
  BY <1>14 DEF Typed, LoopOK, LoopStates, WorksOnKey, PutAnswered, linkVars, userVars
<1>15. CASE ListAnswered
  BY <1>15 DEF Typed, LoopOK, LoopStates, WorksOnKey, ListAnswered, Stored, linkVars,
     userVars
<1>16. CASE ListFails
  BY <1>16 DEF Typed, LoopOK, LoopStates, WorksOnKey, ListFails, linkVars, userVars
<1>17. CASE RequestFails
  BY <1>17, GiveUpStep DEF Typed, LoopOK, LoopStates, WorksOnKey, RequestFails,
     Receiving, NoEdit, linkVars
<1>18. CASE Reply
  BY <1>18 DEF Typed, LoopOK, LoopStates, WorksOnKey, Reply, Receiving, linkVars
<1>19. CASE UNCHANGED <<loop>>
  BY <1>19 DEF Typed, LoopOK, LoopStates, WorksOnKey
<1> QED
  BY <1>1, <1>2, <1>3, <1>4, <1>5, <1>6, <1>7, <1>8, <1>9, <1>10, <1>11, <1>12, <1>13,
     <1>14, <1>15, <1>16, <1>17, <1>18, <1>19 DEF Next, Environment, Web, Commands,
     Work, vars, linkVars, userVars, Connect, Signal, Disconnect, DeviceRestarts,
     DeadlinePasses, SetPage, CountEdit, Send, OwnerPuts, DeleteResource,
     DisableSource, EnableSource, StartReload, ApplyPage, ReloadReads, ReloadWrites,
     EndSetPage, EditFails, TakeDisabled, Take, RelayEvent, PublishValue

\* Only what is cached is put.
LEMMA PutsStep ==
  ASSUME Typed, WorksOnKey, PutsAreCached, [Next]_vars
  PROVE  PutsAreCached'
<1>1. CASE AgentRestarts
  BY <1>1, KeyAssumption DEF Typed, LoopOK, LoopStates, CacheOK, WorksOnKey,
     PutsAreCached, Cached, AgentRestarts, NoEntry, Deadlines, Receiving, NoEdit
<1>2. ASSUME NEW k \in Keys, NEW d \in Deadlines, DeadlinePasses(k, d) PROVE PutsAreCached'
  BY <1>2, KeyAssumption DEF Typed, LoopOK, LoopStates, CacheOK, WorksOnKey,
     PutsAreCached, Cached, DeadlinePasses, linkVars, userVars
<1>3. CASE TakePublish
  BY <1>3, KeyAssumption, TakeStep, KeyAssumption DEF Typed, LoopOK, LoopStates,
     CacheOK, WorksOnKey, PutsAreCached, Cached, Sendable, Command, ViewOK,
     TakePublish, Busy, linkVars, userVars
<1>4. CASE TakeDelete
  BY <1>4, KeyAssumption, TakeStep, KeyAssumption DEF Typed, LoopOK, LoopStates,
     CacheOK, WorksOnKey, PutsAreCached, Cached, Sendable, Command, ViewOK,
     TakeDelete, NoEntry, Deadlines, Busy, linkVars, userVars
<1>5. CASE TakeReconcile
  BY <1>5, KeyAssumption, TakeStep, KeyAssumption DEF Typed, LoopOK, LoopStates,
     CacheOK, WorksOnKey, PutsAreCached, Cached, Sendable, Command, ViewOK,
     TakeReconcile, Busy, linkVars, userVars
<1>6. CASE TakePrepare
  BY <1>6, KeyAssumption, TakeStep, KeyAssumption DEF Typed, LoopOK, LoopStates,
     CacheOK, WorksOnKey, PutsAreCached, Cached, Sendable, Command, ViewOK,
     TakePrepare, Busy, linkVars, userVars
<1>7. ASSUME NEW k \in Keys, SkipDelete(k) PROVE PutsAreCached'
  BY <1>7, KeyAssumption DEF Typed, LoopOK, LoopStates, CacheOK, WorksOnKey,
     PutsAreCached, Cached, SkipDelete, linkVars, userVars
<1>8. ASSUME NEW k \in Keys, StartDelete(k) PROVE PutsAreCached'
  BY <1>8, KeyAssumption DEF Typed, LoopOK, LoopStates, CacheOK, WorksOnKey,
     PutsAreCached, Cached, StartDelete, linkVars, userVars
<1>9. ASSUME NEW k \in Keys, SkipPut(k) PROVE PutsAreCached'
  BY <1>9, KeyAssumption DEF Typed, LoopOK, LoopStates, CacheOK, WorksOnKey,
     PutsAreCached, Cached, SkipPut, NextPut, Forget, linkVars, userVars
<1>10. ASSUME NEW k \in Keys, StoreIsFull(k) PROVE PutsAreCached'
  BY <1>10, KeyAssumption, GiveUpStep DEF Typed, LoopOK, LoopStates, CacheOK,
     WorksOnKey, PutsAreCached, Cached, StoreIsFull, NextPut, Forget, Receiving,
     NoEdit, linkVars
<1>11. ASSUME NEW k \in Keys, StartPut(k) PROVE PutsAreCached'
  BY <1>11, KeyAssumption DEF Typed, LoopOK, LoopStates, CacheOK, WorksOnKey,
     PutsAreCached, Cached, StartPut, NextPut, Forget, linkVars, userVars
<1>12. CASE DeviceDeletes
  BY <1>12, KeyAssumption DEF Typed, LoopOK, LoopStates, CacheOK, WorksOnKey,
     PutsAreCached, Cached, DeviceDeletes, linkVars, userVars
<1>13. CASE DeleteAnswered
  BY <1>13, KeyAssumption DEF Typed, LoopOK, LoopStates, CacheOK, WorksOnKey,
     PutsAreCached, Cached, DeleteAnswered, linkVars, userVars
<1>14. CASE DeviceStores
  BY <1>14, KeyAssumption DEF Typed, LoopOK, LoopStates, CacheOK, WorksOnKey,
     PutsAreCached, Cached, DeviceStores, Stored, linkVars, userVars
<1>15. CASE PutAnswered
  BY <1>15, KeyAssumption DEF Typed, LoopOK, LoopStates, CacheOK, WorksOnKey,
     PutsAreCached, Cached, PutAnswered, linkVars, userVars
<1>16. CASE ListAnswered
  BY <1>16, KeyAssumption DEF Typed, LoopOK, LoopStates, CacheOK, WorksOnKey,
     PutsAreCached, Cached, ListAnswered, Stored, linkVars, userVars
<1>17. CASE ListFails
  BY <1>17, KeyAssumption DEF Typed, LoopOK, LoopStates, CacheOK, WorksOnKey,
     PutsAreCached, Cached, ListFails, linkVars, userVars
<1>18. CASE RequestFails
  BY <1>18, KeyAssumption, GiveUpStep DEF Typed, LoopOK, LoopStates, CacheOK,
     WorksOnKey, PutsAreCached, Cached, RequestFails, Receiving, NoEdit, linkVars
<1>19. CASE Reply
  BY <1>19, KeyAssumption DEF Typed, LoopOK, LoopStates, CacheOK, WorksOnKey,
     PutsAreCached, Cached, Reply, Receiving, linkVars
<1>20. CASE UNCHANGED <<cache, loop>>
  BY <1>20 DEF Typed, LoopOK, LoopStates, CacheOK, WorksOnKey, PutsAreCached, Cached
<1> QED
  BY <1>1, <1>2, <1>3, <1>4, <1>5, <1>6, <1>7, <1>8, <1>9, <1>10, <1>11, <1>12, <1>13,
     <1>14, <1>15, <1>16, <1>17, <1>18, <1>19, <1>20 DEF Next, Environment, Web,
     Commands, Work, vars, linkVars, userVars, Connect, Signal, Disconnect,
     DeviceRestarts, SetPage, CountEdit, Send, OwnerPuts, DeleteResource,
     DisableSource, EnableSource, StartReload, ApplyPage, ReloadReads, ReloadWrites,
     EndSetPage, EditFails, TakeDisabled, Take, RelayEvent, PublishValue

\* Deletions come before puts.
LEMMA FirstStep ==
  ASSUME Typed, WorksOnKey, PutsAreCached, DeletesComeFirst, [Next]_vars
  PROVE  DeletesComeFirst'
<1>1. CASE AgentRestarts
  BY <1>1, KeyAssumption DEF Typed, LoopOK, LoopStates, CacheOK, WorksOnKey,
     DeletesComeFirst, Cached, AgentRestarts, NoEntry, Deadlines, Receiving, NoEdit
<1>2. ASSUME NEW k \in Keys, NEW d \in Deadlines, DeadlinePasses(k, d) PROVE DeletesComeFirst'
  BY <1>2, KeyAssumption DEF Typed, LoopOK, LoopStates, CacheOK, WorksOnKey,
     DeletesComeFirst, Cached, DeadlinePasses, linkVars, userVars
<1>3. CASE TakePublish
  BY <1>3, KeyAssumption, TakeStep, KeyAssumption DEF Typed, LoopOK, LoopStates,
     CacheOK, WorksOnKey, DeletesComeFirst, Cached, Sendable, Command, ViewOK,
     TakePublish, Busy, linkVars, userVars
<1>4. CASE TakeDelete
  BY <1>4, KeyAssumption, TakeStep, KeyAssumption DEF Typed, LoopOK, LoopStates,
     CacheOK, WorksOnKey, DeletesComeFirst, Cached, Sendable, Command, ViewOK,
     TakeDelete, NoEntry, Deadlines, Busy, linkVars, userVars
<1>5. CASE TakeReconcile
  BY <1>5, KeyAssumption, TakeStep, KeyAssumption DEF Typed, LoopOK, LoopStates,
     CacheOK, WorksOnKey, DeletesComeFirst, Cached, Sendable, Command, ViewOK,
     TakeReconcile, Busy, linkVars, userVars
<1>6. CASE TakePrepare
  BY <1>6, KeyAssumption, TakeStep, KeyAssumption DEF Typed, LoopOK, LoopStates,
     CacheOK, WorksOnKey, DeletesComeFirst, Cached, Sendable, Command, ViewOK,
     TakePrepare, Busy, linkVars, userVars
<1>7. ASSUME NEW k \in Keys, SkipDelete(k) PROVE DeletesComeFirst'
  BY <1>7, KeyAssumption DEF Typed, LoopOK, LoopStates, CacheOK, WorksOnKey,
     DeletesComeFirst, Cached, SkipDelete, linkVars, userVars
<1>8. ASSUME NEW k \in Keys, StartDelete(k) PROVE DeletesComeFirst'
  BY <1>8, KeyAssumption DEF Typed, LoopOK, LoopStates, CacheOK, WorksOnKey,
     DeletesComeFirst, Cached, StartDelete, linkVars, userVars
<1>9. ASSUME NEW k \in Keys, SkipPut(k) PROVE DeletesComeFirst'
  BY <1>9, KeyAssumption DEF Typed, LoopOK, LoopStates, CacheOK, WorksOnKey,
     DeletesComeFirst, Cached, SkipPut, NextPut, Forget, linkVars, userVars
<1>10. ASSUME NEW k \in Keys, StoreIsFull(k) PROVE DeletesComeFirst'
  BY <1>10, KeyAssumption, GiveUpStep DEF Typed, LoopOK, LoopStates, CacheOK,
     WorksOnKey, DeletesComeFirst, Cached, StoreIsFull, NextPut, Forget, Receiving,
     NoEdit, linkVars
<1>11. ASSUME NEW k \in Keys, StartPut(k) PROVE DeletesComeFirst'
  BY <1>11, KeyAssumption DEF Typed, LoopOK, LoopStates, CacheOK, WorksOnKey,
     DeletesComeFirst, Cached, StartPut, NextPut, Forget, linkVars, userVars
<1>12. CASE DeviceDeletes
  BY <1>12, KeyAssumption DEF Typed, LoopOK, LoopStates, CacheOK, WorksOnKey,
     DeletesComeFirst, Cached, DeviceDeletes, linkVars, userVars
<1>13. CASE DeleteAnswered
  BY <1>13, KeyAssumption DEF Typed, LoopOK, LoopStates, CacheOK, WorksOnKey,
     DeletesComeFirst, Cached, DeleteAnswered, linkVars, userVars
<1>14. CASE DeviceStores
  BY <1>14, KeyAssumption DEF Typed, LoopOK, LoopStates, CacheOK, WorksOnKey,
     DeletesComeFirst, Cached, DeviceStores, Stored, linkVars, userVars
<1>15. CASE PutAnswered
  BY <1>15, KeyAssumption DEF Typed, LoopOK, LoopStates, CacheOK, WorksOnKey,
     DeletesComeFirst, Cached, PutAnswered, linkVars, userVars
<1>16. CASE ListAnswered
  BY <1>16, KeyAssumption DEF Typed, LoopOK, LoopStates, CacheOK, WorksOnKey,
     DeletesComeFirst, Cached, ListAnswered, Stored, linkVars, userVars
<1>17. CASE ListFails
  BY <1>17, KeyAssumption DEF Typed, LoopOK, LoopStates, CacheOK, WorksOnKey,
     DeletesComeFirst, Cached, ListFails, linkVars, userVars
<1>18. CASE RequestFails
  BY <1>18, KeyAssumption, GiveUpStep DEF Typed, LoopOK, LoopStates, CacheOK,
     WorksOnKey, DeletesComeFirst, Cached, RequestFails, Receiving, NoEdit, linkVars
<1>19. CASE Reply
  BY <1>19, KeyAssumption DEF Typed, LoopOK, LoopStates, CacheOK, WorksOnKey,
     DeletesComeFirst, Cached, Reply, Receiving, linkVars
<1>20. CASE UNCHANGED <<cache, loop>>
  BY <1>20 DEF Typed, LoopOK, LoopStates, CacheOK, WorksOnKey, DeletesComeFirst,
     Cached
<1> QED
  BY <1>1, <1>2, <1>3, <1>4, <1>5, <1>6, <1>7, <1>8, <1>9, <1>10, <1>11, <1>12, <1>13,
     <1>14, <1>15, <1>16, <1>17, <1>18, <1>19, <1>20 DEF Next, Environment, Web,
     Commands, Work, vars, linkVars, userVars, Connect, Signal, Disconnect,
     DeviceRestarts, SetPage, CountEdit, Send, OwnerPuts, DeleteResource,
     DisableSource, EnableSource, StartReload, ApplyPage, ReloadReads, ReloadWrites,
     EndSetPage, EditFails, TakeDisabled, Take, RelayEvent, PublishValue

-----------------------------------------------------------------------------
(* Deletions. *)

\* What was deleted is not cached until it is published.
LEMMA NotCachedStep ==
  ASSUME Typed, LoopInv, DeletionInv, [Next]_vars
  PROVE  GoneIsNotCached'
<1>1. CASE AgentRestarts
  BY <1>1, KeyAssumption DEF Typed, LoopOK, LoopStates, CacheOK, DeviceOK, LoopInv,
     WorksOnKey, PutsAreCached, DeletionInv, Cached, GoneIsNotCached, AgentRestarts,
     NoEntry, Deadlines, Receiving, NoEdit
<1>2. ASSUME NEW k \in Keys, NEW d \in Deadlines, DeadlinePasses(k, d) PROVE GoneIsNotCached'
  BY <1>2, KeyAssumption DEF Typed, LoopOK, LoopStates, CacheOK, DeviceOK, LoopInv,
     WorksOnKey, PutsAreCached, DeletionInv, Cached, GoneIsNotCached, DeadlinePasses,
     linkVars, userVars
<1>3. ASSUME NEW k \in Keys, NEW v \in Values, OwnerPuts(k, v) PROVE GoneIsNotCached'
  BY <1>3, KeyAssumption DEF Typed, LoopOK, LoopStates, CacheOK, DeviceOK, LoopInv,
     WorksOnKey, PutsAreCached, DeletionInv, Cached, GoneIsNotCached, OwnerPuts,
     BeginEdit, CountEdit, Stored, NoEdit, linkVars
<1>4. CASE TakePublish
  BY <1>4, KeyAssumption, TakeStep, KeyAssumption DEF Typed, LoopOK, LoopStates,
     CacheOK, DeviceOK, LoopInv, WorksOnKey, PutsAreCached, DeletionInv, Cached,
     GoneIsNotCached, Sendable, Command, ViewOK, TakePublish, Busy, linkVars, userVars
<1>5. CASE TakeDelete
  BY <1>5, KeyAssumption, TakeStep, KeyAssumption DEF Typed, LoopOK, LoopStates,
     CacheOK, DeviceOK, LoopInv, WorksOnKey, PutsAreCached, DeletionInv, Cached,
     GoneIsNotCached, Sendable, Command, ViewOK, TakeDelete, NoEntry, Deadlines, Busy,
     linkVars, userVars
<1>6. ASSUME NEW k \in Keys, SkipPut(k) PROVE GoneIsNotCached'
  BY <1>6, KeyAssumption DEF Typed, LoopOK, LoopStates, CacheOK, DeviceOK, LoopInv,
     WorksOnKey, PutsAreCached, DeletionInv, Cached, GoneIsNotCached, SkipPut,
     NextPut, Forget, linkVars, userVars
<1>7. ASSUME NEW k \in Keys, StoreIsFull(k) PROVE GoneIsNotCached'
  BY <1>7, KeyAssumption, GiveUpStep DEF Typed, LoopOK, LoopStates, CacheOK, DeviceOK,
     LoopInv, WorksOnKey, PutsAreCached, DeletionInv, Cached, GoneIsNotCached,
     StoreIsFull, NextPut, Forget, Receiving, NoEdit, linkVars
<1>8. ASSUME NEW k \in Keys, StartPut(k) PROVE GoneIsNotCached'
  BY <1>8, KeyAssumption DEF Typed, LoopOK, LoopStates, CacheOK, DeviceOK, LoopInv,
     WorksOnKey, PutsAreCached, DeletionInv, Cached, GoneIsNotCached, StartPut,
     NextPut, Forget, linkVars, userVars
<1>9. CASE PutAnswered
  BY <1>9, KeyAssumption DEF Typed, LoopOK, LoopStates, CacheOK, DeviceOK, LoopInv,
     WorksOnKey, PutsAreCached, DeletionInv, Cached, GoneIsNotCached, PutAnswered,
     linkVars, userVars
<1>10. CASE UNCHANGED <<cache, gone>>
  BY <1>10 DEF Typed, LoopOK, LoopStates, CacheOK, DeviceOK, LoopInv, WorksOnKey,
     PutsAreCached, DeletionInv, Cached, GoneIsNotCached
<1> QED
  BY <1>1, <1>2, <1>3, <1>4, <1>5, <1>6, <1>7, <1>8, <1>9, <1>10 DEF Next,
     Environment, Web, Commands, Work, vars, linkVars, userVars, Connect, Signal,
     Disconnect, DeviceRestarts, SetPage, CountEdit, Send, DeleteResource,
     DisableSource, EnableSource, StartReload, ApplyPage, ReloadReads, ReloadWrites,
     EndSetPage, EditFails, TakeDisabled, Take, TakeReconcile, Busy, TakePrepare,
     SkipDelete, StartDelete, DeviceDeletes, DeleteAnswered, DeviceStores,
     ListAnswered, ListFails, RequestFails, GiveUp, Reply, RelayEvent, PublishValue

\* Only an owner stores a key again that has just been deleted.
LEMMA DeletedStep ==
  ASSUME Typed, LoopInv, DeletionInv, [Next]_vars
  PROVE  DeletedIsGone'
<1>1. CASE DeviceRestarts
  BY <1>1 DEF Typed, LoopOK, LoopStates, CacheOK, DeviceOK, LoopInv, WorksOnKey,
     PutsAreCached, DeletionInv, Cached, DeletedIsGone, DeviceRestarts, linkVars,
     userVars
<1>2. CASE AgentRestarts
  BY <1>2 DEF Typed, LoopOK, LoopStates, CacheOK, DeviceOK, LoopInv, WorksOnKey,
     PutsAreCached, DeletionInv, Cached, DeletedIsGone, AgentRestarts, NoEntry,
     Deadlines, Receiving, NoEdit
<1>3. ASSUME NEW k \in Keys, NEW v \in Values, OwnerPuts(k, v) PROVE DeletedIsGone'
  BY <1>3 DEF Typed, LoopOK, LoopStates, CacheOK, DeviceOK, LoopInv, WorksOnKey,
     PutsAreCached, DeletionInv, Cached, DeletedIsGone, OwnerPuts, BeginEdit,
     CountEdit, Stored, NoEdit, linkVars
<1>4. CASE ApplyPage
  BY <1>4 DEF Typed, LoopOK, LoopStates, CacheOK, DeviceOK, LoopInv, WorksOnKey,
     PutsAreCached, DeletionInv, Cached, DeletedIsGone, ApplyPage, linkVars
<1>5. CASE TakePublish
  BY <1>5, TakeStep, KeyAssumption DEF Typed, LoopOK, LoopStates, CacheOK, DeviceOK,
     LoopInv, WorksOnKey, PutsAreCached, DeletionInv, Cached, DeletedIsGone, Sendable,
     Command, ViewOK, TakePublish, Busy, linkVars, userVars
<1>6. CASE TakeDelete
  BY <1>6, TakeStep, KeyAssumption DEF Typed, LoopOK, LoopStates, CacheOK, DeviceOK,
     LoopInv, WorksOnKey, PutsAreCached, DeletionInv, Cached, DeletedIsGone, Sendable,
     Command, ViewOK, TakeDelete, NoEntry, Deadlines, Busy, linkVars, userVars
<1>7. CASE TakeReconcile
  BY <1>7, TakeStep, KeyAssumption DEF Typed, LoopOK, LoopStates, CacheOK, DeviceOK,
     LoopInv, WorksOnKey, PutsAreCached, DeletionInv, Cached, DeletedIsGone, Sendable,
     Command, ViewOK, TakeReconcile, Busy, linkVars, userVars
<1>8. CASE TakePrepare
  BY <1>8, TakeStep, KeyAssumption DEF Typed, LoopOK, LoopStates, CacheOK, DeviceOK,
     LoopInv, WorksOnKey, PutsAreCached, DeletionInv, Cached, DeletedIsGone, Sendable,
     Command, ViewOK, TakePrepare, Busy, linkVars, userVars
<1>9. ASSUME NEW k \in Keys, SkipDelete(k) PROVE DeletedIsGone'
  BY <1>9 DEF Typed, LoopOK, LoopStates, CacheOK, DeviceOK, LoopInv, WorksOnKey,
     PutsAreCached, DeletionInv, Cached, DeletedIsGone, SkipDelete, linkVars, userVars
<1>10. ASSUME NEW k \in Keys, StartDelete(k) PROVE DeletedIsGone'
  BY <1>10 DEF Typed, LoopOK, LoopStates, CacheOK, DeviceOK, LoopInv, WorksOnKey,
     PutsAreCached, DeletionInv, Cached, DeletedIsGone, StartDelete, linkVars,
     userVars
<1>11. ASSUME NEW k \in Keys, SkipPut(k) PROVE DeletedIsGone'
  BY <1>11 DEF Typed, LoopOK, LoopStates, CacheOK, DeviceOK, LoopInv, WorksOnKey,
     PutsAreCached, DeletionInv, Cached, DeletedIsGone, SkipPut, NextPut, Forget,
     linkVars, userVars
<1>12. ASSUME NEW k \in Keys, StoreIsFull(k) PROVE DeletedIsGone'
  BY <1>12, GiveUpStep DEF Typed, LoopOK, LoopStates, CacheOK, DeviceOK, LoopInv,
     WorksOnKey, PutsAreCached, DeletionInv, Cached, DeletedIsGone, StoreIsFull,
     NextPut, Forget, Receiving, NoEdit, linkVars
<1>13. ASSUME NEW k \in Keys, StartPut(k) PROVE DeletedIsGone'
  BY <1>13 DEF Typed, LoopOK, LoopStates, CacheOK, DeviceOK, LoopInv, WorksOnKey,
     PutsAreCached, DeletionInv, Cached, DeletedIsGone, StartPut, NextPut, Forget,
     linkVars, userVars
<1>14. CASE DeviceDeletes
  BY <1>14 DEF Typed, LoopOK, LoopStates, CacheOK, DeviceOK, LoopInv, WorksOnKey,
     PutsAreCached, DeletionInv, Cached, DeletedIsGone, DeviceDeletes, linkVars,
     userVars
<1>15. CASE DeleteAnswered
  BY <1>15 DEF Typed, LoopOK, LoopStates, CacheOK, DeviceOK, LoopInv, WorksOnKey,
     PutsAreCached, DeletionInv, Cached, DeletedIsGone, DeleteAnswered, linkVars,
     userVars
<1>16. CASE DeviceStores
  BY <1>16 DEF Typed, LoopOK, LoopStates, CacheOK, DeviceOK, LoopInv, WorksOnKey,
     PutsAreCached, DeletionInv, Cached, DeletedIsGone, DeviceStores, Stored,
     linkVars, userVars
<1>17. CASE PutAnswered
  BY <1>17 DEF Typed, LoopOK, LoopStates, CacheOK, DeviceOK, LoopInv, WorksOnKey,
     PutsAreCached, DeletionInv, Cached, DeletedIsGone, PutAnswered, linkVars,
     userVars
<1>18. CASE ListAnswered
  BY <1>18 DEF Typed, LoopOK, LoopStates, CacheOK, DeviceOK, LoopInv, WorksOnKey,
     PutsAreCached, DeletionInv, Cached, DeletedIsGone, ListAnswered, Stored,
     linkVars, userVars
<1>19. CASE ListFails
  BY <1>19 DEF Typed, LoopOK, LoopStates, CacheOK, DeviceOK, LoopInv, WorksOnKey,
     PutsAreCached, DeletionInv, Cached, DeletedIsGone, ListFails, linkVars, userVars
<1>20. CASE RequestFails
  BY <1>20, GiveUpStep DEF Typed, LoopOK, LoopStates, CacheOK, DeviceOK, LoopInv,
     WorksOnKey, PutsAreCached, DeletionInv, Cached, DeletedIsGone, RequestFails,
     Receiving, NoEdit, linkVars
<1>21. CASE Reply
  BY <1>21 DEF Typed, LoopOK, LoopStates, CacheOK, DeviceOK, LoopInv, WorksOnKey,
     PutsAreCached, DeletionInv, Cached, DeletedIsGone, Reply, Receiving, linkVars
<1>22. CASE UNCHANGED <<device, loop, gone, foreign>>
  BY <1>22 DEF Typed, LoopOK, LoopStates, CacheOK, DeviceOK, LoopInv, WorksOnKey,
     PutsAreCached, DeletionInv, Cached, DeletedIsGone
<1> QED
  BY <1>1, <1>2, <1>3, <1>4, <1>5, <1>6, <1>7, <1>8, <1>9, <1>10, <1>11, <1>12, <1>13,
     <1>14, <1>15, <1>16, <1>17, <1>18, <1>19, <1>20, <1>21, <1>22 DEF Next,
     Environment, Web, Commands, Work, vars, linkVars, userVars, Connect, Signal,
     Disconnect, DeadlinePasses, SetPage, CountEdit, Send, DeleteResource,
     DisableSource, EnableSource, StartReload, ReloadReads, ReloadWrites, EndSetPage,
     EditFails, TakeDisabled, Take, RelayEvent, PublishValue

\* A deletion stays pending until the device has done it.
LEMMA OwedStep ==
  ASSUME Typed, LoopInv, DeletionInv, [Next]_vars
  PROVE  DeletionIsOwed'
<1>1. CASE DeviceRestarts
  BY <1>1 DEF Typed, LoopOK, LoopStates, CacheOK, DeviceOK, LoopInv, WorksOnKey,
     PutsAreCached, DeletionInv, Cached, GoneIsNotCached, DeletedIsGone,
     DeletionIsOwed, DeviceRestarts, linkVars, userVars
<1>2. CASE AgentRestarts
  BY <1>2 DEF Typed, LoopOK, LoopStates, CacheOK, DeviceOK, LoopInv, WorksOnKey,
     PutsAreCached, DeletionInv, Cached, GoneIsNotCached, DeletedIsGone,
     DeletionIsOwed, AgentRestarts, NoEntry, Deadlines, Receiving, NoEdit
<1>3. ASSUME NEW k \in Keys, NEW v \in Values, OwnerPuts(k, v) PROVE DeletionIsOwed'
  BY <1>3 DEF Typed, LoopOK, LoopStates, CacheOK, DeviceOK, LoopInv, WorksOnKey,
     PutsAreCached, DeletionInv, Cached, GoneIsNotCached, DeletedIsGone,
     DeletionIsOwed, OwnerPuts, BeginEdit, CountEdit, Stored, NoEdit, linkVars
<1>4. CASE ApplyPage
  BY <1>4 DEF Typed, LoopOK, LoopStates, CacheOK, DeviceOK, LoopInv, WorksOnKey,
     PutsAreCached, DeletionInv, Cached, GoneIsNotCached, DeletedIsGone,
     DeletionIsOwed, ApplyPage, linkVars
<1>5. CASE TakePublish
  BY <1>5, TakeStep, KeyAssumption DEF Typed, LoopOK, LoopStates, CacheOK, DeviceOK,
     LoopInv, WorksOnKey, PutsAreCached, DeletionInv, Cached, GoneIsNotCached,
     DeletedIsGone, DeletionIsOwed, Sendable, Command, ViewOK, TakePublish, Busy,
     linkVars, userVars
<1>6. CASE TakeDelete
  BY <1>6, TakeStep, KeyAssumption DEF Typed, LoopOK, LoopStates, CacheOK, DeviceOK,
     LoopInv, WorksOnKey, PutsAreCached, DeletionInv, Cached, GoneIsNotCached,
     DeletedIsGone, DeletionIsOwed, Sendable, Command, ViewOK, TakeDelete, NoEntry,
     Deadlines, Busy, linkVars, userVars
<1>7. CASE TakeReconcile
  BY <1>7, TakeStep, KeyAssumption DEF Typed, LoopOK, LoopStates, CacheOK, DeviceOK,
     LoopInv, WorksOnKey, PutsAreCached, DeletionInv, Cached, GoneIsNotCached,
     DeletedIsGone, DeletionIsOwed, Sendable, Command, ViewOK, TakeReconcile, Busy,
     linkVars, userVars
<1>8. CASE DeviceDeletes
  BY <1>8 DEF Typed, LoopOK, LoopStates, CacheOK, DeviceOK, LoopInv, WorksOnKey,
     PutsAreCached, DeletionInv, Cached, GoneIsNotCached, DeletedIsGone,
     DeletionIsOwed, DeviceDeletes, linkVars, userVars
<1>9. CASE DeleteAnswered
  BY <1>9 DEF Typed, LoopOK, LoopStates, CacheOK, DeviceOK, LoopInv, WorksOnKey,
     PutsAreCached, DeletionInv, Cached, GoneIsNotCached, DeletedIsGone,
     DeletionIsOwed, DeleteAnswered, linkVars, userVars
<1>10. CASE DeviceStores
  BY <1>10 DEF Typed, LoopOK, LoopStates, CacheOK, DeviceOK, LoopInv, WorksOnKey,
     PutsAreCached, DeletionInv, Cached, GoneIsNotCached, DeletedIsGone,
     DeletionIsOwed, DeviceStores, Stored, linkVars, userVars
<1>11. CASE UNCHANGED <<device, pending, gone>>
  BY <1>11 DEF Typed, LoopOK, LoopStates, CacheOK, DeviceOK, LoopInv, WorksOnKey,
     PutsAreCached, DeletionInv, Cached, GoneIsNotCached, DeletedIsGone,
     DeletionIsOwed
<1> QED
  BY <1>1, <1>2, <1>3, <1>4, <1>5, <1>6, <1>7, <1>8, <1>9, <1>10, <1>11 DEF Next,
     Environment, Web, Commands, Work, vars, linkVars, userVars, Connect, Signal,
     Disconnect, DeadlinePasses, SetPage, CountEdit, Send, DeleteResource,
     DisableSource, EnableSource, StartReload, ReloadReads, ReloadWrites, EndSetPage,
     EditFails, TakeDisabled, Take, TakePrepare, Busy, SkipDelete, StartDelete,
     SkipPut, Forget, StoreIsFull, GiveUp, StartPut, PutAnswered, ListAnswered,
     ListFails, RequestFails, Reply, RelayEvent, PublishValue

\* A source that is disabled while its payload is on the way is withdrawn behind it.
LEMMA DisabledStep ==
  ASSUME Typed, LoopInv, DeletionInv, DisabledIsWithdrawn, [Next]_vars
  PROVE  DisabledIsWithdrawn'
<1>1. CASE DeviceRestarts
  BY <1>1 DEF Typed, LoopOK, LoopStates, CacheOK, DeviceOK, LoopInv, WorksOnKey,
     PutsAreCached, DeletionInv, Cached, UserOK, Handlers, DeletedIsGone,
     DisabledIsWithdrawn, Deleting, Delete, DeviceRestarts, linkVars, userVars
<1>2. CASE AgentRestarts
  BY <1>2 DEF Typed, LoopOK, LoopStates, CacheOK, DeviceOK, LoopInv, WorksOnKey,
     PutsAreCached, DeletionInv, Cached, UserOK, Handlers, DeletedIsGone,
     DisabledIsWithdrawn, Deleting, Delete, AgentRestarts, NoEntry, Deadlines,
     Receiving, NoEdit
<1>3. ASSUME NEW k \in Keys, NEW d \in Deadlines, DeadlinePasses(k, d) PROVE DisabledIsWithdrawn'
  BY <1>3 DEF Typed, LoopOK, LoopStates, CacheOK, DeviceOK, LoopInv, WorksOnKey,
     PutsAreCached, DeletionInv, Cached, UserOK, Handlers, DeletedIsGone,
     DisabledIsWithdrawn, Deleting, Delete, DeadlinePasses, linkVars, userVars
<1>4. ASSUME NEW page \in SUBSET Keys, SetPage(page) PROVE DisabledIsWithdrawn'
  BY <1>4, SendStep, CommandsAreSendable DEF Typed, LoopOK, LoopStates, CacheOK,
     DeviceOK, LoopInv, WorksOnKey, PutsAreCached, DeletionInv, Cached, UserOK,
     Handlers, DeletedIsGone, DisabledIsWithdrawn, Deleting, Delete, SetPage,
     BeginEdit, CountEdit, Prepare, NoEdit, linkVars
<1>5. ASSUME NEW k \in Keys, NEW v \in Values, OwnerPuts(k, v) PROVE DisabledIsWithdrawn'
  BY <1>5 DEF Typed, LoopOK, LoopStates, CacheOK, DeviceOK, LoopInv, WorksOnKey,
     PutsAreCached, DeletionInv, Cached, UserOK, Handlers, DeletedIsGone,
     DisabledIsWithdrawn, Deleting, Delete, OwnerPuts, BeginEdit, CountEdit, Stored,
     NoEdit, linkVars
<1>6. ASSUME NEW k \in Keys, DeleteResource(k) PROVE DisabledIsWithdrawn'
  BY <1>6, SendStep, CommandsAreSendable DEF Typed, LoopOK, LoopStates, CacheOK,
     DeviceOK, LoopInv, WorksOnKey, PutsAreCached, DeletionInv, Cached, UserOK,
     Handlers, DeletedIsGone, DisabledIsWithdrawn, Deleting, Delete, DeleteResource,
     CountEdit, linkVars
<1>7. ASSUME NEW k \in Keys, DisableSource(k) PROVE DisabledIsWithdrawn'
  BY <1>7, SendStep, CommandsAreSendable DEF Typed, UserOK, DisabledIsWithdrawn, Deleting, DisableSource, CountEdit, Cached
<1>8. ASSUME NEW k \in Keys, EnableSource(k) PROVE DisabledIsWithdrawn'
  BY <1>8 DEF Typed, LoopOK, LoopStates, CacheOK, DeviceOK, LoopInv, WorksOnKey,
     PutsAreCached, DeletionInv, Cached, UserOK, Handlers, DeletedIsGone,
     DisabledIsWithdrawn, Deleting, Delete, EnableSource, linkVars
<1>9. CASE StartReload
  BY <1>9 DEF Typed, LoopOK, LoopStates, CacheOK, DeviceOK, LoopInv, WorksOnKey,
     PutsAreCached, DeletionInv, Cached, UserOK, Handlers, DeletedIsGone,
     DisabledIsWithdrawn, Deleting, Delete, StartReload, BeginEdit, CountEdit, NoEdit,
     linkVars
<1>10. CASE ApplyPage
  BY <1>10 DEF Typed, LoopOK, LoopStates, CacheOK, DeviceOK, LoopInv, WorksOnKey,
     PutsAreCached, DeletionInv, Cached, UserOK, Handlers, DeletedIsGone,
     DisabledIsWithdrawn, Deleting, Delete, ApplyPage, linkVars
<1>11. CASE EndSetPage
  BY <1>11, SendStep, CommandsAreSendable DEF Typed, LoopOK, LoopStates, CacheOK,
     DeviceOK, LoopInv, WorksOnKey, PutsAreCached, DeletionInv, Cached, UserOK,
     Handlers, DeletedIsGone, DisabledIsWithdrawn, Deleting, Delete, EndSetPage,
     Reconcile, NoEdit, linkVars
<1>12. CASE TakeDisabled
  BY <1>12, TakeStep, KeyAssumption DEF Typed, LoopOK, LoopStates, CacheOK, DeviceOK,
     LoopInv, WorksOnKey, PutsAreCached, DeletionInv, Cached, UserOK, Handlers,
     DeletedIsGone, DisabledIsWithdrawn, Deleting, Delete, Sendable, Command, ViewOK,
     TakeDisabled, linkVars, userVars
<1>13. CASE TakePublish
  BY <1>13, TakeStep, KeyAssumption DEF Typed, LoopOK, LoopStates, CacheOK, DeviceOK,
     LoopInv, WorksOnKey, PutsAreCached, DeletionInv, Cached, UserOK, Handlers,
     DeletedIsGone, DisabledIsWithdrawn, Deleting, Delete, Sendable, Command, ViewOK,
     TakePublish, Busy, linkVars, userVars
<1>14. CASE TakeDelete
  BY <1>14, TakeStep, KeyAssumption DEF Typed, LoopOK, LoopStates, CacheOK, DeviceOK,
     LoopInv, WorksOnKey, PutsAreCached, DeletionInv, Cached, UserOK, Handlers,
     DeletedIsGone, DisabledIsWithdrawn, Deleting, Delete, Sendable, Command, ViewOK,
     TakeDelete, NoEntry, Deadlines, Busy, linkVars, userVars
<1>15. CASE TakeReconcile
  BY <1>15, TakeStep, KeyAssumption DEF Typed, LoopOK, LoopStates, CacheOK, DeviceOK,
     LoopInv, WorksOnKey, PutsAreCached, DeletionInv, Cached, UserOK, Handlers,
     DeletedIsGone, DisabledIsWithdrawn, Deleting, Delete, Sendable, Command, ViewOK,
     TakeReconcile, Busy, linkVars, userVars
<1>16. CASE TakePrepare
  BY <1>16, TakeStep, KeyAssumption DEF Typed, LoopOK, LoopStates, CacheOK, DeviceOK,
     LoopInv, WorksOnKey, PutsAreCached, DeletionInv, Cached, UserOK, Handlers,
     DeletedIsGone, DisabledIsWithdrawn, Deleting, Delete, Sendable, Command, ViewOK,
     TakePrepare, Busy, linkVars, userVars
<1>17. ASSUME NEW k \in Keys, SkipPut(k) PROVE DisabledIsWithdrawn'
  BY <1>17 DEF Typed, LoopOK, LoopStates, CacheOK, DeviceOK, LoopInv, WorksOnKey,
     PutsAreCached, DeletionInv, Cached, UserOK, Handlers, DeletedIsGone,
     DisabledIsWithdrawn, Deleting, Delete, SkipPut, NextPut, Forget, linkVars,
     userVars
<1>18. ASSUME NEW k \in Keys, StoreIsFull(k) PROVE DisabledIsWithdrawn'
  BY <1>18, GiveUpStep DEF Typed, LoopOK, LoopStates, CacheOK, DeviceOK, LoopInv,
     WorksOnKey, PutsAreCached, DeletionInv, Cached, UserOK, Handlers, DeletedIsGone,
     DisabledIsWithdrawn, Deleting, Delete, StoreIsFull, NextPut, Forget, Receiving,
     NoEdit, linkVars
<1>19. ASSUME NEW k \in Keys, StartPut(k) PROVE DisabledIsWithdrawn'
  BY <1>19 DEF Typed, LoopOK, LoopStates, CacheOK, DeviceOK, LoopInv, WorksOnKey,
     PutsAreCached, DeletionInv, Cached, UserOK, Handlers, DeletedIsGone,
     DisabledIsWithdrawn, Deleting, Delete, StartPut, NextPut, Forget, linkVars,
     userVars
<1>20. CASE DeviceDeletes
  BY <1>20 DEF Typed, LoopOK, LoopStates, CacheOK, DeviceOK, LoopInv, WorksOnKey,
     PutsAreCached, DeletionInv, Cached, UserOK, Handlers, DeletedIsGone,
     DisabledIsWithdrawn, Deleting, Delete, DeviceDeletes, linkVars, userVars
<1>21. CASE DeleteAnswered
  BY <1>21 DEF Typed, LoopOK, LoopStates, CacheOK, DeviceOK, LoopInv, WorksOnKey,
     PutsAreCached, DeletionInv, Cached, UserOK, Handlers, DeletedIsGone,
     DisabledIsWithdrawn, Deleting, Delete, DeleteAnswered, linkVars, userVars
<1>22. CASE DeviceStores
  BY <1>22 DEF Typed, LoopOK, LoopStates, CacheOK, DeviceOK, LoopInv, WorksOnKey,
     PutsAreCached, DeletionInv, Cached, UserOK, Handlers, DeletedIsGone,
     DisabledIsWithdrawn, Deleting, Delete, DeviceStores, Stored, linkVars, userVars
<1>23. CASE PutAnswered
  BY <1>23 DEF Typed, LoopOK, LoopStates, CacheOK, DeviceOK, LoopInv, WorksOnKey,
     PutsAreCached, DeletionInv, Cached, UserOK, Handlers, DeletedIsGone,
     DisabledIsWithdrawn, Deleting, Delete, PutAnswered, linkVars, userVars
<1>24. CASE RelayEvent
  BY <1>24, RelayStep DEF Typed, LoopOK, LoopStates, CacheOK, DeviceOK, LoopInv,
     WorksOnKey, PutsAreCached, DeletionInv, Cached, UserOK, Handlers, DeletedIsGone,
     DisabledIsWithdrawn, Deleting, Delete, RelayEvent, Reconcile, userVars
<1>25. ASSUME NEW k \in Keys, NEW v \in Values, PublishValue(k, v) PROVE DisabledIsWithdrawn'
  BY <1>25, SendStep, CommandsAreSendable DEF Typed, LoopOK, LoopStates, CacheOK,
     DeviceOK, LoopInv, WorksOnKey, PutsAreCached, DeletionInv, Cached, UserOK,
     Handlers, DeletedIsGone, DisabledIsWithdrawn, Deleting, Delete, PublishValue,
     Publish, linkVars, userVars
<1>26. CASE UNCHANGED <<device, enabled, queue, cache, pending, edits, foreign>>
  BY <1>26 DEF Typed, LoopOK, LoopStates, CacheOK, DeviceOK, LoopInv, WorksOnKey,
     PutsAreCached, DeletionInv, Cached, UserOK, Handlers, DeletedIsGone,
     DisabledIsWithdrawn, Deleting, Delete
<1> QED
  BY <1>1, <1>2, <1>3, <1>4, <1>5, <1>6, <1>7, <1>8, <1>9, <1>10, <1>11, <1>12, <1>13,
     <1>14, <1>15, <1>16, <1>17, <1>18, <1>19, <1>20, <1>21, <1>22, <1>23, <1>24,
     <1>25, <1>26 DEF Next, Environment, Web, Commands, Work, vars, linkVars,
     userVars, Connect, Signal, Disconnect, ReloadReads, ReloadWrites, EditFails,
     SkipDelete, StartDelete, ListAnswered, ListFails, RequestFails, GiveUp, Reply

-----------------------------------------------------------------------------
(* What was sent. *)

\* The device holds what it has just stored.
LEMMA StoredStep ==
  ASSUME Typed, LoopInv, SentInv, [Next]_vars
  PROVE  StoredIsCached'
<1>1. CASE Connect
  BY <1>1 DEF Typed, LoopOK, LoopStates, CacheOK, DeviceOK, SentInv, StoredIsCached,
     LoopInv, WorksOnKey, Connect, Stored, userVars
<1>2. CASE Disconnect
  BY <1>2 DEF Typed, LoopOK, LoopStates, CacheOK, DeviceOK, SentInv, StoredIsCached,
     LoopInv, WorksOnKey, Disconnect, userVars
<1>3. CASE DeviceRestarts
  BY <1>3 DEF Typed, LoopOK, LoopStates, CacheOK, DeviceOK, SentInv, StoredIsCached,
     LoopInv, WorksOnKey, DeviceRestarts, linkVars, userVars
<1>4. CASE AgentRestarts
  BY <1>4 DEF Typed, LoopOK, LoopStates, CacheOK, DeviceOK, SentInv, StoredIsCached,
     LoopInv, WorksOnKey, AgentRestarts, NoEntry, Deadlines, Receiving, NoEdit
<1>5. ASSUME NEW k \in Keys, NEW d \in Deadlines, DeadlinePasses(k, d) PROVE StoredIsCached'
  BY <1>5 DEF Typed, LoopOK, LoopStates, CacheOK, DeviceOK, SentInv, StoredIsCached,
     LoopInv, WorksOnKey, DeadlinePasses, Cached, linkVars, userVars
<1>6. ASSUME NEW k \in Keys, NEW v \in Values, OwnerPuts(k, v) PROVE StoredIsCached'
  BY <1>6 DEF Typed, LoopOK, LoopStates, CacheOK, DeviceOK, SentInv, StoredIsCached,
     LoopInv, WorksOnKey, OwnerPuts, BeginEdit, CountEdit, Stored, NoEdit, linkVars
<1>7. CASE ApplyPage
  BY <1>7 DEF Typed, LoopOK, LoopStates, CacheOK, DeviceOK, SentInv, StoredIsCached,
     LoopInv, WorksOnKey, ApplyPage, linkVars
<1>8. CASE TakePublish
  BY <1>8, TakeStep, KeyAssumption DEF Typed, LoopOK, LoopStates, CacheOK, DeviceOK,
     SentInv, StoredIsCached, LoopInv, WorksOnKey, Sendable, Command, ViewOK,
     TakePublish, Busy, linkVars, userVars
<1>9. CASE TakeDelete
  BY <1>9, TakeStep, KeyAssumption DEF Typed, LoopOK, LoopStates, CacheOK, DeviceOK,
     SentInv, StoredIsCached, LoopInv, WorksOnKey, Sendable, Command, ViewOK,
     TakeDelete, NoEntry, Deadlines, Busy, linkVars, userVars
<1>10. CASE TakeReconcile
  BY <1>10, TakeStep, KeyAssumption DEF Typed, LoopOK, LoopStates, CacheOK, DeviceOK,
     SentInv, StoredIsCached, LoopInv, WorksOnKey, Sendable, Command, ViewOK,
     TakeReconcile, Busy, Cached, linkVars, userVars
<1>11. CASE TakePrepare
  BY <1>11, TakeStep, KeyAssumption DEF Typed, LoopOK, LoopStates, CacheOK, DeviceOK,
     SentInv, StoredIsCached, LoopInv, WorksOnKey, Sendable, Command, ViewOK,
     TakePrepare, Busy, Cached, linkVars, userVars
<1>12. ASSUME NEW k \in Keys, SkipDelete(k) PROVE StoredIsCached'
  BY <1>12 DEF Typed, LoopOK, LoopStates, CacheOK, DeviceOK, SentInv, StoredIsCached,
     LoopInv, WorksOnKey, SkipDelete, linkVars, userVars
<1>13. ASSUME NEW k \in Keys, StartDelete(k) PROVE StoredIsCached'
  BY <1>13 DEF Typed, LoopOK, LoopStates, CacheOK, DeviceOK, SentInv, StoredIsCached,
     LoopInv, WorksOnKey, StartDelete, linkVars, userVars
<1>14. ASSUME NEW k \in Keys, SkipPut(k) PROVE StoredIsCached'
  BY <1>14 DEF Typed, LoopOK, LoopStates, CacheOK, DeviceOK, SentInv, StoredIsCached,
     LoopInv, WorksOnKey, SkipPut, NextPut, Forget, linkVars, userVars
<1>15. ASSUME NEW k \in Keys, StoreIsFull(k) PROVE StoredIsCached'
  BY <1>15, GiveUpStep DEF Typed, LoopOK, LoopStates, CacheOK, DeviceOK, SentInv,
     StoredIsCached, LoopInv, WorksOnKey, StoreIsFull, NextPut, Forget, Receiving,
     NoEdit, linkVars
<1>16. ASSUME NEW k \in Keys, StartPut(k) PROVE StoredIsCached'
  BY <1>16 DEF Typed, LoopOK, LoopStates, CacheOK, DeviceOK, SentInv, StoredIsCached,
     LoopInv, WorksOnKey, StartPut, NextPut, Forget, linkVars, userVars
<1>17. CASE DeviceDeletes
  BY <1>17 DEF Typed, LoopOK, LoopStates, CacheOK, DeviceOK, SentInv, StoredIsCached,
     LoopInv, WorksOnKey, DeviceDeletes, linkVars, userVars
<1>18. CASE DeleteAnswered
  BY <1>18 DEF Typed, LoopOK, LoopStates, CacheOK, DeviceOK, SentInv, StoredIsCached,
     LoopInv, WorksOnKey, DeleteAnswered, linkVars, userVars
<1>19. CASE DeviceStores
  BY <1>19 DEF Typed, LoopOK, LoopStates, CacheOK, DeviceOK, SentInv, StoredIsCached,
     LoopInv, WorksOnKey, DeviceStores, Stored, linkVars, userVars
<1>20. CASE PutAnswered
  BY <1>20 DEF Typed, LoopOK, LoopStates, CacheOK, DeviceOK, SentInv, StoredIsCached,
     LoopInv, WorksOnKey, PutAnswered, linkVars, userVars
<1>21. CASE ListAnswered
  BY <1>21 DEF Typed, LoopOK, LoopStates, CacheOK, DeviceOK, SentInv, StoredIsCached,
     LoopInv, WorksOnKey, ListAnswered, Stored, linkVars, userVars
<1>22. CASE ListFails
  BY <1>22 DEF Typed, LoopOK, LoopStates, CacheOK, DeviceOK, SentInv, StoredIsCached,
     LoopInv, WorksOnKey, ListFails, linkVars, userVars
<1>23. CASE RequestFails
  BY <1>23, GiveUpStep DEF Typed, LoopOK, LoopStates, CacheOK, DeviceOK, SentInv,
     StoredIsCached, LoopInv, WorksOnKey, RequestFails, Receiving, NoEdit, linkVars
<1>24. CASE Reply
  BY <1>24 DEF Typed, LoopOK, LoopStates, CacheOK, DeviceOK, SentInv, StoredIsCached,
     LoopInv, WorksOnKey, Reply, Receiving, linkVars
<1>25. CASE UNCHANGED <<device, link, cache, loop, foreign>>
  BY <1>25 DEF Typed, LoopOK, LoopStates, CacheOK, DeviceOK, SentInv, StoredIsCached,
     LoopInv, WorksOnKey
<1> QED
  BY <1>1, <1>2, <1>3, <1>4, <1>5, <1>6, <1>7, <1>8, <1>9, <1>10, <1>11, <1>12, <1>13,
     <1>14, <1>15, <1>16, <1>17, <1>18, <1>19, <1>20, <1>21, <1>22, <1>23, <1>24,
     <1>25 DEF Next, Environment, Web, Commands, Work, vars, linkVars, userVars,
     SetPage, CountEdit, Send, DeleteResource, DisableSource, EnableSource,
     StartReload, ReloadReads, ReloadWrites, EndSetPage, EditFails, TakeDisabled,
     Take, RelayEvent, PublishValue

\* A Reconcile forgets before it writes.
LEMMA ForgottenStep ==
  ASSUME Typed, LoopInv, SentInv, [Next]_vars
  PROVE  ForgottenFirst'
<1>1. CASE AgentRestarts
  BY <1>1 DEF Typed, LoopOK, LoopStates, CacheOK, SentInv, ForgottenFirst, LoopInv,
     WorksOnKey, AgentRestarts, NoEntry, Deadlines, Receiving, NoEdit
<1>2. ASSUME NEW k \in Keys, NEW d \in Deadlines, DeadlinePasses(k, d) PROVE ForgottenFirst'
  BY <1>2 DEF Typed, LoopOK, LoopStates, CacheOK, SentInv, ForgottenFirst, LoopInv,
     WorksOnKey, DeadlinePasses, Cached, linkVars, userVars
<1>3. CASE TakePublish
  BY <1>3, TakeStep, KeyAssumption DEF Typed, LoopOK, LoopStates, CacheOK, SentInv,
     ForgottenFirst, LoopInv, WorksOnKey, Sendable, Command, ViewOK, TakePublish,
     Busy, linkVars, userVars
<1>4. CASE TakeDelete
  BY <1>4, TakeStep, KeyAssumption DEF Typed, LoopOK, LoopStates, CacheOK, SentInv,
     ForgottenFirst, LoopInv, WorksOnKey, Sendable, Command, ViewOK, TakeDelete,
     NoEntry, Deadlines, Busy, linkVars, userVars
<1>5. CASE TakeReconcile
  BY <1>5, TakeStep, KeyAssumption DEF Typed, LoopOK, LoopStates, CacheOK, SentInv,
     ForgottenFirst, LoopInv, WorksOnKey, Sendable, Command, ViewOK, TakeReconcile,
     Busy, Cached, linkVars, userVars
<1>6. CASE TakePrepare
  BY <1>6, TakeStep, KeyAssumption DEF Typed, LoopOK, LoopStates, CacheOK, SentInv,
     ForgottenFirst, LoopInv, WorksOnKey, Sendable, Command, ViewOK, TakePrepare,
     Busy, Cached, linkVars, userVars
<1>7. ASSUME NEW k \in Keys, SkipDelete(k) PROVE ForgottenFirst'
  BY <1>7 DEF Typed, LoopOK, LoopStates, CacheOK, SentInv, ForgottenFirst, LoopInv,
     WorksOnKey, SkipDelete, linkVars, userVars
<1>8. ASSUME NEW k \in Keys, StartDelete(k) PROVE ForgottenFirst'
  BY <1>8 DEF Typed, LoopOK, LoopStates, CacheOK, SentInv, ForgottenFirst, LoopInv,
     WorksOnKey, StartDelete, linkVars, userVars
<1>9. ASSUME NEW k \in Keys, SkipPut(k) PROVE ForgottenFirst'
  BY <1>9 DEF Typed, LoopOK, LoopStates, CacheOK, SentInv, ForgottenFirst, LoopInv,
     WorksOnKey, SkipPut, NextPut, Forget, linkVars, userVars
<1>10. ASSUME NEW k \in Keys, StoreIsFull(k) PROVE ForgottenFirst'
  BY <1>10, GiveUpStep DEF Typed, LoopOK, LoopStates, CacheOK, SentInv,
     ForgottenFirst, LoopInv, WorksOnKey, StoreIsFull, NextPut, Forget, Receiving,
     NoEdit, linkVars
<1>11. ASSUME NEW k \in Keys, StartPut(k) PROVE ForgottenFirst'
  BY <1>11 DEF Typed, LoopOK, LoopStates, CacheOK, SentInv, ForgottenFirst, LoopInv,
     WorksOnKey, StartPut, NextPut, Forget, linkVars, userVars
<1>12. CASE DeviceDeletes
  BY <1>12 DEF Typed, LoopOK, LoopStates, CacheOK, SentInv, ForgottenFirst, LoopInv,
     WorksOnKey, DeviceDeletes, linkVars, userVars
<1>13. CASE DeleteAnswered
  BY <1>13 DEF Typed, LoopOK, LoopStates, CacheOK, SentInv, ForgottenFirst, LoopInv,
     WorksOnKey, DeleteAnswered, linkVars, userVars
<1>14. CASE DeviceStores
  BY <1>14 DEF Typed, LoopOK, LoopStates, CacheOK, SentInv, ForgottenFirst, LoopInv,
     WorksOnKey, DeviceStores, Stored, linkVars, userVars
<1>15. CASE PutAnswered
  BY <1>15 DEF Typed, LoopOK, LoopStates, CacheOK, SentInv, ForgottenFirst, LoopInv,
     WorksOnKey, PutAnswered, linkVars, userVars
<1>16. CASE ListAnswered
  BY <1>16 DEF Typed, LoopOK, LoopStates, CacheOK, SentInv, ForgottenFirst, LoopInv,
     WorksOnKey, ListAnswered, Stored, linkVars, userVars
<1>17. CASE ListFails
  BY <1>17 DEF Typed, LoopOK, LoopStates, CacheOK, SentInv, ForgottenFirst, LoopInv,
     WorksOnKey, ListFails, linkVars, userVars
<1>18. CASE RequestFails
  BY <1>18, GiveUpStep DEF Typed, LoopOK, LoopStates, CacheOK, SentInv,
     ForgottenFirst, LoopInv, WorksOnKey, RequestFails, Receiving, NoEdit, linkVars
<1>19. CASE Reply
  BY <1>19 DEF Typed, LoopOK, LoopStates, CacheOK, SentInv, ForgottenFirst, LoopInv,
     WorksOnKey, Reply, Receiving, linkVars
<1>20. CASE UNCHANGED <<cache, loop>>
  BY <1>20 DEF Typed, LoopOK, LoopStates, CacheOK, SentInv, ForgottenFirst, LoopInv,
     WorksOnKey
<1> QED
  BY <1>1, <1>2, <1>3, <1>4, <1>5, <1>6, <1>7, <1>8, <1>9, <1>10, <1>11, <1>12, <1>13,
     <1>14, <1>15, <1>16, <1>17, <1>18, <1>19, <1>20 DEF Next, Environment, Web,
     Commands, Work, vars, linkVars, userVars, Connect, Signal, Disconnect,
     DeviceRestarts, SetPage, CountEdit, Send, OwnerPuts, DeleteResource,
     DisableSource, EnableSource, StartReload, ApplyPage, ReloadReads, ReloadWrites,
     EndSetPage, EditFails, TakeDisabled, Take, RelayEvent, PublishValue

\* What was sent stays stored, unless a Reconcile is due.
LEMMA SentStep ==
  ASSUME Typed, LoopInv, SentInv, [Next]_vars
  PROVE  SentIsStored'
<1>1. CASE Connect
  BY <1>1, SignalStep DEF Typed, LoopOK, LoopStates, CacheOK, DeviceOK, LoopInv,
     WorksOnKey, PutsAreCached, DeletesComeFirst, SentInv, SentIsStored,
     StoredIsCached, ForgottenFirst, Reconciled, MoreDue, ToReconcile, Unanswered,
     Cached, Events, Connect, Stored, userVars
<1>2. CASE Disconnect
  BY <1>2, SignalStep DEF Typed, LoopOK, LoopStates, CacheOK, DeviceOK, LoopInv,
     WorksOnKey, PutsAreCached, DeletesComeFirst, SentInv, SentIsStored,
     StoredIsCached, ForgottenFirst, Reconciled, MoreDue, ToReconcile, Unanswered,
     Cached, Events, Disconnect, userVars
<1>3. CASE DeviceRestarts
  BY <1>3 DEF Typed, LoopOK, LoopStates, CacheOK, DeviceOK, LoopInv, WorksOnKey,
     PutsAreCached, DeletesComeFirst, SentInv, SentIsStored, StoredIsCached,
     ForgottenFirst, Reconciled, MoreDue, ToReconcile, Unanswered, Cached,
     DeviceRestarts, linkVars, userVars
<1>4. CASE AgentRestarts
  BY <1>4 DEF Typed, LoopOK, LoopStates, CacheOK, DeviceOK, LoopInv, WorksOnKey,
     PutsAreCached, DeletesComeFirst, SentInv, SentIsStored, StoredIsCached,
     ForgottenFirst, Reconciled, MoreDue, ToReconcile, Unanswered, Cached,
     AgentRestarts, NoEntry, Deadlines, Receiving, NoEdit
<1>5. ASSUME NEW k \in Keys, NEW d \in Deadlines, DeadlinePasses(k, d) PROVE SentIsStored'
  BY <1>5 DEF Typed, LoopOK, LoopStates, CacheOK, DeviceOK, LoopInv, WorksOnKey,
     PutsAreCached, DeletesComeFirst, SentInv, SentIsStored, StoredIsCached,
     ForgottenFirst, Reconciled, MoreDue, ToReconcile, Unanswered, Cached,
     DeadlinePasses, linkVars, userVars
<1>6. ASSUME NEW page \in SUBSET Keys, SetPage(page) PROVE SentIsStored'
  BY <1>6, SendStep, CommandsAreSendable DEF Typed, LoopOK, LoopStates, CacheOK,
     DeviceOK, LoopInv, WorksOnKey, PutsAreCached, DeletesComeFirst, SentInv,
     SentIsStored, StoredIsCached, ForgottenFirst, Reconciled, MoreDue, ToReconcile,
     Unanswered, Cached, SetPage, BeginEdit, CountEdit, Prepare, NoEdit, linkVars
<1>7. ASSUME NEW k \in Keys, NEW v \in Values, OwnerPuts(k, v) PROVE SentIsStored'
  BY <1>7 DEF Typed, LoopOK, LoopStates, CacheOK, DeviceOK, LoopInv, WorksOnKey,
     PutsAreCached, DeletesComeFirst, SentInv, SentIsStored, StoredIsCached,
     ForgottenFirst, Reconciled, MoreDue, ToReconcile, Unanswered, Cached, OwnerPuts,
     BeginEdit, CountEdit, Stored, NoEdit, linkVars
<1>8. ASSUME NEW k \in Keys, DeleteResource(k) PROVE SentIsStored'
  BY <1>8, SendStep, CommandsAreSendable DEF Typed, LoopOK, LoopStates, CacheOK,
     DeviceOK, LoopInv, WorksOnKey, PutsAreCached, DeletesComeFirst, SentInv,
     SentIsStored, StoredIsCached, ForgottenFirst, Reconciled, MoreDue, ToReconcile,
     Unanswered, Cached, DeleteResource, CountEdit, Delete, linkVars
<1>9. ASSUME NEW k \in Keys, DisableSource(k) PROVE SentIsStored'
  BY <1>9, SendStep, CommandsAreSendable DEF Typed, LoopOK, LoopStates, CacheOK,
     DeviceOK, LoopInv, WorksOnKey, PutsAreCached, DeletesComeFirst, SentInv,
     SentIsStored, StoredIsCached, ForgottenFirst, Reconciled, MoreDue, ToReconcile,
     Unanswered, Cached, DisableSource, CountEdit, Delete, linkVars
<1>10. CASE ApplyPage
  BY <1>10 DEF Typed, LoopOK, LoopStates, CacheOK, DeviceOK, LoopInv, WorksOnKey,
     PutsAreCached, DeletesComeFirst, SentInv, SentIsStored, StoredIsCached,
     ForgottenFirst, Reconciled, MoreDue, ToReconcile, Unanswered, Cached, ApplyPage,
     linkVars
<1>11. CASE EndSetPage
  BY <1>11, SendStep, CommandsAreSendable DEF Typed, LoopOK, LoopStates, CacheOK,
     DeviceOK, LoopInv, WorksOnKey, PutsAreCached, DeletesComeFirst, SentInv,
     SentIsStored, StoredIsCached, ForgottenFirst, Reconciled, MoreDue, ToReconcile,
     Unanswered, Cached, EndSetPage, Reconcile, NoEdit, linkVars
<1>12. CASE TakeDisabled
  BY <1>12, TakeStep, KeyAssumption DEF Typed, LoopOK, LoopStates, CacheOK, DeviceOK,
     LoopInv, WorksOnKey, PutsAreCached, DeletesComeFirst, SentInv, SentIsStored,
     StoredIsCached, ForgottenFirst, Reconciled, MoreDue, ToReconcile, Unanswered,
     Cached, Sendable, Command, ViewOK, Reconcile, TakeDisabled, linkVars, userVars
<1>13. CASE TakePublish
  BY <1>13, TakeStep, KeyAssumption DEF Typed, LoopOK, LoopStates, CacheOK, DeviceOK,
     LoopInv, WorksOnKey, PutsAreCached, DeletesComeFirst, SentInv, SentIsStored,
     StoredIsCached, ForgottenFirst, Reconciled, MoreDue, ToReconcile, Unanswered,
     Cached, Sendable, Command, ViewOK, Reconcile, TakePublish, Busy, linkVars,
     userVars
<1>14. CASE TakeDelete
  BY <1>14, TakeStep, KeyAssumption DEF Typed, LoopOK, LoopStates, CacheOK, DeviceOK,
     LoopInv, WorksOnKey, PutsAreCached, DeletesComeFirst, SentInv, SentIsStored,
     StoredIsCached, ForgottenFirst, Reconciled, MoreDue, ToReconcile, Unanswered,
     Cached, Sendable, Command, ViewOK, Reconcile, TakeDelete, NoEntry, Deadlines,
     Busy, linkVars, userVars
<1>15. CASE TakeReconcile
  BY <1>15, TakeStep, KeyAssumption DEF Typed, LoopOK, LoopStates, CacheOK, DeviceOK,
     LoopInv, WorksOnKey, PutsAreCached, DeletesComeFirst, SentInv, SentIsStored,
     StoredIsCached, ForgottenFirst, Reconciled, MoreDue, ToReconcile, Unanswered,
     Cached, Sendable, Command, ViewOK, Reconcile, TakeReconcile, Busy, linkVars,
     userVars
<1>16. CASE TakePrepare
  BY <1>16, TakeStep, KeyAssumption DEF Typed, LoopOK, LoopStates, CacheOK, DeviceOK,
     LoopInv, WorksOnKey, PutsAreCached, DeletesComeFirst, SentInv, SentIsStored,
     StoredIsCached, ForgottenFirst, Reconciled, MoreDue, ToReconcile, Unanswered,
     Cached, Sendable, Command, ViewOK, Reconcile, TakePrepare, Busy, linkVars,
     userVars
<1>17. ASSUME NEW k \in Keys, SkipDelete(k) PROVE SentIsStored'
  BY <1>17 DEF Typed, LoopOK, LoopStates, CacheOK, DeviceOK, LoopInv, WorksOnKey,
     PutsAreCached, DeletesComeFirst, SentInv, SentIsStored, StoredIsCached,
     ForgottenFirst, Reconciled, MoreDue, ToReconcile, Unanswered, Cached, SkipDelete,
     linkVars, userVars
<1>18. ASSUME NEW k \in Keys, StartDelete(k) PROVE SentIsStored'
  BY <1>18 DEF Typed, LoopOK, LoopStates, CacheOK, DeviceOK, LoopInv, WorksOnKey,
     PutsAreCached, DeletesComeFirst, SentInv, SentIsStored, StoredIsCached,
     ForgottenFirst, Reconciled, MoreDue, ToReconcile, Unanswered, Cached,
     StartDelete, linkVars, userVars
<1>19. ASSUME NEW k \in Keys, SkipPut(k) PROVE SentIsStored'
  BY <1>19 DEF Typed, LoopOK, LoopStates, CacheOK, DeviceOK, LoopInv, WorksOnKey,
     PutsAreCached, DeletesComeFirst, SentInv, SentIsStored, StoredIsCached,
     ForgottenFirst, Reconciled, MoreDue, ToReconcile, Unanswered, Cached, SkipPut,
     NextPut, Forget, linkVars, userVars
<1>20. ASSUME NEW k \in Keys, StoreIsFull(k) PROVE SentIsStored'
  BY <1>20, GiveUpStep DEF Typed, LoopOK, LoopStates, CacheOK, DeviceOK, LoopInv,
     WorksOnKey, PutsAreCached, DeletesComeFirst, SentInv, SentIsStored,
     StoredIsCached, ForgottenFirst, Reconciled, MoreDue, ToReconcile, Unanswered,
     Cached, StoreIsFull, NextPut, Forget, Receiving, NoEdit, linkVars
<1>21. ASSUME NEW k \in Keys, StartPut(k) PROVE SentIsStored'
  BY <1>21 DEF Typed, LoopOK, LoopStates, CacheOK, DeviceOK, LoopInv, WorksOnKey,
     PutsAreCached, DeletesComeFirst, SentInv, SentIsStored, StoredIsCached,
     ForgottenFirst, Reconciled, MoreDue, ToReconcile, Unanswered, Cached, StartPut,
     NextPut, Forget, linkVars, userVars
<1>22. CASE DeviceDeletes
  BY <1>22 DEF Typed, LoopOK, LoopStates, CacheOK, DeviceOK, LoopInv, WorksOnKey,
     PutsAreCached, DeletesComeFirst, SentInv, SentIsStored, StoredIsCached,
     ForgottenFirst, Reconciled, MoreDue, ToReconcile, Unanswered, Cached,
     DeviceDeletes, linkVars, userVars
<1>23. CASE DeleteAnswered
  BY <1>23 DEF Typed, LoopOK, LoopStates, CacheOK, DeviceOK, LoopInv, WorksOnKey,
     PutsAreCached, DeletesComeFirst, SentInv, SentIsStored, StoredIsCached,
     ForgottenFirst, Reconciled, MoreDue, ToReconcile, Unanswered, Cached,
     DeleteAnswered, linkVars, userVars
<1>24. CASE DeviceStores
  BY <1>24 DEF Typed, LoopOK, LoopStates, CacheOK, DeviceOK, LoopInv, WorksOnKey,
     PutsAreCached, DeletesComeFirst, SentInv, SentIsStored, StoredIsCached,
     ForgottenFirst, Reconciled, MoreDue, ToReconcile, Unanswered, Cached,
     DeviceStores, Stored, linkVars, userVars
<1>25. CASE PutAnswered
  BY <1>25 DEF Typed, LoopOK, LoopStates, CacheOK, DeviceOK, LoopInv, WorksOnKey,
     PutsAreCached, DeletesComeFirst, SentInv, SentIsStored, StoredIsCached,
     ForgottenFirst, Reconciled, MoreDue, ToReconcile, Unanswered, Cached,
     PutAnswered, linkVars, userVars
<1>26. CASE ListAnswered
  BY <1>26 DEF Typed, LoopOK, LoopStates, CacheOK, DeviceOK, LoopInv, WorksOnKey,
     PutsAreCached, DeletesComeFirst, SentInv, SentIsStored, StoredIsCached,
     ForgottenFirst, Reconciled, MoreDue, ToReconcile, Unanswered, Cached,
     ListAnswered, Stored, linkVars, userVars
<1>27. CASE ListFails
  BY <1>27 DEF Typed, LoopOK, LoopStates, CacheOK, DeviceOK, LoopInv, WorksOnKey,
     PutsAreCached, DeletesComeFirst, SentInv, SentIsStored, StoredIsCached,
     ForgottenFirst, Reconciled, MoreDue, ToReconcile, Unanswered, Cached, ListFails,
     linkVars, userVars
<1>28. CASE RequestFails
  BY <1>28, GiveUpStep DEF Typed, LoopOK, LoopStates, CacheOK, DeviceOK, LoopInv,
     WorksOnKey, PutsAreCached, DeletesComeFirst, SentInv, SentIsStored,
     StoredIsCached, ForgottenFirst, Reconciled, MoreDue, ToReconcile, Unanswered,
     Cached, RequestFails, Receiving, NoEdit, linkVars
<1>29. CASE Reply
  BY <1>29 DEF Typed, LoopOK, LoopStates, CacheOK, DeviceOK, LoopInv, WorksOnKey,
     PutsAreCached, DeletesComeFirst, SentInv, SentIsStored, StoredIsCached,
     ForgottenFirst, Reconciled, MoreDue, ToReconcile, Unanswered, Cached, Reply,
     Receiving, linkVars
<1>30. CASE RelayEvent
  BY <1>30, RelayStep DEF Typed, LoopOK, LoopStates, CacheOK, DeviceOK, LoopInv,
     WorksOnKey, PutsAreCached, DeletesComeFirst, SentInv, SentIsStored,
     StoredIsCached, ForgottenFirst, Reconciled, MoreDue, ToReconcile, Unanswered,
     Cached, RelayEvent, Reconcile, userVars
<1>31. ASSUME NEW k \in Keys, NEW v \in Values, PublishValue(k, v) PROVE SentIsStored'
  BY <1>31, SendStep, CommandsAreSendable DEF Typed, LoopOK, LoopStates, CacheOK,
     DeviceOK, LoopInv, WorksOnKey, PutsAreCached, DeletesComeFirst, SentInv,
     SentIsStored, StoredIsCached, ForgottenFirst, Reconciled, MoreDue, ToReconcile,
     Unanswered, Cached, PublishValue, Publish, linkVars, userVars
<1>32. CASE UNCHANGED <<device, link, signals, relay, queue, cache, loop, foreign>>
  BY <1>32 DEF Typed, LoopOK, LoopStates, CacheOK, DeviceOK, LoopInv, WorksOnKey,
     PutsAreCached, DeletesComeFirst, SentInv, SentIsStored, StoredIsCached,
     ForgottenFirst, Reconciled, MoreDue, ToReconcile, Unanswered, Cached
<1> QED
  BY <1>1, <1>2, <1>3, <1>4, <1>5, <1>6, <1>7, <1>8, <1>9, <1>10, <1>11, <1>12, <1>13,
     <1>14, <1>15, <1>16, <1>17, <1>18, <1>19, <1>20, <1>21, <1>22, <1>23, <1>24,
     <1>25, <1>26, <1>27, <1>28, <1>29, <1>30, <1>31, <1>32 DEF Next, Environment,
     Web, Commands, Work, vars, linkVars, userVars, EnableSource, StartReload,
     CountEdit, ReloadReads, ReloadWrites, EditFails

-----------------------------------------------------------------------------
(* The invariant. *)

\* At the start nothing is cached, queued, sent or deleted.
LEMMA InitInv == Init => PublisherInv
<1> SUFFICES ASSUME Init PROVE PublisherInv
  OBVIOUS
<1>1. Typed
  <2>1. QueueOK /\ SignalsOK
    BY BoundAssumption, EmptySeq DEF Init, QueueOK, SignalsOK
  <2>2. DeviceOK /\ ViewOK /\ CacheOK
    BY DEF Init, DeviceOK, ViewOK, CacheOK, NoEntry, Deadlines
  <2>3. UserOK /\ LoopOK
    BY IdleTyped DEF Init, UserOK, LoopOK
  <2> QED
    BY <2>1, <2>2, <2>3 DEF Typed
<1>2. LoopInv
  BY DEF Init, LoopInv, WorksOnKey, PutsAreCached, DeletesComeFirst, Receiving, NoEntry, Cached
<1>3. DeletionInv
  BY DEF Init, DeletionInv, GoneIsNotCached, DeletedIsGone, DeletionIsOwed, Receiving
<1>4. SentInv
  BY DEF Init, SentInv, SentIsStored, StoredIsCached, ForgottenFirst, Receiving, Reconciled
<1>5. DisabledIsWithdrawn
  BY DEF Init, DisabledIsWithdrawn
<1> QED
  BY <1>1, <1>2, <1>3, <1>4, <1>5 DEF PublisherInv

\* The parts need each other: together they are inductive.
LEMMA InvStep == PublisherInv /\ [Next]_vars => PublisherInv'
<1> SUFFICES ASSUME PublisherInv, [Next]_vars PROVE PublisherInv'
  OBVIOUS
<1>1. Typed'
  BY QueueTyped, SignalsTyped, DeviceTyped, ViewTyped, UserTyped, CacheTyped, LoopTyped
     DEF PublisherInv, Typed
<1>2. LoopInv'
  BY WorksStep, PutsStep, FirstStep DEF PublisherInv, LoopInv
<1>3. DeletionInv'
  BY NotCachedStep, DeletedStep, OwedStep DEF PublisherInv, DeletionInv
<1>4. SentInv'
  BY SentStep, StoredStep, ForgottenStep DEF PublisherInv, SentInv
<1>5. DisabledIsWithdrawn'
  BY DisabledStep DEF PublisherInv
<1> QED
  BY <1>1, <1>2, <1>3, <1>4, <1>5 DEF PublisherInv

\* They hold in every reachable state.
LEMMA PublisherInvariant == Spec => []PublisherInv
  BY InitInv, InvStep, PTL DEF Spec

-----------------------------------------------------------------------------
(* The theorems. *)

\* Every variable has its type, and the command channel of ResourcePublisher keeps to
\* its capacity.
THEOREM PublisherTypes == Spec => []TypeOK
<1>1. ASSUME PublisherInv PROVE TypeOK
  <2>1. \A S, T : S \subseteq T => Seq(S) \subseteq Seq(T)
    BY SeqDef
  <2>2. queue \in Seq(Command) /\ Len(queue) <= QueueCap
    BY <1>1, <2>1 DEF PublisherInv, Typed, QueueOK, Sendable
  <2> QED
    BY <1>1, <2>2 DEF PublisherInv, Typed, TypeOK, SignalsOK, Events, DeviceOK, ViewOK,
       UserOK, Handlers, CacheOK, LoopOK, LoopStates
<1> QED
  BY <1>1, PublisherInvariant, PTL

\* A deletion stays in pending_deletes until the device has done it, the key is
\* published again or an owner puts it.
THEOREM DeletionOwed == Spec => []DeletionIsOwed
<1>1. PublisherInv => DeletionIsOwed
  BY DEF PublisherInv, DeletionInv
<1> QED
  BY <1>1, PublisherInvariant, PTL

\* A source that source_policy_patch disables leaves nothing behind, also when its
\* publish was queued or under way.
THEOREM DisabledWithdrawn == Spec => []DisabledIsWithdrawn
<1>1. PublisherInv => DisabledIsWithdrawn
  BY DEF PublisherInv
<1> QED
  BY <1>1, PublisherInvariant, PTL

\* publish_one leaves a write out only while the device holds what was sent: across
\* sessions, lost answers, restarts of the device and deletions.
THEOREM Dedupe == Spec => []DedupeSound
<1>1. ASSUME PublisherInv PROVE DedupeSound
  <2> SUFFICES ASSUME relay, link.up, ~ReconcileDue, NEW k \in Keys \ foreign,
                      Cached(k), cache[k].sent = cache[k].value
               PROVE  device.store[k] = cache[k].value
    BY DEF DedupeSound
  <2>1. cache[k].sent # None /\ ~ToReconcile(k)
    BY DEF Cached, ReconcileDue, ToReconcile
  <2>2. device.store[k] = cache[k].sent \/ Unanswered(k)
    BY <1>1, <2>1 DEF PublisherInv, SentInv, SentIsStored, Reconciled, MoreDue, ReconcileDue
  <2>3. Unanswered(k) => device.store[k] = cache[k].value
    BY <1>1 DEF PublisherInv, SentInv, StoredIsCached, Unanswered
  <2> QED
    BY <2>2, <2>3
<1> QED
  BY <1>1, PublisherInvariant, PTL

=============================================================================
