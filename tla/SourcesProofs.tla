----------------------------- MODULE SourcesProofs -----------------------------
(***************************************************************************)
(* The invariants of Sources for any identifiers, types, configurations,   *)
(* requests and bounds: types, that list and file agree and the Agent      *)
(* starts again, that an identifier has one owner and is listed, that a    *)
(* credential goes with its configuration, and that no stale data stays.   *)
(***************************************************************************)
EXTENDS Sources, ChannelTheorems, FiniteSetTheorems

-----------------------------------------------------------------------------
(* Types, one part for each group of variables. *)

ListsOK ==
    /\ alive \in BOOLEAN
    /\ mem \in [Kinds -> Lists]
    /\ file \in [Kinds -> Lists \cup {Torn}]
    /\ lock \in [Kinds -> Users \cup {None}]

KeyringOK == secret \in [Kinds -> [Ids -> Scopes \cup {None}]]

SnapshotOK == listed \in [Ids -> Entry \cup {None}]

PolicyOK ==
    /\ policy \in [Ids -> Policies]
    /\ settings \in [data : [Ids -> Policies], disk : [Ids -> Policies]]

LoopsOK ==
    /\ greet \in [Kinds -> SUBSET Ids]
    /\ job \in [Kinds -> [Ids -> Collection \cup {None}]]
    /\ queue \in [Kinds -> Seq(Ids)]
    /\ \A k \in Kinds : Len(queue[k]) <= TriggerCap

ShownOK == shown \in [Kinds -> [Ids -> Scopes \cup {None, Unavailable}]]

SpentOK == spent \in [ops : 0..MaxOps, failures : Nat, crashes : 0..MaxFaults]

RequestsOK == req \in [Users -> Request] /\ \A u \in Users : Knows(req[u])

-----------------------------------------------------------------------------
(* Under the lock. *)

\* The handler has the write lock of its type's list.
Inside(u) == req[u].pc \in {"secret", "save", "restore"}

LockInv ==
    /\ \A u \in Users : Inside(u) => lock[req[u].kind] = u
    /\ \A k \in Kinds : lock[k] # None =>
          /\ req[lock[k]].kind = k /\ Inside(lock[k])
          /\ greet[k] = {}

\* What a handler found out when it took the lock, and what it does to the keyring.
Admitted(u) == LET r == req[u] IN
    /\ r.op = "create" =>
          /\ mem[r.kind][r.id] = None
          /\ r.kind # "cli" => Cardinality(Present(r.kind)) < MaxSources
    /\ r.op \in {"update", "delete"} => mem[r.kind][r.id] # None
    /\ r.pc \in {"secret", "restore"} => r.touched
    /\ r.touched => r.kind # "cli"

AdmitInv == \A u \in Users : Inside(u) => Admitted(u)

-----------------------------------------------------------------------------
(* Lists and files. *)

ListInv == \A k \in Kinds :
    /\ \A i \in Ids : mem[k][i] \in ConfigsOf(k) \cup {None}
    /\ k # "cli" => WithinLimit(mem[k])

\* The file is the list, or a write in place has failed.
Kept(k) ==
    \/ file[k] = mem[k]
    \/ /\ k # "http" /\ file[k] = Torn
       /\ spent.failures > 0

FileInv == alive => \A k \in Kinds : Kept(k)

-----------------------------------------------------------------------------
(* Owners of an identifier. *)

\* Requests are only served when every source is listed.
Served == ~EarlyUsers \/ spent.crashes = 0

GreetInv ==
    /\ Served => (\A k \in Kinds : greet[k] = {}) \/ (\A u \in Users : req[u] = Idle)
    /\ \A k \in Kinds : \A i \in greet[k] : mem[k][i] # None
    /\ spent.crashes = 0 => \A k \in Kinds : greet[k] = {}

\* A handler has reserved its identifier and nothing is saved, or has deleted the
\* source and not taken it off the snapshot.
Reserves(u) ==
    \/ req[u].op = "create" /\ req[u].pc \in WriteSteps \cup {"unreserve"}
    \/ req[u].pc = "unlist"

OwnInv == Served =>
    /\ OneOwner(mem)
    /\ \A k \in Kinds, i \in Ids : mem[k][i] # None /\ i \notin greet[k] => listed[i] # None
    /\ \A u \in Users : Reserves(u) =>
          /\ listed[req[u].id] # None
          /\ \A k \in Kinds : mem[k][req[u].id] = None
          /\ \A v \in Users : Reserves(v) /\ req[v].id = req[u].id => v = u

-----------------------------------------------------------------------------
(* Credentials. *)

\* The credential s is for what the configuration c collects from.
GoesWith(s, c) == s # None => c # None /\ c.auth /\ c.scope = s

\* The credential of a source, while a handler is at work on it.
CredentialOf(u) == LET r == req[u]  s == secret[r.kind][r.id]  c == mem[r.kind][r.id] IN
    /\ r.pc = "secret" => GoesWith(s, c)
    /\ r.pc = "save" /\ r.touched => GoesWith(s, r.config) /\ GoesWith(r.old, c)
    /\ r.pc = "save" /\ ~r.touched => s = None
    /\ r.pc = "restore" => GoesWith(r.old, c) /\ spent.failures > 0

SecretInv == spent.failures <= 1 /\ spent.crashes = 0 =>
    /\ \A k \in Kinds, i \in Ids :
          \/ GoesWith(secret[k][i], mem[k][i])
          \/ /\ lock[k] # None
             /\ req[lock[k]].id = i
    /\ \A u \in Users : Inside(u) => CredentialOf(u)

-----------------------------------------------------------------------------
(* What is shown. *)

\* A handler that has changed its source, or switched it on, will ask for a collection.
Follows(u, k, i) ==
    /\ req[u].kind = k /\ req[u].id = i
    /\ \/ req[u].pc \in {"policy", "register", "refresh", "trigger"}
       \/ req[u].pc = "save" /\ req[u].op = "update"

Follow(k, i) == i \in Range(queue[k]) \/ \E u \in Users : Follows(u, k, i)

Counts(k, i) ==
    /\ mem[k][i] # None
    /\ mem[k][i].auth => secret[k][i] # None
    /\ k = "balance" => Kinds = {k} /\ Runs(i)

Fresh(k, i) == Counts(k, i) => shown[k][i] \in {mem[k][i].scope, None, Unavailable}

\* A collection that will show what it works with, and one that will show what is right.
WillShow(k, i) == job[k][i] # None /\ job[k][i].at \in {"check", "secret", "run"}
WillRight(k, i) ==
    /\ job[k][i] # None /\ job[k][i].at \in {"check", "secret", "run", "status"}
    /\ job[k][i].config = mem[k][i]

ShownInv == spent.failures = 0 /\ spent.crashes = 0 =>
    \A k \in Kinds, i \in Ids :
        \/ Follow(k, i)
        \/ /\ WillShow(k, i) /\ mem[k][i] # None => job[k][i].config = mem[k][i]
           /\ Fresh(k, i) \/ WillRight(k, i)

SourcesInv ==
    /\ TypeOK /\ LockInv /\ AdmitInv /\ ListInv /\ FileInv /\ StartsUnlessTorn
    /\ GreetInv /\ OwnInv /\ SecretInv /\ ShownInv

-----------------------------------------------------------------------------
(* Values. *)

\* The groups together are the type invariant.
LEMMA TypeParts == TypeOK <=>
    /\ ListsOK /\ KeyringOK /\ SnapshotOK /\ PolicyOK
    /\ LoopsOK /\ ShownOK /\ SpentOK /\ RequestsOK
  BY DEF TypeOK, ListsOK, KeyringOK, SnapshotOK, PolicyOK, LoopsOK, ShownOK, SpentOK,
     RequestsOK

\* The bounds are numbers.
LEMMA Bounds ==
  /\ MaxSources \in Nat /\ TriggerCap \in Nat /\ TriggerCap > 0
  /\ MaxOps \in Nat /\ MaxFaults \in Nat /\ EarlyUsers \in BOOLEAN
  /\ IsFiniteSet(Ids)
  BY BoundsAssumption

\* A configuration has its type, and is not nothing.
LEMMA ConfigTyped ==
  ASSUME NEW c \in Configs
  PROVE  /\ c.on \in BOOLEAN /\ c.full \in BOOLEAN /\ c.auth \in BOOLEAN
         /\ c.scope \in Scopes /\ c # None /\ c.scope # None
  BY ConfigsAssumption, NoneAssumption DEF Config

\* What each type accepts is a configuration.
LEMMA AcceptedTyped ==
  ASSUME NEW k, NEW c \in ConfigsOf(k)
  PROVE  /\ c \in Configs /\ c # None
         /\ k = "cli" => ~c.auth
         /\ k = "balance" => c.auth
  BY ConfigTyped DEF ConfigsOf

\* What a type says of a source is an entry of the snapshot, enabled as it was told.
LEMMA StatusTyped ==
  ASSUME NEW k \in Kinds, NEW c \in Configs, NEW ready \in BOOLEAN, NEW on \in BOOLEAN
  PROVE  /\ Status(k, c, ready, on) \in Entry
         /\ Status(k, c, ready, on) # None
         /\ Status(k, c, ready, on).kind = k
         /\ Status(k, c, ready, on).on = on
<1>1. k \in AllKinds
  BY KindsAssumption
<1>2. c.on \in BOOLEAN /\ c.full \in BOOLEAN /\ c.auth \in BOOLEAN
  BY ConfigTyped
<1>3. CASE k = "cli"
  BY <1>2, <1>3, ValuesAssumption DEF Status, CliStatus, Entry
<1>4. CASE k = "http"
  BY <1>2, <1>4, ValuesAssumption DEF Status, HttpStatus, Entry
<1>5. CASE k = "balance"
  BY <1>2, <1>5, ValuesAssumption DEF Status, BalanceStatus, Entry
<1> QED
  BY <1>1, <1>3, <1>4, <1>5 DEF AllKinds

\* A list that a source is put on, or taken off, is a list.
LEMMA NextListTyped ==
  ASSUME mem \in [Kinds -> Lists], RequestsOK, NEW u \in Users, req[u].kind \in Kinds
  PROVE  /\ NextList(u) \in Lists
         /\ \A i \in Ids : i # req[u].id => NextList(u)[i] = mem[req[u].kind][i]
         /\ req[u].id \in Ids => NextList(u)[req[u].id] = req[u].config
  BY DEF NextList, Lists, RequestsOK, Request

-----------------------------------------------------------------------------
(* Requests. *)

\* What a handler does leaves the others alone.
Others(u) == \A v \in Users \ {u} : req'[v] = req[v]

\* What was asked stays the same.
Keeps(u) ==
    /\ req'[u].kind = req[u].kind /\ req'[u].id = req[u].id /\ req'[u].op = req[u].op
    /\ req'[u].config = req[u].config /\ req'[u].update = req[u].update

\* A handler ends.
Ends(u) == RequestsOK' /\ Others(u) /\ req'[u] = Idle

\* A handler goes on with the next step and finds nothing out.
Goes(u, pc) ==
    /\ RequestsOK' /\ Others(u) /\ Keeps(u) /\ req'[u].pc = pc
    /\ req'[u].touched = req[u].touched /\ req'[u].old = req[u].old
    /\ req'[u].on = req[u].on

\* What a handler works on, by its step.
LEMMA StepKnows ==
  ASSUME RequestsOK, NEW u \in Users
  PROVE  LET r == req[u] IN
         /\ r \in Request
         /\ r.pc = "idle" => r = Idle
         /\ r.pc # "idle" => r.kind \in Kinds /\ r.id \in Ids
         /\ r.pc \in WriteSteps => r.op \in {"create", "update", "delete"}
         /\ r.pc \in {"policy", "register", "refresh"} => r.op \in {"create", "update"}
         /\ r.pc \in {"reserve", "unreserve"} => r.op = "create"
         /\ r.pc = "unlist" => r.op = "delete"
         /\ r.pc \in {"settings", "insert", "apply"} => r.op = "toggle"
         /\ r.op \in {"create", "update"} =>
               /\ r.config \in ConfigsOf(r.kind) /\ r.update \in UpdatesOf(r.kind, r.config)
         /\ r.op = "create" => r.update # "keep"
         /\ r.op = "delete" => r.config = None /\ r.update = "clear"
<1>1. req[u] \in Request /\ Knows(req[u])
  BY DEF RequestsOK
<1>2. CASE req[u] = Idle
  BY <1>1, <1>2, NoneAssumption, ValuesAssumption DEF Idle, Ops, WriteSteps
<1>3. CASE req[u] # Idle
  BY <1>1, <1>3 DEF Knows, WriteSteps, CreateSteps, UpdateSteps, DeleteSteps, ToggleSteps
<1> QED
  BY <1>2, <1>3

\* A handler at rest has its type.
LEMMA IdleTyped == Idle \in Request /\ Knows(Idle) /\ Idle.pc = "idle" /\ Idle.op = None
  BY DEF Idle, Request, Knows, Steps

\* The handler ends, or goes on.
LEMMA DoneStep ==
  ASSUME RequestsOK, NEW u \in Users, Done(u)
  PROVE  Ends(u)
  BY IdleTyped DEF RequestsOK, Done, Others, Ends

\* The handler goes on with one of the steps of its operation.
LEMMA GoToStep ==
  ASSUME RequestsOK, NEW u \in Users, NEW pc \in Steps, GoTo(u, pc),
         \/ req[u].op = "create" /\ pc \in CreateSteps
         \/ req[u].op = "update" /\ pc \in UpdateSteps
         \/ req[u].op = "delete" /\ pc \in DeleteSteps
         \/ req[u].op = "toggle" /\ pc \in ToggleSteps
  PROVE  Goes(u, pc)
<1> DEFINE r == [req[u] EXCEPT !.pc = pc]
<1>1. req[u] \in Request /\ Knows(req[u]) /\ req' = [req EXCEPT ![u] = r]
  BY DEF RequestsOK, GoTo
<1>2. /\ r \in Request /\ r.pc = pc /\ r.op = req[u].op /\ r.kind = req[u].kind
      /\ r.id = req[u].id /\ r.config = req[u].config /\ r.update = req[u].update
      /\ r.touched = req[u].touched /\ r.old = req[u].old /\ r.on = req[u].on
  BY <1>1 DEF Request
<1>3. req[u] # Idle
  BY ValuesAssumption DEF Idle, Ops
<1>4. Knows(r)
  BY <1>1, <1>2, <1>3 DEF Knows
<1>5. req'[u] = r /\ Others(u) /\ req' \in [Users -> Request]
  BY <1>1, <1>2 DEF RequestsOK, Others
<1>6. \A v \in Users : Knows(req'[v])
  BY <1>4, <1>5 DEF RequestsOK, Others
<1> QED
  BY <1>2, <1>5, <1>6 DEF Goes, Keeps, RequestsOK

\* An error: a create takes back the identifier it has reserved.
Fails(u) ==
    \/ req[u].op = "create" /\ Goes(u, "unreserve")
    \/ req[u].op # "create" /\ Ends(u)

\* A request that is refused ends, or takes back what it has reserved.
LEMMA FailStep ==
  ASSUME RequestsOK, NEW u \in Users, Fail(u)
  PROVE  Fails(u)
  BY DoneStep, GoToStep DEF Fail, Fails, Steps, CreateSteps

-----------------------------------------------------------------------------
(* What each step of a handler does to its request and to the locks. *)

\* The requests that come in, and the checks of each type.
Asks(u) == AskCreate(u) \/ AskUpdate(u) \/ AskDelete(u) \/ AskToggle(u) \/ AskRefresh(u)

Enters(u) ==
    \/ CliCreate(u) \/ HttpCreate(u) \/ BalanceCreate(u)
    \/ CliUpdate(u) \/ HttpUpdate(u) \/ BalanceUpdate(u)
    \/ CliDelete(u) \/ HttpDelete(u) \/ BalanceDelete(u)

\* Only the requests change.
OnlyRequests == UNCHANGED <<alive, stores, secret, listed, policy, settings, loops, shown>>

\* A request that is well formed becomes the handler's.
LEMMA RequestStep ==
  ASSUME RequestsOK, NEW u \in Users, NEW r \in Request, Knows(r),
         req' = [req EXCEPT ![u] = r]
  PROVE  RequestsOK' /\ Others(u) /\ req'[u] = r
  BY DEF RequestsOK, Others

\* The requests that come in are well formed.
LEMMA AskSteps ==
  ASSUME RequestsOK, SnapshotOK, PolicyOK, SpentOK, NEW u \in Users, Asks(u)
  PROVE  /\ RequestsOK' /\ Others(u) /\ OnlyRequests /\ req[u] = Idle
         /\ alive /\ (EarlyUsers \/ \A k \in Kinds : greet[k] = {})
         /\ spent'.failures = spent.failures /\ spent'.crashes = spent.crashes
         /\ \/ req'[u].pc \in {"reserve", "settings", "trigger"}
            \/ req'[u].pc = "lock" /\ req'[u].op \in {"update", "delete"}
<1>1. \A i \in Listed : i \in Ids /\ listed[i].kind \in Kinds
  BY DEF Listed, SnapshotOK, Entry
<1>2. \A i \in Ids, on \in BOOLEAN : Effective(i, on) \in BOOLEAN
  BY DEF Effective
<1>3. Asks(u) => MayAsk(u)
  BY DEF Asks, AskCreate, AskUpdate, AskDelete, AskToggle, AskRefresh
<1>4. /\ req[u] = Idle /\ alive /\ (EarlyUsers \/ \A k \in Kinds : greet[k] = {})
      /\ spent'.failures = spent.failures /\ spent'.crashes = spent.crashes
      /\ OnlyRequests
  BY <1>3 DEF MayAsk, Asks, AskCreate, AskUpdate, AskDelete, AskToggle, AskRefresh, Ask,
     SpentOK, OnlyRequests
<1>5. \A k \in Kinds : \A c \in ConfigsOf(k) : UpdatesOf(k, c) \subseteq Updates
  BY DEF UpdatesOf, Updates
<1>6. CASE AskCreate(u)
  <2>1. PICK k, i, c, up :
          /\ k \in Kinds /\ i \in Ids
          /\ c \in ConfigsOf(k) /\ up \in UpdatesOf(k, c)
          /\ Ask(u, "reserve", "create", k, i, c, IF up = "keep" THEN "clear" ELSE up,
                 Effective(i, c.on))
    BY <1>6 DEF AskCreate
  <2> DEFINE stored == IF up = "keep" THEN "clear" ELSE up
             on == Effective(i, c.on)
  <2>2. stored \in UpdatesOf(k, c) /\ stored \in Updates /\ stored # "keep"
    BY <1>5, <2>1 DEF UpdatesOf, Updates
  <2>3. c \in Configs /\ on \in BOOLEAN
    BY <1>2, <2>1, AcceptedTyped, ConfigTyped
  <2> DEFINE r == [Idle EXCEPT !.pc = "reserve", !.op = "create", !.kind = k, !.id = i,
                             !.config = c, !.update = stored, !.on = on]
  <2>5. req' = [req EXCEPT ![u] = r]
    BY <2>1 DEF Ask
  <2>6. r \in Request /\ r.pc = "reserve" /\ r.op = "create"
       /\ r.kind = k /\ r.id = i /\ r.config = c /\ r.update = stored
    BY <2>1, <2>2, <2>3 DEF Request, Idle, Steps, CreateSteps, UpdateSteps, WriteSteps,
       ToggleSteps, Ops, Updates
  <2>7. Knows(r)
    BY <2>1, <2>2, <2>3, <2>6 DEF Knows, CreateSteps, UpdateSteps, DeleteSteps, ToggleSteps,
       WriteSteps
  <2> HIDE DEF r
  <2> QED
    BY <1>4, <2>5, <2>6, <2>7, RequestStep
<1>7. CASE AskUpdate(u)
  <2>1. PICK i, c, up :
          /\ i \in Listed /\ c \in ConfigsOf(listed[i].kind) /\ up \in UpdatesOf(listed[i].kind, c)
          /\ Ask(u, "lock", "update", listed[i].kind, i, c, up, FALSE)
    BY <1>7 DEF AskUpdate
  <2>2. c \in Configs /\ listed[i].kind \in Kinds /\ i \in Ids /\ up \in Updates
    BY <1>1, <1>5, <2>1, AcceptedTyped
  <2> DEFINE r == [Idle EXCEPT !.pc = "lock", !.op = "update", !.kind = listed[i].kind,
                             !.id = i, !.config = c, !.update = up, !.on = FALSE]
  <2>5. req' = [req EXCEPT ![u] = r]
    BY <2>1 DEF Ask
  <2>6. r \in Request /\ r.pc = "lock" /\ r.op = "update"
       /\ r.kind = listed[i].kind /\ r.id = i /\ r.config = c /\ r.update = up
    BY <2>1, <2>2 DEF Request, Idle, Steps, CreateSteps, UpdateSteps, WriteSteps,
       ToggleSteps, Ops, Updates
  <2>7. Knows(r)
    BY <2>1, <2>2, <2>6 DEF Knows, CreateSteps, UpdateSteps, DeleteSteps, ToggleSteps,
       WriteSteps
  <2> HIDE DEF r
  <2> QED
    BY <1>4, <2>5, <2>6, <2>7, RequestStep
<1>8. CASE AskDelete(u)
  <2>1. PICK i \in Listed : Ask(u, "lock", "delete", listed[i].kind, i, None, "clear", FALSE)
    BY <1>8 DEF AskDelete
  <2> DEFINE r == [Idle EXCEPT !.pc = "lock", !.op = "delete", !.kind = listed[i].kind,
                             !.id = i, !.config = None, !.update = "clear", !.on = FALSE]
  <2>5. req' = [req EXCEPT ![u] = r]
    BY <2>1 DEF Ask
  <2>6. r \in Request /\ r.pc = "lock" /\ r.op = "delete"
       /\ r.kind = listed[i].kind /\ r.id = i /\ r.config = None /\ r.update = "clear"
    BY <1>1, <2>1 DEF Request, Idle, Steps, CreateSteps, UpdateSteps, WriteSteps,
       ToggleSteps, Ops, Updates
  <2>7. Knows(r)
    BY <1>1, <2>1, <2>6 DEF Knows, CreateSteps, UpdateSteps, DeleteSteps, ToggleSteps,
       WriteSteps
  <2> HIDE DEF r
  <2> QED
    BY <1>4, <2>5, <2>6, <2>7, RequestStep
<1>9. CASE AskToggle(u)
  <2>1. PICK i \in Listed, on \in BOOLEAN :
          Ask(u, "settings", "toggle", listed[i].kind, i, None, None, on)
    BY <1>9 DEF AskToggle
  <2> DEFINE r == [Idle EXCEPT !.pc = "settings", !.op = "toggle", !.kind = listed[i].kind,
                             !.id = i, !.config = None, !.update = None, !.on = on]
  <2>5. req' = [req EXCEPT ![u] = r]
    BY <2>1 DEF Ask
  <2>6. r \in Request /\ r.pc = "settings" /\ r.op = "toggle"
       /\ r.kind = listed[i].kind /\ r.id = i
    BY <1>1, <2>1 DEF Request, Idle, Steps, CreateSteps, UpdateSteps, WriteSteps,
       ToggleSteps, Ops, Updates
  <2>7. Knows(r)
    BY <1>1, <2>1, <2>6 DEF Knows, CreateSteps, UpdateSteps, DeleteSteps, ToggleSteps,
       WriteSteps
  <2> HIDE DEF r
  <2> QED
    BY <1>4, <2>5, <2>6, <2>7, RequestStep
<1>10. CASE AskRefresh(u)
  <2>1. PICK i \in Listed :
          Ask(u, "trigger", "refresh", listed[i].kind, i, None, None, FALSE)
    BY <1>10 DEF AskRefresh
  <2> DEFINE r == [Idle EXCEPT !.pc = "trigger", !.op = "refresh", !.kind = listed[i].kind,
                             !.id = i, !.config = None, !.update = None, !.on = FALSE]
  <2>5. req' = [req EXCEPT ![u] = r]
    BY <2>1 DEF Ask
  <2>6. r \in Request /\ r.pc = "trigger" /\ r.op = "refresh"
       /\ r.kind = listed[i].kind /\ r.id = i
    BY <1>1, <2>1 DEF Request, Idle, Steps, CreateSteps, UpdateSteps, WriteSteps,
       ToggleSteps, Ops, Updates
  <2>7. Knows(r)
    BY <1>1, <2>1, <2>6 DEF Knows, CreateSteps, UpdateSteps, DeleteSteps, ToggleSteps,
       WriteSteps
  <2> HIDE DEF r
  <2> QED
    BY <1>4, <2>5, <2>6, <2>7, RequestStep
<1> QED
  BY <1>4, <1>6, <1>7, <1>8, <1>9, <1>10 DEF Asks

\* A create reserves its identifier, or is refused.
LEMMA ReserveStep ==
  ASSUME RequestsOK, NEW u \in Users, Reserve(u)
  PROVE  /\ req[u].pc = "reserve" /\ req[u].op = "create"
         /\ \/ listed[req[u].id] # None /\ Ends(u) /\ UNCHANGED listed
            \/ /\ listed[req[u].id] = None /\ Goes(u, "lock")
               /\ listed' = [listed EXCEPT ![req[u].id] =
                                Status(req[u].kind, req[u].config, FALSE, req[u].on)]
         /\ UNCHANGED <<alive, stores, secret, policy, settings, loops, shown, spent>>
<1>1. /\ req[u].pc = "reserve"
      /\ UNCHANGED <<alive, stores, secret, policy, settings, loops, shown, spent>>
  BY DEF Reserve, At
<1>2. req[u].op = "create"
  BY <1>1, StepKnows
<1> QED
  BY <1>1, <1>2, DoneStep, GoToStep
     DEF Reserve, Steps, CreateSteps, UpdateSteps, WriteSteps

\* A handler takes the lock and knows what the list holds, or is refused.
Taken(u) ==
    /\ lock' = [lock EXCEPT ![req[u].kind] = u]
    /\ RequestsOK' /\ Others(u) /\ Keeps(u)
    /\ \/ req'[u].pc = "secret" /\ req'[u].touched = TRUE
       \/ req'[u].pc = "save" /\ req'[u].touched = FALSE
    /\ req'[u].touched => req[u].kind # "cli"
    /\ req[u].op = "create" =>
          /\ mem[req[u].kind][req[u].id] = None
          /\ req[u].kind # "cli" => Cardinality(Present(req[u].kind)) < MaxSources
    /\ req[u].op # "create" => mem[req[u].kind][req[u].id] # None
    /\ ~req'[u].touched /\ req[u].kind # "cli" =>
          /\ req[u].kind = "http"
          /\ \/ mem[req[u].kind][req[u].id] = None
             \/ ~mem[req[u].kind][req[u].id].auth
          /\ req[u].op # "delete" => ~req[u].config.auth

\* A handler that is admitted has the lock and goes on with the keyring or the file.
LEMMA AdmitStep ==
  ASSUME RequestsOK, NEW u \in Users, NEW t \in BOOLEAN, Admit(u, t),
         req[u].op \in {"create", "update", "delete"}
  PROVE  /\ lock' = [lock EXCEPT ![req[u].kind] = u]
         /\ RequestsOK' /\ Others(u) /\ Keeps(u) /\ req'[u].touched = t
         /\ req'[u].pc = IF t THEN "secret" ELSE "save"
<1> DEFINE pc == IF t THEN "secret" ELSE "save"
           r == [req[u] EXCEPT !.pc = pc, !.touched = t]
<1>1. req[u] \in Request /\ Knows(req[u]) /\ req' = [req EXCEPT ![u] = r]
  BY DEF RequestsOK, Admit
<1>2. pc \in WriteSteps /\ pc \in Steps
  BY DEF WriteSteps, Steps, CreateSteps, UpdateSteps
<1>3. /\ r \in Request /\ r.pc = pc /\ r.op = req[u].op /\ r.kind = req[u].kind
      /\ r.id = req[u].id /\ r.config = req[u].config /\ r.update = req[u].update
      /\ r.touched = t
  BY <1>1, <1>2 DEF Request
<1>4. req[u] # Idle
  BY ValuesAssumption DEF Idle, Ops
<1>5. Knows(r)
  BY <1>1, <1>2, <1>3, <1>4 DEF Knows, CreateSteps, UpdateSteps, DeleteSteps
<1>6. req'[u] = r /\ Others(u) /\ req' \in [Users -> Request]
  BY <1>1, <1>3 DEF RequestsOK, Others
<1>7. RequestsOK'
  BY <1>5, <1>6 DEF RequestsOK, Others
<1> QED
  BY <1>3, <1>6, <1>7 DEF Admit, Keeps

\* The checks of each type admit a handler, or refuse it and leave the lock alone.
LEMMA EnterStep ==
  ASSUME RequestsOK, ListsOK, ListInv, NEW u \in Users, Enters(u)
  PROVE  /\ req[u].pc = "lock" /\ req[u].kind \in Kinds
         /\ lock[req[u].kind] = None /\ greet[req[u].kind] = {}
         /\ Taken(u) \/ (Fails(u) /\ UNCHANGED lock)
         /\ UNCHANGED <<alive, mem, file, secret, listed, policy, settings, loops, shown,
                        spent>>
<1> DEFINE k == req[u].kind
           i == req[u].id
<1>1. PICK t \in AllKinds, op \in {"create", "update", "delete"} : Locks(u, t, op)
  BY DEF Enters, AllKinds, CliCreate, HttpCreate, BalanceCreate, CliUpdate, HttpUpdate,
     BalanceUpdate, CliDelete, HttpDelete, BalanceDelete
<1>2. /\ req[u].pc = "lock" /\ k = t /\ req[u].op = op
      /\ lock[k] = None /\ greet[k] = {}
      /\ UNCHANGED <<alive, mem, file, secret, listed, policy, settings, loops, shown,
                     spent>>
  BY <1>1 DEF Locks, At, Is, Unlocked
<1>3. k \in Kinds /\ i \in Ids
  BY <1>2, StepKnows
<1>4. mem[k][i] # None => mem[k][i] \in ConfigsOf(k)
  BY <1>3 DEF ListInv
<1>5. mem[k][i] # None => mem[k][i].auth \in BOOLEAN
  BY <1>4, AcceptedTyped, ConfigTyped
<1>6. op # "delete" => req[u].config.auth \in BOOLEAN
  BY <1>2, StepKnows, AcceptedTyped, ConfigTyped
<1>7. ASSUME Refuse(u) PROVE Fails(u) /\ UNCHANGED lock
  BY <1>7, FailStep DEF Refuse
<1>8. ASSUME NEW touches \in BOOLEAN, Admit(u, touches),
             touches => k # "cli",
             op = "create" =>
                /\ mem[k][i] = None
                /\ k # "cli" => Cardinality(Present(k)) < MaxSources,
             op # "create" => mem[k][i] # None,
             ~touches /\ k # "cli" =>
                /\ k = "http" /\ (mem[k][i] = None \/ ~mem[k][i].auth)
                /\ op # "delete" => ~req[u].config.auth
      PROVE  Taken(u)
  BY <1>2, <1>8, AdmitStep DEF Taken
<1>9. \A c \in {Cardinality(Present(k))} : ~Full(k) /\ c \in Int => c < MaxSources
  BY Bounds DEF Full
<1>10. Cardinality(Present(k)) \in Int
  <2>1. IsFiniteSet(Present(k))
    BY Bounds, FS_Subset DEF Present
  <2> QED
    BY <2>1, FS_CardinalityType
<1>11. ~Full(k) => Cardinality(Present(k)) < MaxSources
  BY <1>9, <1>10
<1>12. ASSUME CliCreate(u) PROVE Taken(u) \/ (Fails(u) /\ UNCHANGED lock)
  BY <1>2, <1>7, <1>8, <1>12 DEF CliCreate, Locks, Is
<1>13. ASSUME HttpCreate(u) PROVE Taken(u) \/ (Fails(u) /\ UNCHANGED lock)
  BY <1>2, <1>6, <1>7, <1>8, <1>11, <1>13 DEF HttpCreate, Locks, Is
<1>14. ASSUME BalanceCreate(u) PROVE Taken(u) \/ (Fails(u) /\ UNCHANGED lock)
  BY <1>2, <1>7, <1>8, <1>11, <1>14 DEF BalanceCreate, Locks, Is
<1>15. ASSUME CliUpdate(u) PROVE Taken(u) \/ (Fails(u) /\ UNCHANGED lock)
  BY <1>2, <1>7, <1>8, <1>15 DEF CliUpdate, Locks, Is
<1>16. ASSUME HttpUpdate(u) PROVE Taken(u) \/ (Fails(u) /\ UNCHANGED lock)
  BY <1>2, <1>5, <1>6, <1>7, <1>8, <1>16 DEF HttpUpdate, Locks, Is
<1>17. ASSUME BalanceUpdate(u) PROVE Taken(u) \/ (Fails(u) /\ UNCHANGED lock)
  BY <1>2, <1>7, <1>8, <1>17 DEF BalanceUpdate, Locks, Is
<1>18. ASSUME CliDelete(u) PROVE Taken(u) \/ (Fails(u) /\ UNCHANGED lock)
  BY <1>2, <1>7, <1>8, <1>18 DEF CliDelete, Locks, Is
<1>19. ASSUME HttpDelete(u) PROVE Taken(u) \/ (Fails(u) /\ UNCHANGED lock)
  BY <1>2, <1>5, <1>7, <1>8, <1>19 DEF HttpDelete, Locks, Is
<1>20. ASSUME BalanceDelete(u) PROVE Taken(u) \/ (Fails(u) /\ UNCHANGED lock)
  BY <1>2, <1>7, <1>8, <1>20 DEF BalanceDelete, Locks, Is
<1>21. Taken(u) \/ (Fails(u) /\ UNCHANGED lock)
  BY <1>12, <1>13, <1>14, <1>15, <1>16, <1>17, <1>18, <1>19, <1>20 DEF Enters
<1> QED
  BY <1>2, <1>3, <1>21

\* What is in the keyring once a request was applied.
Stored(u) == LET r == req[u] IN
    Applied(r.update, secret[r.kind][r.id], IF r.config = None THEN None ELSE r.config.scope)

\* The keyring is changed, and the old credential kept, or the request is refused.
LEMMA TouchStep ==
  ASSUME RequestsOK, KeyringOK, NEW u \in Users, TouchSecret(u)
  PROVE  LET r == req[u]  k == req[u].kind  i == req[u].id IN
         /\ r.pc = "secret" /\ alive /\ k \in Kinds /\ i \in Ids
         /\ r.op \in {"create", "update", "delete"} /\ Stored(u) \in Scopes \cup {None}
         /\ RequestsOK' /\ Others(u)
         /\ \/ /\ r.op = "update" /\ Ends(u) /\ UNCHANGED secret
               /\ lock' = [lock EXCEPT ![k] = None]
            \/ /\ Keeps(u) /\ req'[u].pc = "save" /\ req'[u].touched = r.touched
               /\ req'[u].old = secret[k][i] /\ UNCHANGED lock
               /\ secret' = [secret EXCEPT ![k][i] = Stored(u)]
               /\ r.op = "update" /\ r.update = "keep" /\ secret[k][i] # None =>
                     ~ScopeChanged(mem[k][i], r.config)
         /\ UNCHANGED <<alive, mem, file, listed, policy, settings, loops, shown, spent>>
<1> DEFINE k == req[u].kind
           i == req[u].id
           r == [req[u] EXCEPT !.pc = "save", !.old = secret[k][i]]
           refused == /\ req[u].op = "update" /\ req[u].update = "keep"
                      /\ secret[k][i] # None /\ ScopeChanged(mem[k][i], req[u].config)
<1>1. /\ req[u].pc = "secret" /\ alive
      /\ UNCHANGED <<alive, mem, file, listed, policy, settings, loops, shown, spent>>
  BY DEF TouchSecret, At
<1>2. /\ k \in Kinds /\ i \in Ids /\ req[u].op \in {"create", "update", "delete"}
      /\ req[u] \in Request
  BY <1>1, StepKnows DEF WriteSteps
<1>3. Stored(u) \in Scopes \cup {None}
  <2>1. req[u].op = "delete" => req[u].config = None /\ req[u].update = "clear"
    BY StepKnows
  <2>2. req[u].op # "delete" =>
          /\ req[u].config.scope \in Scopes
          /\ req[u].update \in {"keep", "set", "clear"}
    BY <1>2, StepKnows, AcceptedTyped, ConfigTyped DEF UpdatesOf
  <2> QED
    BY <1>2, <2>1, <2>2 DEF Stored, Applied, KeyringOK
<1>4. CASE refused
  <2>1. Done(u) /\ Release(u) /\ UNCHANGED secret
    BY <1>4 DEF TouchSecret, Fail
  <2> QED
    BY <1>1, <1>2, <1>3, <1>4, <2>1, DoneStep DEF Release, Ends
<1>5. CASE ~refused
  <2>1. /\ req' = [req EXCEPT ![u] = r] /\ UNCHANGED lock
        /\ secret' = [secret EXCEPT ![k][i] = Stored(u)]
    BY <1>5 DEF TouchSecret, Stored
  <2>2. secret[k][i] \in Scopes \cup {None}
    BY <1>2 DEF KeyringOK
  <2>3. /\ r \in Request /\ r.pc = "save" /\ r.op = req[u].op /\ r.kind = k /\ r.id = i
        /\ r.config = req[u].config /\ r.update = req[u].update
        /\ r.touched = req[u].touched /\ r.old = secret[k][i]
    BY <1>2, <2>2 DEF Request, Steps, CreateSteps, UpdateSteps, WriteSteps
  <2>4. Knows(req[u]) /\ req[u] # Idle
    BY <1>1 DEF RequestsOK, Idle
  <2>5. Knows(r)
    BY <1>2, <2>3, <2>4 DEF Knows, CreateSteps, UpdateSteps, DeleteSteps, WriteSteps
  <2> HIDE DEF r
  <2>6. RequestsOK' /\ Others(u) /\ req'[u] = r
    BY <2>1, <2>3, <2>5, RequestStep
  <2> QED
    BY <1>1, <1>2, <1>3, <1>5, <2>1, <2>3, <2>6 DEF Keeps
<1> QED
  BY <1>4, <1>5

\* The keyring is not reached.
LEMMA SecretFailsStep ==
  ASSUME RequestsOK, SpentOK, NEW u \in Users, SecretFails(u)
  PROVE  /\ req[u].pc = "secret" /\ req[u].kind \in Kinds /\ Fails(u)
         /\ lock' = [lock EXCEPT ![req[u].kind] = None]
         /\ spent'.failures = spent.failures + 1 /\ spent'.crashes = spent.crashes
         /\ UNCHANGED <<alive, mem, file, secret, listed, policy, settings, loops, shown>>
<1>1. req[u].pc = "secret" /\ Fail(u)
  BY DEF SecretFails, At
<1> QED
  BY <1>1, FailStep, StepKnows DEF SecretFails, Release, CountFailure, SpentOK

\* Where a handler goes on once its list is saved.
LEMMA SaveStep ==
  ASSUME RequestsOK, NEW u \in Users, Save(u)
  PROVE  LET k == req[u].kind IN
         /\ req[u].pc = "save" /\ alive /\ k \in Kinds /\ req[u].id \in Ids
         /\ req[u].op \in {"create", "update", "delete"}
         /\ RequestsOK' /\ Others(u) /\ Keeps(u)
         /\ req[u].op = "delete" => req'[u].pc = "unlist"
         /\ req[u].op # "delete" => req'[u].pc \in {"policy", "refresh"}
         /\ lock' = [lock EXCEPT ![k] = None]
         /\ mem' = [mem EXCEPT ![k] = NextList(u)]
         /\ file' = [file EXCEPT ![k] = NextList(u)]
         /\ UNCHANGED <<alive, secret, listed, policy, settings, loops, shown, spent>>
<1> DEFINE next == AfterSave(u)
<1>1. req[u].pc = "save" /\ alive /\ GoTo(u, next)
  BY DEF Save, At
<1>2. /\ req[u].kind \in Kinds /\ req[u].id \in Ids
      /\ req[u].op \in {"create", "update", "delete"} /\ req[u].kind \in AllKinds
  BY <1>1, StepKnows, KindsAssumption DEF WriteSteps
<1>3. /\ req[u].op = "delete" => next = "unlist"
      /\ req[u].op # "delete" => next \in {"policy", "refresh"}
  BY <1>2 DEF AfterSave, CliAfterSave, HttpAfterSave, BalanceAfterSave, AllKinds
<1>4. next \in Steps
  BY <1>2, <1>3 DEF Steps, CreateSteps, UpdateSteps, DeleteSteps
<1>5. Goes(u, next)
  <2> HIDE DEF next
  <2> QED
    BY <1>1, <1>2, <1>3, <1>4, GoToStep DEF CreateSteps, UpdateSteps, DeleteSteps
<1> QED
  BY <1>1, <1>2, <1>3, <1>5 DEF Goes, Save, Release

\* A write fails: the file is what it was or, in place, torn.
LEMMA SaveFailsStep ==
  ASSUME RequestsOK, ListsOK, SpentOK, NEW u \in Users, SaveFails(u)
  PROVE  LET k == req[u].kind IN
         /\ req[u].pc = "save" /\ alive /\ k \in Kinds
         /\ RequestsOK' /\ Others(u)
         /\ \/ req[u].touched /\ Goes(u, "restore") /\ UNCHANGED lock
            \/ ~req[u].touched /\ Fails(u) /\ lock' = [lock EXCEPT ![k] = None]
         /\ \/ UNCHANGED file
            \/ k # "http" /\ file' = [file EXCEPT ![k] = Torn]
         /\ spent'.failures = spent.failures + 1 /\ spent'.crashes = spent.crashes
         /\ UNCHANGED <<alive, mem, secret, listed, policy, settings, loops, shown>>
<1> DEFINE k == req[u].kind
<1>1. /\ req[u].pc = "save" /\ alive
      /\ UNCHANGED <<alive, mem, secret, listed, policy, settings, loops, shown>>
  BY DEF SaveFails, At
<1>2. /\ k \in Kinds /\ k \in AllKinds /\ req[u].touched \in BOOLEAN
      /\ req[u].op \in {"create", "update", "delete"}
  BY <1>1, StepKnows, KindsAssumption DEF WriteSteps, Request
<1>3. spent'.failures = spent.failures + 1 /\ spent'.crashes = spent.crashes
  BY DEF SaveFails, CountFailure, SpentOK
<1>4. PICK left \in Leaves(k) : file' = [file EXCEPT ![k] = left]
  BY DEF SaveFails
<1>5. left = file[k] \/ (k # "http" /\ left = Torn)
  BY <1>2, <1>4 DEF Leaves, CliLeaves, HttpLeaves, BalanceLeaves, AllKinds
<1>6. UNCHANGED file \/ (k # "http" /\ file' = [file EXCEPT ![k] = Torn])
  BY <1>4, <1>5 DEF ListsOK
<1>7. CASE req[u].touched
  <2>1. GoTo(u, "restore") /\ UNCHANGED lock
    BY <1>7 DEF SaveFails
  <2>2. "restore" \in Steps /\ "restore" \in CreateSteps /\ "restore" \in UpdateSteps
        /\ "restore" \in DeleteSteps
    BY DEF Steps, CreateSteps, UpdateSteps, DeleteSteps, WriteSteps
  <2>3. Goes(u, "restore")
    BY <1>2, <2>1, <2>2, GoToStep
  <2> QED
    BY <1>1, <1>2, <1>3, <1>6, <1>7, <2>1, <2>3 DEF Goes
<1>8. CASE ~req[u].touched
  <2>1. Release(u) /\ Fail(u)
    BY <1>8 DEF SaveFails
  <2>2. Fails(u)
    BY <2>1, FailStep
  <2> QED
    BY <1>1, <1>2, <1>3, <1>6, <1>8, <2>1, <2>2 DEF Release, Fails, Ends, Goes
<1> QED
  BY <1>2, <1>7, <1>8

\* The old credential is put back, or the keyring fails again.
LEMMA RestoreStep ==
  ASSUME RequestsOK, SpentOK, KeyringOK, NEW u \in Users, Restore(u)
  PROVE  LET k == req[u].kind IN
         /\ req[u].pc = "restore" /\ k \in Kinds /\ req[u].id \in Ids
         /\ req[u].old \in Scopes \cup {None}
         /\ Fails(u) /\ RequestsOK' /\ Others(u)
         /\ lock' = [lock EXCEPT ![k] = None]
         /\ \/ secret' = [secret EXCEPT ![k][req[u].id] = req[u].old] /\ UNCHANGED spent
            \/ spent'.failures = spent.failures + 1 /\ UNCHANGED secret
         /\ spent'.crashes = spent.crashes
         /\ UNCHANGED <<alive, mem, file, listed, policy, settings, loops, shown>>
<1>1. req[u].pc = "restore" /\ Fail(u)
  BY DEF Restore, At
<1>2. Fails(u) /\ RequestsOK' /\ Others(u)
  BY <1>1, FailStep DEF Fails, Ends, Goes
<1>3. req[u].kind \in Kinds /\ req[u].id \in Ids /\ req[u].old \in Scopes \cup {None}
  BY <1>1, StepKnows DEF Request
<1> QED
  BY <1>1, <1>2, <1>3 DEF Restore, Release, CountFailure, SpentOK

\* The steps after the lock, and those of a policy: what a handler passes through.
Walks(u) ==
    \/ Unreserve(u) \/ ReadPolicy(u) \/ Register(u) \/ Refresh(u) \/ Unlist(u) \/ Withdraw(u)
    \/ SaveSettings(u) \/ SaveSettingsFails(u) \/ InsertPolicy(u) \/ ApplyPolicy(u)
    \/ Trigger(u)

\* A step of a handler.
Handles(u) ==
    \/ Asks(u) \/ Reserve(u) \/ Enters(u) \/ TouchSecret(u) \/ SecretFails(u)
    \/ Save(u) \/ SaveFails(u) \/ Restore(u) \/ Walks(u)

\* Where those steps lead.
Passes(u) ==
    \/ Ends(u) /\ req[u].pc \in {"unreserve", "refresh", "withdraw", "settings", "trigger"}
    \/ /\ RequestsOK' /\ Others(u) /\ Keeps(u)
       /\ \/ req[u].pc = "policy" /\ req'[u].pc = "register"
          \/ req[u].pc = "register" /\ req'[u].pc = "refresh"
          \/ req[u].pc = "unlist" /\ req'[u].pc = "withdraw"
          \/ req[u].pc = "settings" /\ req'[u].pc = "insert"
          \/ req[u].pc = "insert" /\ req'[u].pc = "apply"
          \/ req[u].pc = "apply" /\ req'[u].pc \in {"trigger", "withdraw"}

\* register_source has read the policy.
LEMMA ReadPolicyStep ==
  ASSUME RequestsOK, PolicyOK, NEW u \in Users, ReadPolicy(u)
  PROVE  Passes(u) /\ req[u].pc = "policy" /\ req'[u].pc = "register"
<1> DEFINE on == Effective(req[u].id, req[u].config.on)
           r == [req[u] EXCEPT !.pc = "register", !.on = on]
<1>1. req[u].pc = "policy" /\ req' = [req EXCEPT ![u] = r]
  BY DEF ReadPolicy, At
<1>2. /\ req[u] \in Request /\ Knows(req[u]) /\ req[u] # Idle
      /\ req[u].op \in {"create", "update"} /\ req[u].config \in ConfigsOf(req[u].kind)
  BY <1>1, StepKnows DEF RequestsOK, Idle
<1>3. on \in BOOLEAN
  BY <1>2, AcceptedTyped, ConfigTyped DEF Effective
<1> HIDE DEF on
<1>7. "register" \in Steps
  BY DEF Steps, CreateSteps, UpdateSteps
<1>4. /\ r \in Request /\ r.pc = "register" /\ r.op = req[u].op /\ r.kind = req[u].kind
      /\ r.id = req[u].id /\ r.config = req[u].config /\ r.update = req[u].update
  BY <1>2, <1>3, <1>7 DEF Request
<1>5. Knows(r)
  BY <1>2, <1>4 DEF Knows, CreateSteps, UpdateSteps
<1> HIDE DEF r
<1>6. RequestsOK' /\ Others(u) /\ req'[u] = r
  BY <1>1, <1>4, <1>5, RequestStep
<1> QED
  BY <1>1, <1>4, <1>6 DEF Passes, Keeps

\* A step after the lock, or of a policy, leaves lists and credentials alone.
LEMMA WalkStep ==
  ASSUME RequestsOK, PolicyOK, SpentOK, NEW u \in Users, Walks(u)
  PROVE  /\ Passes(u) /\ RequestsOK' /\ Others(u) /\ alive
         /\ UNCHANGED <<alive, stores, secret, greet, job>>
         /\ spent'.crashes = spent.crashes
         /\ spent'.failures \in {spent.failures, spent.failures + 1}
<1>1. UNCHANGED <<alive, stores, secret, greet, job>> /\ alive
  BY DEF Walks, At, Unreserve, ReadPolicy, Register, Refresh, Unlist, Withdraw, SaveSettings,
     SaveSettingsFails, InsertPolicy, ApplyPolicy, Trigger, stores, loops
<1>2. /\ spent'.crashes = spent.crashes
      /\ spent'.failures \in {spent.failures, spent.failures + 1}
  BY DEF Walks, Unreserve, ReadPolicy, Register, Refresh, Unlist, Withdraw, SaveSettings,
     SaveSettingsFails, InsertPolicy, ApplyPolicy, Trigger, CountFailure, SpentOK
<1>3. CASE ReadPolicy(u)
  BY <1>1, <1>2, <1>3, ReadPolicyStep DEF Passes, Ends
<1>4. ASSUME Unreserve(u) \/ Refresh(u) \/ Withdraw(u) \/ SaveSettingsFails(u) \/ Trigger(u)
      PROVE  Passes(u)
  <2>1. Done(u) /\ req[u].pc \in {"unreserve", "refresh", "withdraw", "settings", "trigger"}
    BY <1>4 DEF Unreserve, Refresh, Withdraw, SaveSettingsFails, Trigger, At
  <2> QED
    BY <2>1, DoneStep DEF Passes
<1>5. ASSUME NEW pc \in Steps, GoTo(u, pc),
             \/ req[u].pc = "register" /\ pc = "refresh"
             \/ req[u].pc = "unlist" /\ pc = "withdraw"
             \/ req[u].pc = "settings" /\ pc = "insert"
             \/ req[u].pc = "insert" /\ pc = "apply"
             \/ req[u].pc = "apply" /\ pc \in {"trigger", "withdraw"}
      PROVE  Passes(u)
  <2>1. \/ req[u].op = "create" /\ pc \in CreateSteps
        \/ req[u].op = "update" /\ pc \in UpdateSteps
        \/ req[u].op = "delete" /\ pc \in DeleteSteps
        \/ req[u].op = "toggle" /\ pc \in ToggleSteps
    BY <1>5, StepKnows DEF CreateSteps, UpdateSteps, DeleteSteps, ToggleSteps
  <2>2. Goes(u, pc)
    BY <1>5, <2>1, GoToStep
  <2> QED
    BY <1>5, <2>2 DEF Passes, Goes
<1>6. {"refresh", "withdraw", "insert", "apply", "trigger"} \subseteq Steps
  BY DEF Steps, CreateSteps, UpdateSteps, DeleteSteps, ToggleSteps
<1>7. ASSUME Register(u) PROVE Passes(u)
  BY <1>5, <1>6, <1>7 DEF Register, At
<1>8. ASSUME Unlist(u) PROVE Passes(u)
  BY <1>5, <1>6, <1>8 DEF Unlist, At
<1>9. ASSUME SaveSettings(u) PROVE Passes(u)
  BY <1>5, <1>6, <1>9 DEF SaveSettings, At
<1>10. ASSUME InsertPolicy(u) PROVE Passes(u)
  BY <1>5, <1>6, <1>10 DEF InsertPolicy, At
<1>11. ASSUME ApplyPolicy(u) PROVE Passes(u)
  <2> DEFINE pc == IF req[u].on THEN "trigger" ELSE "withdraw"
  <2>1. req[u].pc = "apply" /\ GoTo(u, pc)
    BY <1>11 DEF ApplyPolicy, At
  <2>2. pc \in Steps /\ pc \in {"trigger", "withdraw"}
    BY <1>6
  <2> HIDE DEF pc
  <2> QED
    BY <1>5, <2>1, <2>2
<1>12. Passes(u) => RequestsOK' /\ Others(u)
  BY DEF Passes, Ends
<1> QED
  BY <1>1, <1>2, <1>3, <1>4, <1>7, <1>8, <1>9, <1>10, <1>11, <1>12 DEF Walks

-----------------------------------------------------------------------------
(* The run loops and their collections. *)

\* A run loop begins, and goes on with, the collection of a source.
Begins(k) ==
    \/ TakeTrigger(k) \/ TakeAll(k)
    \/ k = "http" /\ HttpDue
    \/ k = "balance" /\ BalanceDue

Checks(k, i) ==
    \/ k = "cli" /\ CliCheck(i)
    \/ k = "http" /\ HttpCheck(i)
    \/ k = "balance" /\ BalanceCheck(i)

Stops(k, i) == (k = "cli" /\ CliStop(i)) \/ (k = "http" /\ (HttpStop(i) \/ HttpRelist(i)))

Collecting(k, i) ==
    \/ Checks(k, i) \/ ReadSecret(k, i) \/ Collect(k, i) \/ SetReady(k, i)
    \/ PublishStatus(k, i) \/ Stops(k, i)

\* The collections that begin work with what is in memory.
LEMMA BeginStep ==
  ASSUME ListsOK, LoopsOK, NEW k \in Kinds, Begins(k)
  PROVE  /\ alive /\ lock[k] = None /\ \A i \in Ids : job[k][i] = None
         /\ LoopsOK'
         /\ \A l \in Kinds \ {k} : job'[l] = job[l] /\ queue'[l] = queue[l]
         /\ \A i \in Ids : job'[k][i] # None =>
               mem[k][i] # None /\ job'[k][i] = Job("check", mem[k][i], FALSE)
         /\ \/ UNCHANGED queue
            \/ /\ queue[k] # <<>> /\ Head(queue[k]) \in Ids /\ queue'[k] = Tail(queue[k])
               /\ mem[k][Head(queue[k])] # None => job'[k][Head(queue[k])] # None
         /\ UNCHANGED <<alive, stores, secret, listed, policy, settings, req, greet, shown,
                        spent>>
<1> DEFINE jobs(S) == [i \in Ids |->
              IF i \in S /\ mem[k][i] # None THEN Job("check", mem[k][i], FALSE) ELSE None]
<1>1. /\ alive /\ lock[k] = None /\ \A i \in Ids : job[k][i] = None
      /\ UNCHANGED <<alive, stores, secret, listed, policy, settings, req, greet, shown,
                     spent>>
  BY DEF Begins, TakeTrigger, TakeAll, HttpDue, BalanceDue, Loop, Resting, Unlocked
<1>2. \A c \in Configs : Job("check", c, FALSE) \in Collection
  BY DEF Job, Collection, JobStages
<1>3. \A i \in Ids : mem[k][i] \in Configs \cup {None}
  BY DEF ListsOK, Lists
<1>4. \A S : jobs(S) \in [Ids -> Collection \cup {None}]
  BY <1>2, <1>3
<1>5. \A S : \A i \in Ids :
        /\ jobs(S)[i] # None =>
              mem[k][i] # None /\ jobs(S)[i] = Job("check", mem[k][i], FALSE)
        /\ i \in S /\ mem[k][i] # None => jobs(S)[i] # None
  BY <1>2, <1>3, ValuesAssumption
<1>6. ASSUME NEW S, Begin(k, S), UNCHANGED <<greet, queue>>
      PROVE  /\ LoopsOK'
             /\ \A l \in Kinds \ {k} : job'[l] = job[l]
             /\ \A i \in Ids : job'[k][i] # None =>
                   mem[k][i] # None /\ job'[k][i] = Job("check", mem[k][i], FALSE)
  <2>1. job' = [job EXCEPT ![k] = jobs(S)]
    BY <1>6 DEF Begin
  <2> HIDE DEF jobs
  <2> QED
    BY <1>4, <1>5, <1>6, <2>1 DEF LoopsOK
<1>7. CASE TakeTrigger(k)
  <2> DEFINE i == Head(queue[k])
  <2>1. /\ queue[k] # <<>> /\ Begin(k, {i}) /\ queue' = [queue EXCEPT ![k] = Tail(queue[k])]
        /\ UNCHANGED greet
    BY <1>7 DEF TakeTrigger, Loop
  <2>2. queue[k] \in Seq(Ids) /\ Len(queue[k]) <= TriggerCap
    BY DEF LoopsOK
  <2>3. i \in Ids /\ Tail(queue[k]) \in Seq(Ids)
    BY <2>1, <2>2, ReceiveCarries
  <2>4. Len(Tail(queue[k])) <= TriggerCap
    BY <2>1, <2>2, Bounds, HeadTailProperties, LenProperties
  <2>5. job' = [job EXCEPT ![k] = jobs({i})]
    BY <2>1 DEF Begin
  <2> HIDE DEF jobs
  <2>6. /\ \A l \in Kinds \ {k} : job'[l] = job[l] /\ queue'[l] = queue[l]
        /\ job'[k] = jobs({i}) /\ queue'[k] = Tail(queue[k])
        /\ job' \in [Kinds -> [Ids -> Collection \cup {None}]]
        /\ queue' \in [Kinds -> Seq(Ids)]
    BY <1>4, <2>1, <2>3, <2>5 DEF LoopsOK
  <2>7. LoopsOK'
    BY <2>1, <2>4, <2>6 DEF LoopsOK
  <2> HIDE DEF i
  <2>8. /\ \A n \in Ids : jobs({i})[n] # None =>
              mem[k][n] # None /\ jobs({i})[n] = Job("check", mem[k][n], FALSE)
        /\ mem[k][i] # None => jobs({i})[i] # None
    BY <1>5, <2>3
  <2> QED
    BY <1>1, <2>1, <2>3, <2>6, <2>7, <2>8 DEF i, Job
<1>8. CASE ~TakeTrigger(k)
  <2>1. (\E S : Begin(k, S)) /\ UNCHANGED <<greet, queue>>
    BY <1>8 DEF Begins, TakeAll, HttpDue, BalanceDue, Loop
  <2>2. PICK S : Begin(k, S)
    BY <2>1
  <2> QED
    BY <1>1, <1>6, <2>1, <2>2
<1> QED
  BY <1>7, <1>8

\* The snapshot keeps its sources, and which of them run.
SameRuns ==
    \A n \in Ids : /\ listed'[n] # None <=> listed[n] # None
                   /\ listed[n] # None => listed'[n].on = listed[n].on

\* An update of a source in the snapshot keeps whether it is there and runs.
LEMMA TouchSource ==
  ASSUME SnapshotOK, NEW i \in Ids, NEW due \in BOOLEAN, Touch(i, due)
  PROVE  SnapshotOK' /\ SameRuns
<1> DEFINE e == [listed[i] EXCEPT !.due = listed[i].on /\ due]
<1>1. CASE listed[i] = None
  BY <1>1 DEF Touch, SnapshotOK, SameRuns
<1>2. CASE listed[i] # None
  <2>1. listed[i] \in Entry
    BY <1>2 DEF SnapshotOK
  <2>2. e \in Entry /\ e.on = listed[i].on
    BY <2>1 DEF Entry
  <2>3. e # None
    BY <2>2, ValuesAssumption
  <2>4. listed' = [listed EXCEPT ![i] = e]
    BY <1>2 DEF Touch
  <2> HIDE DEF e
  <2>5. listed'[i] = e /\ \A n \in Ids \ {i} : listed'[n] = listed[n]
    BY <2>4 DEF SnapshotOK
  <2>6. SnapshotOK'
    BY <2>2, <2>4 DEF SnapshotOK
  <2> QED
    BY <1>2, <2>2, <2>3, <2>5, <2>6 DEF SameRuns
<1> QED
  BY <1>1, <1>2

\* How the collection of source i of type k goes on: a stage further with the same
\* configuration, or it is over.
Further(k, i, at) ==
    /\ job'[k][i] \in Collection
    /\ job'[k][i].at = at /\ job'[k][i].config = job[k][i].config

Over(k, i) == job'[k][i] = None

\* A collection ends, or goes a stage further, and leaves the others alone.
LEMMA StageStep ==
  ASSUME LoopsOK, NEW k \in Kinds, NEW i \in Ids, job[k][i] # None, UNCHANGED <<greet, queue>>
  PROVE  /\ Finish(k, i) =>
               /\ Over(k, i) /\ LoopsOK'
               /\ \A l \in Kinds, n \in Ids : <<l, n>> # <<k, i>> => job'[l][n] = job[l][n]
         /\ \A at \in JobStages : Stage(k, i, at) =>
               /\ Further(k, i, at) /\ LoopsOK'
               /\ \A l \in Kinds, n \in Ids : <<l, n>> # <<k, i>> => job'[l][n] = job[l][n]
<1>1. job[k][i] \in Collection
  BY DEF LoopsOK
<1>2. ASSUME NEW j \in Collection \cup {None}, job' = [job EXCEPT ![k] = [job[k] EXCEPT ![i] = j]]
      PROVE  /\ job'[k][i] = j /\ LoopsOK'
             /\ \A l \in Kinds, n \in Ids : <<l, n>> # <<k, i>> => job'[l][n] = job[l][n]
  BY <1>2 DEF LoopsOK
<1>3. ASSUME Finish(k, i)
      PROVE  /\ Over(k, i) /\ LoopsOK'
             /\ \A l \in Kinds, n \in Ids : <<l, n>> # <<k, i>> => job'[l][n] = job[l][n]
  BY <1>2, <1>3 DEF Finish, Over
<1>4. ASSUME NEW at \in JobStages, Stage(k, i, at)
      PROVE  /\ Further(k, i, at) /\ LoopsOK'
             /\ \A l \in Kinds, n \in Ids : <<l, n>> # <<k, i>> => job'[l][n] = job[l][n]
  <2> DEFINE j == [job[k][i] EXCEPT !.at = at]
  <2>1. j \in Collection /\ j.at = at /\ j.config = job[k][i].config
    BY <1>1 DEF Collection
  <2>2. job' = [job EXCEPT ![k] = [job[k] EXCEPT ![i] = j]]
    BY <1>4 DEF Stage, LoopsOK
  <2> HIDE DEF j
  <2> QED
    BY <1>2, <2>1, <2>2 DEF Further
<1> QED
  BY <1>3, <1>4

\* What a step of a collection may do.
Progress(k, i) == LET c == job[k][i].config IN
    \/ /\ job[k][i].at = "check" /\ UNCHANGED shown
       /\ \/ Further(k, i, "run") \/ Further(k, i, "secret") \/ Further(k, i, "status")
          \/ k = "balance" /\ ~Runs(i) /\ Over(k, i)
    \/ /\ job[k][i].at = "secret" /\ UNCHANGED shown
       /\ \/ Further(k, i, "run")
          \/ Over(k, i) /\ c.auth /\ secret[k][i] = None
          \/ Over(k, i) /\ spent'.failures > 0
    \/ /\ job[k][i].at = "run"
       /\ \/ shown' = [shown EXCEPT ![k][i] = c.scope] /\ Further(k, i, "ready")
          \/ UNCHANGED shown /\ Over(k, i) /\ spent'.failures > 0
    \/ job[k][i].at = "ready" /\ UNCHANGED shown /\ Over(k, i)
    \/ /\ job[k][i].at = "status" /\ Further(k, i, "stop")
       /\ shown' = [shown EXCEPT ![k][i] = Unavailable]
    \/ /\ job[k][i].at \in {"stop", "relist"} /\ UNCHANGED shown /\ k # "balance"
       /\ Over(k, i) \/ Further(k, i, "relist")

\* What each step of a collection does.
LEMMA CollectingStep ==
  ASSUME LoopsOK, SnapshotOK, PolicyOK, SpentOK, NEW k \in Kinds, NEW i \in Ids,
         Collecting(k, i)
  PROVE  /\ alive /\ job[k][i] \in Collection /\ LoopsOK' /\ SnapshotOK'
         /\ \A l \in Kinds, n \in Ids : <<l, n>> # <<k, i>> => job'[l][n] = job[l][n]
         /\ Progress(k, i)
         /\ \A n \in Ids : listed[n] # None => listed'[n] # None
         /\ SameRuns \/ k = "http"
         /\ spent'.crashes = spent.crashes
         /\ spent'.failures \in {spent.failures, spent.failures + 1}
         /\ UNCHANGED <<alive, stores, secret, policy, settings, req, greet, queue>>
<1> DEFINE Elsewhere ==
             \A l \in Kinds, n \in Ids : <<l, n>> # <<k, i>> => job'[l][n] = job[l][n]
           Result == /\ LoopsOK' /\ SnapshotOK' /\ Elsewhere /\ Progress(k, i)
                     /\ \A n \in Ids : listed[n] # None => listed'[n] # None
                     /\ SameRuns \/ k = "http"
<1>1. /\ alive /\ job[k][i] # None
      /\ UNCHANGED <<alive, stores, secret, policy, settings, req, greet, queue>>
  BY DEF Collecting, Checks, Stops, CliCheck, HttpCheck, BalanceCheck, ReadSecret, Collect,
     SetReady, PublishStatus, CliStop, HttpStop, HttpRelist, Collects
<1>2. /\ spent'.crashes = spent.crashes
      /\ spent'.failures \in {spent.failures, spent.failures + 1}
  BY DEF Collecting, Checks, Stops, CliCheck, HttpCheck, BalanceCheck, ReadSecret, Collect,
     SetReady, PublishStatus, CliStop, HttpStop, HttpRelist, CountFailure, SpentOK
<1>3. job[k][i] \in Collection
  BY <1>1 DEF LoopsOK
<1>4. ASSUME Finish(k, i) PROVE Over(k, i) /\ LoopsOK' /\ Elsewhere
  BY <1>1, <1>4, StageStep
<1>5. ASSUME NEW at \in JobStages, Stage(k, i, at)
      PROVE  Further(k, i, at) /\ LoopsOK' /\ Elsewhere
  BY <1>1, <1>5, StageStep
<1>6. UNCHANGED listed => SnapshotOK' /\ SameRuns
  BY DEF SnapshotOK, SameRuns
<1>7. \A due \in BOOLEAN : Touch(i, due) => SnapshotOK' /\ SameRuns
  BY TouchSource
<1>8. SameRuns => \A n \in Ids : listed[n] # None => listed'[n] # None
  BY DEF SameRuns
<1>9. CountFailure => spent'.failures > 0
  BY DEF CountFailure, SpentOK
<1> HIDE DEF Elsewhere
<1>10. ASSUME Checks(k, i) PROVE Result
  <2>1. job[k][i].at = "check" /\ UNCHANGED shown
    BY <1>10 DEF Checks, CliCheck, HttpCheck, BalanceCheck, Collects
  <2>2. \/ /\ UNCHANGED listed
           /\ Stage(k, i, "run") \/ Stage(k, i, "secret") \/ Stage(k, i, "status")
        \/ k = "balance" /\ ~Runs(i) /\ Finish(k, i) /\ Touch(i, FALSE)
    BY <1>10 DEF Checks, CliCheck, HttpCheck, BalanceCheck, Stage
  <2>3. {"run", "secret", "status"} \subseteq JobStages
    BY DEF JobStages
  <2> QED
    BY <1>4, <1>5, <1>6, <1>7, <1>8, <2>1, <2>2, <2>3 DEF Progress
<1>11. ASSUME ReadSecret(k, i) PROVE Result
  <2>1. job[k][i].at = "secret" /\ UNCHANGED shown
    BY <1>11 DEF ReadSecret, Collects
  <2>2. \/ UNCHANGED listed /\ Stage(k, i, "run")
        \/ /\ Finish(k, i) /\ Touch(i, TRUE)
           /\ \/ job[k][i].config.auth /\ secret[k][i] = None
              \/ CountFailure
    BY <1>11 DEF ReadSecret, CollectFails
  <2>3. "run" \in JobStages
    BY DEF JobStages
  <2> QED
    BY <1>4, <1>5, <1>6, <1>7, <1>8, <1>9, <2>1, <2>2, <2>3 DEF Progress
<1>12. ASSUME Collect(k, i) PROVE Result
  <2>1. job[k][i].at = "run"
    BY <1>12 DEF Collect, Collects
  <2>2. \/ /\ UNCHANGED listed /\ Stage(k, i, "ready")
           /\ shown' = [shown EXCEPT ![k][i] = job[k][i].config.scope]
        \/ Finish(k, i) /\ Touch(i, TRUE) /\ UNCHANGED shown /\ CountFailure
    BY <1>12 DEF Collect, CollectFails
  <2>3. "ready" \in JobStages
    BY DEF JobStages
  <2> QED
    BY <1>4, <1>5, <1>6, <1>7, <1>8, <1>9, <2>1, <2>2, <2>3 DEF Progress
<1>13. ASSUME SetReady(k, i) PROVE Result
  <2>1. job[k][i].at = "ready" /\ UNCHANGED shown /\ Finish(k, i) /\ Touch(i, TRUE)
    BY <1>13 DEF SetReady, Collects
  <2> QED
    BY <1>4, <1>7, <1>8, <2>1 DEF Progress
<1>14. ASSUME PublishStatus(k, i) PROVE Result
  <2>1. /\ job[k][i].at = "status" /\ UNCHANGED listed /\ Stage(k, i, "stop")
        /\ shown' = [shown EXCEPT ![k][i] = Unavailable]
    BY <1>14 DEF PublishStatus, Collects
  <2>2. "stop" \in JobStages
    BY DEF JobStages
  <2> QED
    BY <1>5, <1>6, <1>8, <2>1, <2>2 DEF Progress
<1>15. ASSUME k = "cli", CliStop(i) PROVE Result
  <2>1. job[k][i].at = "stop" /\ UNCHANGED shown /\ Finish(k, i) /\ Touch(i, FALSE)
    BY <1>15 DEF CliStop, Collects
  <2> QED
    BY <1>4, <1>7, <1>8, <1>15, <2>1 DEF Progress
<1>16. ASSUME k = "http", HttpStop(i) PROVE Result
  <2> DEFINE on == Effective(i, job[k][i].config.on)
             j == Job("relist", job[k][i].config, on)
  <2>1. /\ job[k][i].at = "stop" /\ UNCHANGED <<listed, shown>>
        /\ job' = [job EXCEPT ![k][i] = j]
    BY <1>16 DEF HttpStop, Collects
  <2>2. on \in BOOLEAN
    BY <1>3, ConfigTyped DEF Effective, Collection
  <2> HIDE DEF on
  <2>3. j \in Collection /\ j.at = "relist" /\ j.config = job[k][i].config
    BY <1>3, <2>2 DEF Job, Collection, JobStages
  <2> HIDE DEF j
  <2>4. Further(k, i, "relist") /\ LoopsOK' /\ Elsewhere
    BY <1>1, <2>1, <2>3 DEF Further, LoopsOK, Elsewhere
  <2> QED
    BY <1>6, <1>8, <1>16, <2>1, <2>4 DEF Progress
<1>17. ASSUME k = "http", HttpRelist(i) PROVE Result
  <2> DEFINE s == Status("http", job[k][i].config, FALSE, job[k][i].on)
             e == [s EXCEPT !.due = FALSE]
  <2>1. /\ job[k][i].at = "relist" /\ UNCHANGED shown /\ Finish(k, i)
        /\ listed' = [listed EXCEPT ![i] = e]
    BY <1>17 DEF HttpRelist, Collects
  <2>2. s \in Entry
    BY <1>3, <1>17, StatusTyped DEF Collection
  <2> HIDE DEF s
  <2>3. e \in Entry /\ e # None
    <3>1. e \in Entry
      BY <2>2 DEF Entry
    <3> QED
      BY <3>1, ValuesAssumption
  <2> HIDE DEF e
  <2>4. SnapshotOK' /\ \A n \in Ids : listed[n] # None => listed'[n] # None
    BY <2>1, <2>3 DEF SnapshotOK
  <2> QED
    BY <1>4, <1>17, <2>1, <2>4 DEF Progress
<1>18. Result
  BY <1>10, <1>11, <1>12, <1>13, <1>14, <1>15, <1>16, <1>17 DEF Collecting, Stops
<1> QED
  BY <1>1, <1>2, <1>3, <1>18 DEF Elsewhere

\* A type lists a source that it has loaded.
LEMMA GreetStep ==
  ASSUME ListsOK, LoopsOK, SnapshotOK, PolicyOK, GreetInv, NEW k \in Kinds, NEW i \in Ids,
         Greet(k, i)
  PROVE  /\ alive /\ i \in greet[k] /\ LoopsOK' /\ SnapshotOK'
         /\ greet' = [greet EXCEPT ![k] = greet[k] \ {i}]
         /\ listed'[i] # None /\ \A n \in Ids \ {i} : listed'[n] = listed[n]
         /\ UNCHANGED <<alive, stores, secret, policy, settings, req, job, queue, shown,
                        spent>>
<1>1. /\ alive /\ i \in greet[k] /\ greet' = [greet EXCEPT ![k] = greet[k] \ {i}]
      /\ UNCHANGED <<alive, stores, secret, policy, settings, req, job, queue, shown, spent>>
  BY DEF Greet
<1>2. mem[k][i] \in Configs
  BY <1>1 DEF GreetInv, ListsOK, Lists
<1>3. Effective(i, mem[k][i].on) \in BOOLEAN
  BY <1>2, ConfigTyped DEF Effective
<1>4. PICK ready \in BOOLEAN :
        listed' = [listed EXCEPT ![i] =
                      Status(k, mem[k][i], ready, Effective(i, mem[k][i].on))]
  BY DEF Greet
<1>5. /\ Status(k, mem[k][i], ready, Effective(i, mem[k][i].on)) \in Entry
      /\ Status(k, mem[k][i], ready, Effective(i, mem[k][i].on)) # None
  BY <1>2, <1>3, StatusTyped
<1>6. SnapshotOK' /\ listed'[i] # None /\ \A n \in Ids \ {i} : listed'[n] = listed[n]
  BY <1>4, <1>5 DEF SnapshotOK
<1>7. LoopsOK'
  BY <1>1 DEF LoopsOK
<1> QED
  BY <1>1, <1>6, <1>7

-----------------------------------------------------------------------------
(* The steps of the Agent. *)

\* Every step is a handler's, a run loop's, a collection's, or the end of the process.
LEMMA NextSteps ==
  ASSUME [Next]_vars
  PROVE  \/ UNCHANGED vars
         \/ \E u \in Users : Handles(u)
         \/ \E k \in Kinds : Begins(k)
         \/ \E k \in Kinds, i \in Ids : Greet(k, i) \/ Collecting(k, i)
         \/ Crash
<1>1. ASSUME NEW u \in Users, Handler(u) PROVE Handles(u)
  BY <1>1 DEF Handler, Handles, Asks, Enters, Walks
<1>2. ASSUME CliLoop \/ HttpLoop \/ BalanceLoop
      PROVE  \E k \in Kinds : Begins(k) \/ \E i \in Ids : Greet(k, i)
  <2>1. ASSUME CliLoop PROVE "cli" \in Kinds /\ (Begins("cli") \/ \E i \in Ids : Greet("cli", i))
    BY <2>1 DEF CliLoop, RunLoop, Begins
  <2>2. ASSUME HttpLoop
        PROVE  "http" \in Kinds /\ (Begins("http") \/ \E i \in Ids : Greet("http", i))
    BY <2>2 DEF HttpLoop, RunLoop, Begins
  <2>3. ASSUME BalanceLoop
        PROVE  "balance" \in Kinds /\ (Begins("balance") \/ \E i \in Ids : Greet("balance", i))
    BY <2>3 DEF BalanceLoop, RunLoop, Begins
  <2> QED
    BY <1>2, <2>1, <2>2, <2>3
<1>3. ASSUME NEW i \in Ids, CliCollection(i) \/ HttpCollection(i) \/ BalanceCollection(i)
      PROVE  \E k \in Kinds : Collecting(k, i)
  <2>1. ASSUME CliCollection(i) PROVE "cli" \in Kinds /\ Collecting("cli", i)
    BY <2>1 DEF CliCollection, Collecting, Checks, Stops
  <2>2. ASSUME HttpCollection(i) PROVE "http" \in Kinds /\ Collecting("http", i)
    BY <2>2 DEF HttpCollection, Collecting, Checks, Stops
  <2>3. ASSUME BalanceCollection(i) PROVE "balance" \in Kinds /\ Collecting("balance", i)
    BY <2>3 DEF BalanceCollection, Collecting, Checks, Stops
  <2> QED
    BY <1>3, <2>1, <2>2, <2>3
<1> QED
  BY <1>1, <1>2, <1>3 DEF Next

\* What the steps after the lock, and those of a policy, do to the snapshot, the queues
\* and what is shown.
LEMMA WalkListed ==
  ASSUME RequestsOK, SnapshotOK, PolicyOK, NEW u \in Users, Walks(u)
  PROVE  LET r == req[u] IN
         /\ SnapshotOK'
         /\ r.pc \in {"unreserve", "unlist"} =>
               listed'[r.id] = None /\ \A n \in Ids \ {r.id} : listed'[n] = listed[n]
         /\ r.pc \notin {"unreserve", "unlist"} =>
               \A n \in Ids : listed[n] # None => listed'[n] # None
         /\ \A n \in Ids : listed'[n] # None /\ listed'[n].on =>
               \/ Runs(n)
               \/ n = r.id /\ req'[u].pc \in {"refresh", "trigger"}
<1> DEFINE r == req[u]
           Result ==
             /\ SnapshotOK'
             /\ r.pc \in {"unreserve", "unlist"} =>
                   listed'[r.id] = None /\ \A n \in Ids \ {r.id} : listed'[n] = listed[n]
             /\ r.pc \notin {"unreserve", "unlist"} =>
                   \A n \in Ids : listed[n] # None => listed'[n] # None
             /\ \A n \in Ids : listed'[n] # None /\ listed'[n].on =>
                   \/ Runs(n)
                   \/ n = r.id /\ req'[u].pc \in {"refresh", "trigger"}
<1>1. ASSUME UNCHANGED listed, r.pc \notin {"unreserve", "unlist"} PROVE Result
  BY <1>1 DEF SnapshotOK, Runs
<1>2. ASSUME Unreserve(u) \/ Unlist(u) PROVE Result
  <2>1. r.pc \in {"unreserve", "unlist"} /\ listed' = [listed EXCEPT ![r.id] = None]
    BY <1>2 DEF Unreserve, Unlist, At
  <2>2. r.id \in Ids
    BY <2>1, StepKnows
  <2> QED
    BY <2>1, <2>2 DEF SnapshotOK, Runs
<1>3. ASSUME Register(u) PROVE Result
  <2> DEFINE e == Status(r.kind, r.config, Ready(r), r.on)
  <2>1. r.pc = "register" /\ listed' = [listed EXCEPT ![r.id] = e] /\ GoTo(u, "refresh")
    BY <1>3 DEF Register, At
  <2>2. /\ r.kind \in Kinds /\ r.id \in Ids /\ r.config \in ConfigsOf(r.kind)
        /\ r.on \in BOOLEAN
    BY <2>1, StepKnows DEF Request
  <2>3. r.config \in Configs /\ Ready(r) \in BOOLEAN
    BY <2>2, AcceptedTyped DEF Ready
  <2>4. e \in Entry /\ e # None
    BY <2>2, <2>3, StatusTyped
  <2>5. req'[u].pc = "refresh"
    BY <2>1 DEF GoTo, RequestsOK, Request
  <2> HIDE DEF e
  <2> QED
    BY <2>1, <2>2, <2>4, <2>5 DEF SnapshotOK, Runs
<1>4. ASSUME ApplyPolicy(u) PROVE Result
  <2> DEFINE e == [listed[r.id] EXCEPT !.on = r.on, !.due = listed[r.id].due /\ r.on]
  <2>1. /\ r.pc = "apply" /\ GoTo(u, IF r.on THEN "trigger" ELSE "withdraw")
        /\ listed' = [listed EXCEPT ![r.id] = IF listed[r.id] = None THEN None ELSE e]
    BY <1>4 DEF ApplyPolicy, At
  <2>2. r.id \in Ids /\ r.on \in BOOLEAN
    BY <2>1, StepKnows DEF Request
  <2>3. r.on => req'[u].pc = "trigger"
    BY <2>1 DEF GoTo, RequestsOK, Request
  <2>4. CASE listed[r.id] = None
    BY <1>1, <2>1, <2>4 DEF SnapshotOK
  <2>5. CASE listed[r.id] # None
    <3>1. listed[r.id] \in Entry
      BY <2>2, <2>5 DEF SnapshotOK
    <3>2. e \in Entry /\ e.on = r.on
      BY <2>2, <3>1 DEF Entry
    <3>3. e # None
      BY <3>2, ValuesAssumption
    <3> HIDE DEF e
    <3>4. listed'[r.id] = e /\ \A n \in Ids \ {r.id} : listed'[n] = listed[n]
      BY <2>1, <2>2, <2>5 DEF SnapshotOK
    <3>5. SnapshotOK'
      BY <2>1, <2>5, <3>2 DEF SnapshotOK
    <3> QED
      BY <2>1, <2>2, <2>3, <3>2, <3>3, <3>4, <3>5 DEF Runs
  <2> QED
    BY <2>4, <2>5
<1>5. ASSUME \/ ReadPolicy(u) \/ Refresh(u) \/ Withdraw(u) \/ SaveSettings(u)
             \/ SaveSettingsFails(u) \/ InsertPolicy(u) \/ Trigger(u)
      PROVE  Result
  <2>1. UNCHANGED listed /\ r.pc \notin {"unreserve", "unlist"}
    BY <1>5 DEF ReadPolicy, Refresh, Withdraw, SaveSettings, SaveSettingsFails, InsertPolicy,
       Trigger, At
  <2> QED
    BY <1>1, <2>1
<1> QED
  BY <1>2, <1>3, <1>4, <1>5 DEF Walks

\* A source that is put into a queue.
LEMMA EnqueueStep ==
  ASSUME LoopsOK, NEW k \in Kinds, NEW i \in Ids, Enqueue(k, i), UNCHANGED <<greet, job>>
  PROVE  /\ LoopsOK' /\ i \in Range(queue'[k])
         /\ \A l \in Kinds : Range(queue[l]) \subseteq Range(queue'[l])
<1>1. /\ Len(queue[k]) < TriggerCap /\ queue' = [queue EXCEPT ![k] = Append(queue[k], i)]
      /\ queue[k] \in Seq(Ids)
  BY DEF Enqueue, LoopsOK
<1>2. /\ Append(queue[k], i) \in Seq(Ids)
      /\ Range(Append(queue[k], i)) = Range(queue[k]) \cup {i}
  BY <1>1, SendCarries
<1>3. Len(Append(queue[k], i)) <= TriggerCap
  BY <1>1, Bounds, AppendProperties, LenProperties
<1>4. queue'[k] = Append(queue[k], i) /\ \A l \in Kinds \ {k} : queue'[l] = queue[l]
  BY <1>1 DEF LoopsOK
<1>5. LoopsOK'
  BY <1>1, <1>2, <1>3, <1>4 DEF LoopsOK
<1> QED
  BY <1>2, <1>4, <1>5

\* What those steps do to the queues and to what is shown.
LEMMA WalkQueued ==
  ASSUME RequestsOK, LoopsOK, ShownOK, NEW u \in Users, Walks(u)
  PROVE  LET r == req[u] IN
         /\ LoopsOK' /\ ShownOK'
         /\ UNCHANGED shown \/ shown' = [shown EXCEPT ![r.kind][r.id] = None]
         /\ \A l \in Kinds : Range(queue[l]) \subseteq Range(queue'[l])
         /\ r.pc = "refresh" =>
               mem[r.kind][r.id] = None \/ r.id \in Range(queue'[r.kind])
         /\ r.pc = "trigger" => r.id \in Range(queue'[r.kind])
<1> DEFINE r == req[u]
           Result == /\ LoopsOK'
                     /\ \A l \in Kinds : Range(queue[l]) \subseteq Range(queue'[l])
                     /\ r.pc = "refresh" =>
                           mem[r.kind][r.id] = None \/ r.id \in Range(queue'[r.kind])
                     /\ r.pc = "trigger" => r.id \in Range(queue'[r.kind])
<1>1. UNCHANGED <<greet, job>>
  BY DEF Walks, Unreserve, ReadPolicy, Register, Refresh, Unlist, Withdraw, SaveSettings,
     SaveSettingsFails, InsertPolicy, ApplyPolicy, Trigger, loops
<1>2. ASSUME UNCHANGED queue, r.pc # "trigger", r.pc = "refresh" => mem[r.kind][r.id] = None
      PROVE  Result
  BY <1>1, <1>2 DEF LoopsOK
<1>3. ASSUME r.pc # "idle", Enqueue(r.kind, r.id) PROVE Result
  <2>1. r.kind \in Kinds /\ r.id \in Ids
    BY <1>3, StepKnows
  <2> QED
    BY <1>1, <1>3, <2>1, EnqueueStep
<1>6. ASSUME \/ Unreserve(u) \/ ReadPolicy(u) \/ Register(u) \/ Unlist(u) \/ Withdraw(u)
             \/ SaveSettings(u) \/ SaveSettingsFails(u) \/ InsertPolicy(u) \/ ApplyPolicy(u)
      PROVE  Result
  <2>1. UNCHANGED queue /\ r.pc \notin {"trigger", "refresh"}
    BY <1>6 DEF Unreserve, ReadPolicy, Register, Unlist, Withdraw, SaveSettings,
       SaveSettingsFails, InsertPolicy, ApplyPolicy, At, loops
  <2> QED
    BY <1>2, <2>1
<1>7. Result
  <2> HIDE DEF Result
  <2>1. Refresh(u) => Result
    <3> USE DEF Result
    <3> QED  BY <1>2, <1>3 DEF Refresh, At
  <2>2. Trigger(u) => Result
    <3> USE DEF Result
    <3> QED  BY <1>2, <1>3 DEF Trigger, At
  <2> QED
    BY <1>6, <2>1, <2>2 DEF Walks
<1>8. UNCHANGED shown \/ shown' = [shown EXCEPT ![r.kind][r.id] = None]
  BY DEF Walks, Unreserve, ReadPolicy, Register, Refresh, Unlist, Withdraw, SaveSettings,
     SaveSettingsFails, InsertPolicy, ApplyPolicy, Trigger
<1>9. ShownOK'
  BY <1>8 DEF ShownOK
<1> QED
  BY <1>7, <1>8, <1>9

-----------------------------------------------------------------------------
(* What is written, and the next start. *)

\* A list with a request applied is one that its type accepts.
LEMMA NextListAccepted ==
  ASSUME RequestsOK, ListsOK, ListInv, AdmitInv, NEW u \in Users, req[u].pc = "save"
  PROVE  LET k == req[u].kind IN
         /\ k \in Kinds /\ NextList(u) \in Lists
         /\ \A i \in Ids : NextList(u)[i] \in ConfigsOf(k) \cup {None}
         /\ k # "cli" => WithinLimit(NextList(u))
<1> DEFINE k == req[u].kind
           i == req[u].id
           next == NextList(u)
           after == {n \in Ids : next[n] # None}
<1>1. /\ k \in Kinds /\ i \in Ids /\ req[u].op \in {"create", "update", "delete"}
      /\ Admitted(u)
  BY StepKnows DEF WriteSteps, AdmitInv, Inside
<1>2. /\ next \in Lists /\ next[i] = req[u].config
      /\ \A n \in Ids : n # i => next[n] = mem[k][n]
  BY <1>1, NextListTyped DEF ListsOK
<1>3. req[u].config \in ConfigsOf(k) \cup {None}
  BY <1>1, StepKnows
<1>4. \A n \in Ids : next[n] \in ConfigsOf(k) \cup {None}
  BY <1>1, <1>2, <1>3 DEF ListInv
<1>5. ASSUME k # "cli" PROVE WithinLimit(next)
  <2>1. /\ IsFiniteSet(Present(k)) /\ Cardinality(Present(k)) \in Nat
        /\ Cardinality(Present(k)) <= MaxSources
    <3>1. IsFiniteSet(Present(k))
      BY Bounds, FS_Subset DEF Present
    <3>2. Cardinality(Present(k)) <= MaxSources
      BY <1>1, <1>5 DEF ListInv, WithinLimit, Present
    <3> QED
      BY <3>1, <3>2, FS_CardinalityType
  <2>2. CASE req[u].op = "create"
    <3>1. Cardinality(Present(k)) < MaxSources /\ after \subseteq Present(k) \cup {i}
      BY <1>1, <1>2, <1>5, <2>2 DEF Admitted, Present
    <3>2. /\ IsFiniteSet(Present(k) \cup {i})
          /\ Cardinality(Present(k) \cup {i}) \in
                {Cardinality(Present(k)), Cardinality(Present(k)) + 1}
      BY <2>1, FS_AddElement
    <3>3. IsFiniteSet(after) /\ Cardinality(after) <= Cardinality(Present(k) \cup {i})
      BY <3>1, <3>2, FS_Subset
    <3>4. Cardinality(after) \in Nat
      BY <3>3, FS_CardinalityType
    <3> HIDE DEF after
    <3>5. Cardinality(after) <= MaxSources
      BY <2>1, <3>1, <3>2, <3>3, <3>4, Bounds
    <3> QED
      BY <3>5 DEF WithinLimit, after
  <2>3. CASE req[u].op # "create"
    <3>1. after \subseteq Present(k)
      BY <1>1, <1>2, <2>3 DEF Admitted, Present
    <3>2. Cardinality(after) <= Cardinality(Present(k)) /\ Cardinality(after) \in Nat
      BY <2>1, <3>1, FS_Subset, FS_CardinalityType
    <3> HIDE DEF after
    <3>3. Cardinality(after) <= MaxSources
      BY <2>1, <3>2, Bounds
    <3> QED
      BY <3>3 DEF WithinLimit, after
  <2> QED
    BY <2>2, <2>3
<1> QED
  BY <1>1, <1>2, <1>4, <1>5

\* The next start: what was on the disk, if every file loads; otherwise a file that is
\* not replaced was torn.
LEMMA CrashStep ==
  ASSUME RequestsOK, ListsOK, PolicyOK, SpentOK, ListInv, FileInv, LockInv, AdmitInv, Crash
  PROVE  /\ ListsOK' /\ PolicyOK' /\ SpentOK'
         /\ \A k \in Kinds :
               \/ ~alive' /\ mem'[k] = NoList
               \/ alive' /\ mem'[k] = mem[k]
               \/ /\ alive' /\ lock[k] # None /\ req[lock[k]].pc = "save"
                  /\ mem'[k] = NextList(lock[k])
         /\ alive' => file' = mem'
         /\ ~alive' => \E k \in Kinds \ {"http"} : file'[k] = Torn
         /\ greet' \in [Kinds -> SUBSET Ids]
         /\ \A k \in Kinds, i \in Ids : i \in greet'[k] <=> mem'[k][i] # None
         /\ spent'.crashes > 0
         /\ lock' = [k \in Kinds |-> None]
         /\ listed' = [i \in Ids |-> None]
         /\ req' = [u \in Users |-> Idle]
         /\ job' = [k \in Kinds |-> NoList]
         /\ queue' = [k \in Kinds |-> <<>>]
         /\ UNCHANGED <<secret, shown>>
<1>1. PICK disk \in [Kinds -> UNION {MayBeOnDisk(k) : k \in Kinds}] :
         /\ \A k \in Kinds : disk[k] \in MayBeOnDisk(k)
         /\ file' = disk
         /\ alive' = \A k \in Kinds : Loads(k, disk[k])
         /\ mem' = [k \in Kinds |-> IF alive' THEN disk[k] ELSE NoList]
         /\ greet' = [k \in Kinds |-> {i \in Ids : alive' /\ disk[k][i] # None}]
  BY DEF Crash
<1>2. NoList \in Lists /\ \A i \in Ids : NoList[i] = None
  BY DEF NoList, Lists
<1>3. ASSUME NEW k \in Kinds
      PROVE  \/ disk[k] = Torn /\ k # "http"
             \/ disk[k] = mem[k] /\ Loads(k, disk[k])
             \/ /\ lock[k] # None /\ req[lock[k]].pc = "save"
                /\ disk[k] = NextList(lock[k]) /\ Loads(k, disk[k])
  <2>1. alive /\ (file[k] = mem[k] \/ (k # "http" /\ file[k] = Torn))
    BY DEF Crash, FileInv, Kept
  <2>2. k \in AllKinds
    BY KindsAssumption
  <2>3. \A list \in Lists : list # Torn /\ (k = "cli" \/ WithinLimit(list)) => Loads(k, list)
    BY <2>2 DEF Loads, CliLoads, HttpLoads, BalanceLoads, AllKinds
  <2>4. mem[k] \in Lists /\ mem[k] # Torn /\ (k = "cli" \/ WithinLimit(mem[k]))
    BY NoneAssumption DEF ListsOK, ListInv, Lists
  <2>5. Leaves(k) \subseteq {file[k]} \cup (IF k = "http" THEN {} ELSE {Torn})
    BY <2>2 DEF Leaves, CliLeaves, HttpLeaves, BalanceLeaves, AllKinds
  <2>6. CASE lock[k] # None /\ req[lock[k]].pc = "save"
    <3> DEFINE u == lock[k]
    <3>1. u \in Users /\ req[u].kind = k
      BY <2>6 DEF ListsOK, LockInv
    <3>2. NextList(u) \in Lists /\ (k = "cli" \/ WithinLimit(NextList(u)))
      BY <2>6, <3>1, NextListAccepted
    <3>3. NextList(u) # Torn
      BY <3>2, NoneAssumption DEF Lists
    <3>4. disk[k] \in {file[k], NextList(u)} \/ (k # "http" /\ disk[k] = Torn)
      BY <1>1, <2>5, <2>6 DEF MayBeOnDisk
    <3> QED
      BY <2>1, <2>3, <2>4, <2>6, <3>2, <3>3, <3>4
  <2>7. CASE ~(lock[k] # None /\ req[lock[k]].pc = "save")
    <3>1. disk[k] = file[k]
      BY <1>1, <2>7 DEF MayBeOnDisk
    <3> QED
      BY <2>1, <2>3, <2>4, <3>1
  <2> QED
    BY <2>6, <2>7
<1>4. ASSUME NEW k \in Kinds PROVE disk[k] \in Lists \cup {Torn}
  <2>1. lock[k] # None /\ req[lock[k]].pc = "save" => NextList(lock[k]) \in Lists
    BY NextListAccepted DEF ListsOK
  <2> QED
    BY <1>3, <2>1 DEF ListsOK
<1>5. alive' \in BOOLEAN /\ \A k \in Kinds : Loads(k, disk[k]) => disk[k] # Torn
  <2>1. \A k \in Kinds : k \in AllKinds
    BY KindsAssumption
  <2>2. alive' \in BOOLEAN
    BY <1>1
  <2> QED
    BY <2>1, <2>2 DEF Loads, CliLoads, HttpLoads, BalanceLoads, AllKinds
<1>6. /\ lock' = [k \in Kinds |-> None]
      /\ listed' = [i \in Ids |-> None]
      /\ req' = [u \in Users |-> Idle]
      /\ job' = [k \in Kinds |-> NoList]
      /\ queue' = [k \in Kinds |-> <<>>]
      /\ UNCHANGED <<secret, shown>>
  BY DEF Crash
<1>7. spent'.crashes > 0 /\ SpentOK'
  <2> DEFINE n == spent.crashes + 1
  <2>1. spent' = [spent EXCEPT !.crashes = n] /\ spent.failures + spent.crashes < MaxFaults
    BY DEF Crash, MayFail
  <2>2. n \in 0..MaxFaults /\ n > 0
    BY <2>1, Bounds DEF SpentOK
  <2> HIDE DEF n
  <2> QED
    BY <2>1, <2>2 DEF SpentOK
<1>8. PolicyOK'
  <2>1. PICK disk2 \in SettingsOnDisk :
           settings' = [data |-> disk2, disk |-> disk2] /\ policy' = disk2
    BY DEF Crash
  <2>2. disk2 \in [Ids -> Policies]
    BY <2>1 DEF SettingsOnDisk, PolicyOK, Chosen, Policies
  <2> QED
    BY <2>1, <2>2 DEF PolicyOK
<1>9. ListsOK'
  <2>1. mem' \in [Kinds -> Lists] /\ file' \in [Kinds -> Lists \cup {Torn}]
    <3>1. file' \in [Kinds -> Lists \cup {Torn}]
      BY <1>1, <1>4
    <3>2. mem' \in [Kinds -> Lists]
      BY <1>1, <1>2, <1>4, <1>5
    <3> QED  BY <3>1, <3>2
  <2> QED
    BY <1>5, <1>6, <2>1 DEF ListsOK
<1>10. /\ \A k \in Kinds :
               \/ ~alive' /\ mem'[k] = NoList
               \/ alive' /\ mem'[k] = mem[k]
               \/ /\ alive' /\ lock[k] # None /\ req[lock[k]].pc = "save"
                  /\ mem'[k] = NextList(lock[k])
       /\ alive' => file' = mem'
       /\ ~alive' => \E k \in Kinds \ {"http"} : file'[k] = Torn
       /\ greet' \in [Kinds -> SUBSET Ids]
       /\ \A k \in Kinds, i \in Ids : i \in greet'[k] <=> mem'[k][i] # None
  <2>1. CASE alive'
    <3>1. /\ mem' = disk /\ file' = disk
          /\ \A k \in Kinds : disk[k] # Torn /\ disk[k] \in Lists
      BY <1>1, <1>4, <1>5, <2>1
    <3>2. \A k \in Kinds :
             \/ mem'[k] = mem[k]
             \/ lock[k] # None /\ req[lock[k]].pc = "save" /\ mem'[k] = NextList(lock[k])
      BY <1>3, <3>1
    <3>3. /\ greet' \in [Kinds -> SUBSET Ids]
          /\ \A k \in Kinds, i \in Ids : i \in greet'[k] <=> mem'[k][i] # None
      BY <1>1, <2>1, <3>1
    <3>4. mem' \in [Kinds -> Lists] /\ file' \in [Kinds -> Lists \cup {Torn}]
      BY <1>1, <3>1
    <3> QED
      BY <2>1, <3>1, <3>2, <3>3, <3>4
  <2>2. CASE ~alive'
    <3>1. PICK k \in Kinds : ~Loads(k, disk[k])
      BY <1>1, <2>2
    <3>2. file'[k] = Torn /\ k # "http"
      BY <1>1, <1>3, <3>1
    <3>3. mem' = [l \in Kinds |-> NoList] /\ greet' = [l \in Kinds |-> {}]
      BY <1>1, <2>2
    <3>4. mem' \in [Kinds -> Lists] /\ file' \in [Kinds -> Lists \cup {Torn}]
      BY <1>1, <1>2, <1>4, <3>3
    <3> QED
      BY <1>2, <2>2, <3>2, <3>3, <3>4
  <2> QED
    BY <2>1, <2>2
<1> QED
  BY <1>6, <1>7, <1>8, <1>9, <1>10

-----------------------------------------------------------------------------
(* Types are kept. *)

\* A failure is counted at most once in a step.
LEMMA Counted ==
  ASSUME SpentOK, CountFailure \/ UNCHANGED spent
  PROVE  SpentOK'
  BY DEF SpentOK, CountFailure

\* The bounds that are used up keep their type.
LEMMA SpentTyped ==
  ASSUME SourcesInv, [Next]_vars
  PROVE  SpentOK'
<1>1. SpentOK
  BY TypeParts DEF SourcesInv
<1>2. ASSUME NEW u \in Users, Asks(u) PROVE SpentOK'
  <2>1. spent' = [spent EXCEPT !.ops = spent.ops + 1] /\ spent.ops < MaxOps
    BY <1>2 DEF Asks, AskCreate, AskUpdate, AskDelete, AskToggle, AskRefresh, MayAsk, Ask
  <2> QED
    BY <1>1, <2>1, Bounds DEF SpentOK
<1>3. ASSUME NEW u \in Users,
             \/ Reserve(u) \/ Enters(u) \/ TouchSecret(u) \/ SecretFails(u)
             \/ Save(u) \/ SaveFails(u) \/ Restore(u)
      PROVE  CountFailure \/ UNCHANGED spent
  BY <1>3 DEF Reserve, Enters, CliCreate, HttpCreate, BalanceCreate, CliUpdate, HttpUpdate,
     BalanceUpdate, CliDelete, HttpDelete, BalanceDelete, Locks, TouchSecret, SecretFails,
     Save, SaveFails, Restore
<1>4. ASSUME NEW u \in Users, Walks(u) PROVE CountFailure \/ UNCHANGED spent
  BY <1>4 DEF Walks, Unreserve, ReadPolicy, Register, Refresh, Unlist, Withdraw, SaveSettings,
     SaveSettingsFails, InsertPolicy, ApplyPolicy, Trigger
<1>5. ASSUME NEW k \in Kinds, Begins(k) PROVE UNCHANGED spent
  BY <1>5 DEF Begins, TakeTrigger, TakeAll, HttpDue, BalanceDue, Loop
<1>6. ASSUME NEW k \in Kinds, NEW i \in Ids, Greet(k, i) \/ Collecting(k, i)
      PROVE  CountFailure \/ UNCHANGED spent
  BY <1>6 DEF Greet, Collecting, Checks, Stops, CliCheck, HttpCheck, BalanceCheck, ReadSecret,
     Collect, SetReady, PublishStatus, CliStop, HttpStop, HttpRelist
<1>7. CASE Crash
  BY <1>7, CrashStep, TypeParts DEF SourcesInv
<1>8. CASE UNCHANGED vars
  BY <1>1, <1>8, Counted DEF vars
<1> QED
  BY <1>1, <1>2, <1>3, <1>4, <1>5, <1>6, <1>7, <1>8, Counted, NextSteps DEF Handles

\* The policies keep their types.
LEMMA PolicyTyped ==
  ASSUME SourcesInv, [Next]_vars
  PROVE  PolicyOK'
<1>1. PolicyOK /\ \A u \in Users : Chosen(u) \in Policies
  BY TypeParts DEF SourcesInv, Chosen, Policies
<1>2. ASSUME NEW u \in Users,
             \/ Asks(u) \/ Reserve(u) \/ Enters(u) \/ TouchSecret(u) \/ SecretFails(u)
             \/ Save(u) \/ SaveFails(u) \/ Restore(u)
      PROVE  UNCHANGED <<policy, settings>>
  BY <1>2 DEF Asks, AskCreate, AskUpdate, AskDelete, AskToggle, AskRefresh, Ask,
     Reserve, Enters, CliCreate, HttpCreate, BalanceCreate, CliUpdate, HttpUpdate,
     BalanceUpdate, CliDelete, HttpDelete, BalanceDelete, Locks, TouchSecret, SecretFails,
     Save, SaveFails, Restore
<1>3. ASSUME NEW u \in Users, Walks(u) PROVE PolicyOK'
  <2>1. CASE SaveSettings(u)
    BY <1>1, <2>1 DEF SaveSettings, PolicyOK
  <2>2. CASE SaveSettingsFails(u)
    BY <1>1, <2>2 DEF SaveSettingsFails, PolicyOK
  <2>3. CASE InsertPolicy(u)
    BY <1>1, <2>3 DEF InsertPolicy, PolicyOK
  <2>4. CASE ~SaveSettings(u) /\ ~SaveSettingsFails(u) /\ ~InsertPolicy(u)
    BY <1>1, <1>3, <2>4 DEF Walks, Unreserve, ReadPolicy, Register, Refresh, Unlist, Withdraw,
       ApplyPolicy, Trigger, PolicyOK
  <2> QED
    BY <2>1, <2>2, <2>3, <2>4
<1>4. ASSUME NEW k \in Kinds, Begins(k) PROVE UNCHANGED <<policy, settings>>
  BY <1>4 DEF Begins, TakeTrigger, TakeAll, HttpDue, BalanceDue, Loop
<1>5. ASSUME NEW k \in Kinds, NEW i \in Ids, Greet(k, i) \/ Collecting(k, i)
      PROVE  UNCHANGED <<policy, settings>>
  BY <1>5 DEF Greet, Collecting, Checks, Stops, CliCheck, HttpCheck, BalanceCheck, ReadSecret,
     Collect, SetReady, PublishStatus, CliStop, HttpStop, HttpRelist, Collects
<1>6. CASE Crash
  BY <1>6, CrashStep, TypeParts DEF SourcesInv
<1>7. UNCHANGED <<policy, settings>> => PolicyOK'
  BY <1>1 DEF PolicyOK
<1>8. UNCHANGED vars => UNCHANGED <<policy, settings>>
  BY DEF vars
<1> QED
  BY <1>2, <1>3, <1>4, <1>5, <1>6, <1>7, <1>8, NextSteps DEF Handles

\* What a handler does outside the list it has locked leaves lists and loops alone.
LEMMA HandlerTypes ==
  ASSUME SourcesInv, NEW u \in Users, Handles(u)
  PROVE  ListsOK' /\ KeyringOK' /\ SnapshotOK' /\ LoopsOK' /\ ShownOK' /\ RequestsOK'
<1>1. /\ ListsOK /\ KeyringOK /\ SnapshotOK /\ LoopsOK /\ ShownOK /\ RequestsOK
      /\ PolicyOK /\ SpentOK /\ ListInv
  BY TypeParts DEF SourcesInv
<1>2. UNCHANGED <<greet, job, queue>> => LoopsOK'
  BY <1>1 DEF LoopsOK
<1>3. UNCHANGED listed => SnapshotOK'
  BY <1>1 DEF SnapshotOK
<1>4. UNCHANGED shown => ShownOK'
  BY <1>1 DEF ShownOK
<1>5. UNCHANGED secret => KeyringOK'
  BY <1>1 DEF KeyringOK
<1>6. UNCHANGED <<alive, mem, file, lock>> => ListsOK'
  BY <1>1 DEF ListsOK
<1>7. ASSUME NEW k \in Kinds, NEW v \in Users \cup {None}, lock' = [lock EXCEPT ![k] = v],
             UNCHANGED <<alive, mem, file>>
      PROVE  ListsOK'
  BY <1>1, <1>7 DEF ListsOK
<1>8. (Fails(u) \/ Ends(u)) => RequestsOK'
  BY DEF Fails, Ends, Goes
<1>9. ASSUME NEW k \in Kinds, NEW i \in Ids, NEW s \in Scopes \cup {None},
             secret' = [secret EXCEPT ![k][i] = s]
      PROVE  KeyringOK'
  BY <1>1, <1>9 DEF KeyringOK
<1>10. CASE Asks(u)
  BY <1>1, <1>2, <1>3, <1>4, <1>5, <1>6, <1>10, AskSteps DEF OnlyRequests, stores, loops
<1>11. CASE Reserve(u)
  <2>1. /\ UNCHANGED <<alive, stores, secret, loops, shown>>
        /\ RequestsOK'
        /\ \/ UNCHANGED listed
           \/ listed' = [listed EXCEPT ![req[u].id] =
                            Status(req[u].kind, req[u].config, FALSE, req[u].on)]
    BY <1>1, <1>8, <1>11, ReserveStep DEF Goes
  <2>2. /\ req[u].kind \in Kinds /\ req[u].config \in ConfigsOf(req[u].kind)
        /\ req[u].on \in BOOLEAN
    BY <1>1, <1>11, ReserveStep, StepKnows DEF Request
  <2>3. Status(req[u].kind, req[u].config, FALSE, req[u].on) \in Entry
    BY <2>2, AcceptedTyped, StatusTyped
  <2>4. SnapshotOK'
    BY <1>1, <1>3, <2>1, <2>3 DEF SnapshotOK
  <2> QED
    BY <1>2, <1>4, <1>5, <1>6, <2>1, <2>4 DEF stores, loops
<1>12. CASE Enters(u)
  BY <1>1, <1>2, <1>3, <1>4, <1>5, <1>6, <1>7, <1>8, <1>12, EnterStep DEF Taken, loops
<1>13. CASE TouchSecret(u)
  <2>1. /\ req[u].kind \in Kinds /\ req[u].id \in Ids /\ Stored(u) \in Scopes \cup {None}
        /\ RequestsOK'
        /\ UNCHANGED <<alive, mem, file, listed, loops, shown>>
        /\ \/ UNCHANGED secret /\ lock' = [lock EXCEPT ![req[u].kind] = None]
           \/ /\ UNCHANGED lock
              /\ secret' = [secret EXCEPT ![req[u].kind][req[u].id] = Stored(u)]
    BY <1>1, <1>13, TouchStep
  <2>2. KeyringOK'
    BY <1>5, <1>9, <2>1
  <2>3. ListsOK'
    BY <1>6, <1>7, <2>1
  <2> QED
    BY <1>2, <1>3, <1>4, <2>1, <2>2, <2>3 DEF loops
<1>14. CASE SecretFails(u)
  BY <1>1, <1>2, <1>3, <1>4, <1>5, <1>7, <1>8, <1>14, SecretFailsStep DEF loops
<1>15. CASE Save(u)
  <2>1. NextList(u) \in Lists
    BY <1>1, <1>15, SaveStep, NextListTyped DEF ListsOK
  <2>2. ListsOK'
    BY <1>1, <1>15, <2>1, SaveStep DEF ListsOK
  <2> QED
    BY <1>1, <1>2, <1>3, <1>4, <1>5, <1>15, <2>2, SaveStep DEF loops
<1>16. CASE SaveFails(u)
  <2>1. ListsOK'
    BY <1>1, <1>16, SaveFailsStep DEF ListsOK
  <2> QED
    BY <1>1, <1>2, <1>3, <1>4, <1>5, <1>16, <2>1, SaveFailsStep DEF loops
<1>17. CASE Restore(u)
  <2>1. /\ req[u].kind \in Kinds /\ req[u].id \in Ids /\ req[u].old \in Scopes \cup {None}
        /\ RequestsOK' /\ lock' = [lock EXCEPT ![req[u].kind] = None]
        /\ UNCHANGED <<alive, mem, file, listed, loops, shown>>
        /\ \/ UNCHANGED secret
           \/ secret' = [secret EXCEPT ![req[u].kind][req[u].id] = req[u].old]
    BY <1>1, <1>17, RestoreStep
  <2>2. KeyringOK'
    BY <1>5, <1>9, <2>1
  <2>3. ListsOK'
    BY <1>7, <2>1
  <2> QED
    BY <1>2, <1>3, <1>4, <2>1, <2>2, <2>3 DEF loops
<1>18. CASE Walks(u)
  BY <1>1, <1>5, <1>6, <1>18, WalkStep, WalkListed, WalkQueued DEF stores
<1> QED
  BY <1>10, <1>11, <1>12, <1>13, <1>14, <1>15, <1>16, <1>17, <1>18 DEF Handles

\* The types are kept.
LEMMA TypeStep ==
  ASSUME SourcesInv, [Next]_vars
  PROVE  TypeOK'
<1>1. /\ ListsOK /\ KeyringOK /\ SnapshotOK /\ LoopsOK /\ ShownOK /\ RequestsOK
      /\ PolicyOK /\ SpentOK /\ GreetInv
  BY TypeParts DEF SourcesInv
<1> DEFINE Rest == ListsOK /\ KeyringOK /\ SnapshotOK /\ LoopsOK /\ ShownOK /\ RequestsOK
<1>2. ASSUME NEW k \in Kinds, Begins(k) PROVE Rest'
  <2>1. LoopsOK' /\ UNCHANGED <<alive, stores, secret, listed, req, shown>>
    BY <1>1, <1>2, BeginStep
  <2> QED
    BY <1>1, <2>1 DEF ListsOK, KeyringOK, SnapshotOK, ShownOK, RequestsOK, stores
<1>3. ASSUME NEW k \in Kinds, NEW i \in Ids, Greet(k, i) PROVE Rest'
  <2>1. LoopsOK' /\ SnapshotOK' /\ UNCHANGED <<alive, stores, secret, req, shown>>
    BY <1>1, <1>3, GreetStep
  <2> QED
    BY <1>1, <2>1 DEF ListsOK, KeyringOK, ShownOK, RequestsOK, stores
<1>4. ASSUME NEW k \in Kinds, NEW i \in Ids, Collecting(k, i) PROVE Rest'
  <2>1. /\ LoopsOK' /\ SnapshotOK' /\ UNCHANGED <<alive, stores, secret, req>>
        /\ job[k][i] \in Collection /\ Progress(k, i)
    BY <1>1, <1>4, CollectingStep
  <2>2. job[k][i].config.scope \in Scopes
    BY <2>1, ConfigTyped DEF Collection
  <2>3. ShownOK'
    BY <1>1, <2>1, <2>2 DEF Progress, ShownOK
  <2> QED
    BY <1>1, <2>1, <2>3 DEF ListsOK, KeyringOK, RequestsOK, stores
<1>5. ASSUME Crash PROVE Rest'
  <2>1. /\ ListsOK' /\ greet' \in [Kinds -> SUBSET Ids]
        /\ listed' = [i \in Ids |-> None]
        /\ req' = [u \in Users |-> Idle]
        /\ job' = [k \in Kinds |-> NoList]
        /\ queue' = [k \in Kinds |-> <<>>]
        /\ UNCHANGED <<secret, shown>>
    BY <1>1, <1>5, CrashStep DEF SourcesInv
  <2>2. LoopsOK'
    <3>1. <<>> \in Seq(Ids) /\ Len(<<>>) <= TriggerCap
      BY Bounds, EmptySeq
    <3>2. NoList \in [Ids -> Collection \cup {None}]
      BY DEF NoList
    <3> QED
      BY <2>1, <3>1, <3>2 DEF LoopsOK
  <2>3. SnapshotOK'
    BY <2>1 DEF SnapshotOK
  <2>4. RequestsOK'
    BY <2>1, IdleTyped DEF RequestsOK
  <2> QED
    BY <1>1, <2>1, <2>2, <2>3, <2>4 DEF KeyringOK, ShownOK
<1>6. ASSUME UNCHANGED vars PROVE Rest'
  BY <1>1, <1>6 DEF vars, stores, loops, ListsOK, KeyringOK, SnapshotOK, LoopsOK, ShownOK, RequestsOK
<1> HIDE DEF Rest
<1>7. Rest'
  <2>1. ASSUME NEW u \in Users, Handles(u) PROVE Rest'
    BY <2>1, HandlerTypes DEF Rest
  <2> QED
    BY <1>2, <1>3, <1>4, <1>5, <1>6, <2>1, NextSteps
<1> QED
  BY <1>7, SpentTyped, PolicyTyped DEF Rest, TypeOK, ListsOK, KeyringOK, SnapshotOK, PolicyOK,
     LoopsOK, ShownOK, SpentOK, RequestsOK
-----------------------------------------------------------------------------
(* Locks, lists and files. *)

\* What a handler's step does under the lock: it stays outside, comes in, goes on
\* or leaves.
Locking(u) == LET k == req[u].kind IN
    \/ ~Inside(u) /\ ~Inside(u)' /\ UNCHANGED lock
    \/ ~Inside(u) /\ k \in Kinds /\ lock[k] = None /\ greet[k] = {} /\ Taken(u)
    \/ /\ Inside(u) /\ Inside(u)' /\ UNCHANGED lock /\ Keeps(u)
       /\ req'[u].touched = req[u].touched
       /\ \/ req[u].pc = "secret" /\ req'[u].pc = "save"
          \/ req[u].pc = "save" /\ req'[u].pc = "restore" /\ req[u].touched
    \/ Inside(u) /\ ~Inside(u)' /\ lock' = [lock EXCEPT ![k] = None]

\* What it does to the lists and their files.
Writing(u) == LET k == req[u].kind IN
    \/ UNCHANGED <<mem, file>>
    \/ /\ req[u].pc = "save" /\ k \in Kinds
       /\ \/ /\ mem' = [mem EXCEPT ![k] = NextList(u)] /\ ~Inside(u)'
             /\ file' = [file EXCEPT ![k] = NextList(u)]
          \/ /\ UNCHANGED mem /\ k # "http" /\ file' = [file EXCEPT ![k] = Torn]
             /\ spent'.failures > 0

\* Every step of a handler is of one of these forms.
LEMMA HandlerStep ==
  ASSUME SourcesInv, NEW u \in Users, Handles(u)
  PROVE  /\ alive /\ UNCHANGED <<alive, greet, job>> /\ Others(u) /\ Locking(u) /\ Writing(u)
         /\ spent'.failures \in Nat /\ spent'.failures >= spent.failures
         /\ spent'.crashes = spent.crashes
<1>1. /\ ListsOK /\ KeyringOK /\ SnapshotOK /\ LoopsOK /\ ShownOK /\ RequestsOK
      /\ PolicyOK /\ SpentOK /\ ListInv
  BY TypeParts DEF SourcesInv
<1>2. spent.failures \in Nat
  BY <1>1 DEF SpentOK
<1>3. Fails(u) \/ Ends(u) => Others(u) /\ ~Inside(u)'
  BY IdleTyped DEF Fails, Ends, Goes, Inside
<1> DEFINE Result ==
      /\ alive /\ UNCHANGED <<alive, greet, job>> /\ Others(u) /\ Locking(u) /\ Writing(u)
      /\ spent'.failures \in Nat /\ spent'.failures >= spent.failures
      /\ spent'.crashes = spent.crashes
<1>4. ASSUME Asks(u) PROVE Result
  BY <1>1, <1>2, <1>4, AskSteps, IdleTyped DEF OnlyRequests, Locking, Writing, Inside, stores, loops
<1>5. ASSUME Reserve(u) PROVE Result
  <2>1. alive
    BY <1>5 DEF Reserve, At
  <2>2. /\ req[u].pc = "reserve"
        /\ Ends(u) \/ Goes(u, "lock")
        /\ UNCHANGED <<alive, stores, loops, spent>>
    BY <1>1, <1>5, ReserveStep
  <2> QED
    BY <1>2, <1>3, <2>1, <2>2 DEF Locking, Writing, Inside, Goes, stores, loops
<1>6. ASSUME Enters(u) PROVE Result
  <2>1. alive
    BY <1>6 DEF Enters, CliCreate, HttpCreate, BalanceCreate, CliUpdate, HttpUpdate,
       BalanceUpdate, CliDelete, HttpDelete, BalanceDelete, Locks, At
  <2>2. /\ req[u].pc = "lock" /\ req[u].kind \in Kinds
        /\ lock[req[u].kind] = None /\ greet[req[u].kind] = {}
        /\ Taken(u) \/ (Fails(u) /\ UNCHANGED lock)
        /\ UNCHANGED <<alive, mem, file, loops, spent>>
    BY <1>1, <1>6, EnterStep
  <2>3. Taken(u) => Others(u)
    BY DEF Taken
  <2> QED
    BY <1>2, <1>3, <2>1, <2>2, <2>3 DEF Locking, Writing, Inside, loops
<1>7. ASSUME TouchSecret(u) PROVE Result
  <2>1. /\ req[u].pc = "secret" /\ alive /\ UNCHANGED <<alive, mem, file, loops, spent>>
        /\ Others(u)
        /\ \/ Ends(u) /\ lock' = [lock EXCEPT ![req[u].kind] = None]
           \/ /\ Keeps(u) /\ req'[u].pc = "save" /\ req'[u].touched = req[u].touched
              /\ UNCHANGED lock
    BY <1>1, <1>7, TouchStep
  <2> QED
    BY <1>2, <1>3, <2>1 DEF Locking, Writing, Inside, loops
<1>8. ASSUME SecretFails(u) PROVE Result
  <2>1. alive
    BY <1>8 DEF SecretFails, At
  <2>2. /\ req[u].pc = "secret" /\ Fails(u) /\ lock' = [lock EXCEPT ![req[u].kind] = None]
        /\ spent'.failures = spent.failures + 1 /\ spent'.crashes = spent.crashes
        /\ UNCHANGED <<alive, mem, file, loops>>
    BY <1>1, <1>8, SecretFailsStep
  <2> QED
    BY <1>2, <1>3, <2>1, <2>2 DEF Locking, Writing, Inside, loops
<1>9. ASSUME Save(u) PROVE Result
  <2>1. /\ req[u].pc = "save" /\ alive /\ req[u].kind \in Kinds
        /\ Others(u) /\ req'[u].pc \in {"unlist", "policy", "refresh"}
        /\ lock' = [lock EXCEPT ![req[u].kind] = None]
        /\ mem' = [mem EXCEPT ![req[u].kind] = NextList(u)]
        /\ file' = [file EXCEPT ![req[u].kind] = NextList(u)]
        /\ UNCHANGED <<alive, loops, spent>>
    BY <1>1, <1>9, SaveStep
  <2> QED
    BY <1>2, <2>1 DEF Locking, Writing, Inside, loops
<1>10. ASSUME SaveFails(u) PROVE Result
  <2>1. /\ req[u].pc = "save" /\ alive /\ req[u].kind \in Kinds /\ Others(u)
        /\ \/ req[u].touched /\ Goes(u, "restore") /\ UNCHANGED lock
           \/ ~req[u].touched /\ Fails(u) /\ lock' = [lock EXCEPT ![req[u].kind] = None]
        /\ \/ UNCHANGED file
           \/ req[u].kind # "http" /\ file' = [file EXCEPT ![req[u].kind] = Torn]
        /\ spent'.failures = spent.failures + 1 /\ spent'.crashes = spent.crashes
        /\ UNCHANGED <<alive, mem, loops>>
    BY <1>1, <1>10, SaveFailsStep
  <2>2. Writing(u)
    BY <1>2, <2>1 DEF Writing
  <2>3. Locking(u)
    BY <1>3, <2>1 DEF Locking, Inside, Goes
  <2> QED
    BY <1>2, <2>1, <2>2, <2>3 DEF loops
<1>11. ASSUME Restore(u) PROVE Result
  <2>1. alive
    BY <1>11 DEF Restore, At
  <2>2. /\ req[u].pc = "restore" /\ Fails(u) /\ Others(u)
        /\ lock' = [lock EXCEPT ![req[u].kind] = None]
        /\ UNCHANGED spent \/ spent'.failures = spent.failures + 1
        /\ spent'.crashes = spent.crashes
        /\ UNCHANGED <<alive, mem, file, loops>>
    BY <1>1, <1>11, RestoreStep
  <2> QED
    BY <1>2, <1>3, <2>1, <2>2 DEF Locking, Writing, Inside, loops
<1>12. ASSUME Walks(u) PROVE Result
  <2>1. /\ Passes(u) /\ Others(u) /\ alive /\ UNCHANGED <<alive, stores, greet, job>>
        /\ spent'.crashes = spent.crashes
        /\ spent'.failures \in {spent.failures, spent.failures + 1}
    BY <1>1, <1>12, WalkStep
  <2>2. ~Inside(u) /\ ~Inside(u)'
    BY <1>3, <2>1 DEF Passes, Inside
  <2> QED
    BY <1>2, <2>1, <2>2 DEF Locking, Writing, stores
<1> HIDE DEF Result
<1>13. Result
  BY <1>4, <1>5, <1>6, <1>7, <1>8, <1>9, <1>10, <1>11, <1>12 DEF Handles
<1> QED
  BY <1>13 DEF Result

\* The run loops and the collections leave requests, lists and files alone.
LEMMA LoopStep ==
  ASSUME SourcesInv,
         \/ UNCHANGED vars
         \/ \E k \in Kinds : Begins(k)
         \/ \E k \in Kinds, i \in Ids : Greet(k, i) \/ Collecting(k, i)
  PROVE  /\ UNCHANGED <<alive, mem, file, lock, secret, req>>
         /\ \A k \in Kinds : greet'[k] \subseteq greet[k]
         /\ \A i \in Ids : listed[i] # None => listed'[i] # None
         /\ spent'.failures \in Nat /\ spent'.failures >= spent.failures
         /\ spent'.crashes = spent.crashes
<1>1. /\ ListsOK /\ LoopsOK /\ SnapshotOK /\ PolicyOK /\ SpentOK /\ GreetInv
      /\ spent.failures \in Nat
  BY TypeParts DEF SourcesInv, SpentOK
<1> DEFINE Result ==
      /\ UNCHANGED <<alive, mem, file, lock, secret, req>>
      /\ \A k \in Kinds : greet'[k] \subseteq greet[k]
      /\ \A i \in Ids : listed[i] # None => listed'[i] # None
      /\ spent'.failures \in Nat /\ spent'.failures >= spent.failures
      /\ spent'.crashes = spent.crashes
<1>2. ASSUME NEW k \in Kinds, Begins(k) PROVE Result
  <2>1. UNCHANGED <<alive, stores, secret, listed, req, greet, spent>>
    BY <1>1, <1>2, BeginStep
  <2> QED
    BY <1>1, <2>1 DEF stores
<1>3. ASSUME NEW k \in Kinds, NEW i \in Ids, Greet(k, i) PROVE Result
  <2>1. /\ greet' = [greet EXCEPT ![k] = greet[k] \ {i}]
        /\ listed'[i] # None /\ \A n \in Ids \ {i} : listed'[n] = listed[n]
        /\ UNCHANGED <<alive, stores, secret, req, spent>>
    BY <1>1, <1>3, GreetStep
  <2>2. \A l \in Kinds : greet'[l] \subseteq greet[l]
    BY <1>1, <2>1 DEF LoopsOK
  <2>3. /\ spent'.failures \in Nat /\ spent'.failures >= spent.failures
        /\ spent'.crashes = spent.crashes
    BY <1>1, <2>1
  <2> QED
    BY <2>1, <2>2, <2>3 DEF stores
<1>4. ASSUME NEW k \in Kinds, NEW i \in Ids, Collecting(k, i) PROVE Result
  <2>1. /\ \A n \in Ids : listed[n] # None => listed'[n] # None
        /\ spent'.crashes = spent.crashes
        /\ spent'.failures \in {spent.failures, spent.failures + 1}
        /\ UNCHANGED <<alive, stores, secret, req, greet>>
    BY <1>1, <1>4, CollectingStep
  <2> QED
    BY <1>1, <2>1 DEF stores
<1>5. ASSUME UNCHANGED vars PROVE Result
  BY <1>1, <1>5 DEF vars, stores, loops
<1> HIDE DEF Result
<1>6. Result
  BY <1>2, <1>3, <1>4, <1>5
<1> QED
  BY <1>6 DEF Result

\* One handler has the lock of a list, and is at work on it.
LEMMA LockStep ==
  ASSUME SourcesInv, [Next]_vars
  PROVE  LockInv'
<1>1. /\ ListsOK /\ LoopsOK /\ RequestsOK /\ LockInv
  BY TypeParts DEF SourcesInv
<1>2. ASSUME NEW u \in Users, Handles(u) PROVE LockInv'
  <2> DEFINE k == req[u].kind
  <2>1. UNCHANGED greet /\ Others(u) /\ Locking(u)
    BY <1>2, HandlerStep
  <2>2. Inside(u) => k \in Kinds /\ lock[k] = u
    BY <1>1, StepKnows DEF LockInv, Inside
  <2>3. \A v \in Users \ {u} : Inside(v)' = Inside(v) /\ req'[v] = req[v]
    BY <2>1 DEF Others, Inside
  <2>4. \A l \in Kinds : lock[l] \in Users \cup {None}
    BY <1>1 DEF ListsOK
  <2>5. CASE ~Inside(u) /\ ~Inside(u)' /\ UNCHANGED lock
    BY <1>1, <2>1, <2>3, <2>4, <2>5 DEF LockInv
  <2>6. CASE ~Inside(u) /\ k \in Kinds /\ lock[k] = None /\ greet[k] = {} /\ Taken(u)
    <3>1. /\ lock'[k] = u /\ \A l \in Kinds \ {k} : lock'[l] = lock[l]
          /\ req'[u].kind = k /\ Inside(u)'
      BY <1>1, <2>6 DEF Taken, Keeps, Inside, ListsOK
    <3>2. \A v \in Users \ {u} : Inside(v) => req[v].kind # k
      BY <1>1, <2>6, NoneAssumption DEF LockInv
    <3>3. \A v \in Users : Inside(v)' => lock'[req'[v].kind] = v
      <4>1. \A v \in Users : Inside(v) => req[v].kind \in Kinds
        BY <1>1, StepKnows DEF Inside
      <4> QED
        BY <1>1, <2>3, <3>1, <3>2, <4>1 DEF LockInv
    <3>4. \A l \in Kinds \ {k} : lock'[l] # None =>
            /\ req'[lock'[l]].kind = l /\ Inside(lock[l])' /\ lock'[l] = lock[l]
            /\ greet'[l] = {}
      BY <1>1, <2>1, <2>3, <2>4, <2>6, <3>1 DEF LockInv
    <3> QED
      BY <2>1, <2>6, <3>1, <3>3, <3>4 DEF LockInv, Inside
  <2>7. CASE Inside(u) /\ Inside(u)' /\ UNCHANGED lock /\ Keeps(u)
    BY <1>1, <2>1, <2>3, <2>4, <2>7 DEF LockInv, Keeps
  <2>8. CASE Inside(u) /\ ~Inside(u)' /\ lock' = [lock EXCEPT ![k] = None]
    <3>1. lock'[k] = None /\ \A l \in Kinds \ {k} : lock'[l] = lock[l]
      BY <1>1, <2>2, <2>8 DEF ListsOK
    <3>2. \A v \in Users \ {u} : Inside(v) => req[v].kind # k
      BY <1>1, <2>2, <2>8 DEF LockInv
    <3>3. \A l \in Kinds \ {k} : lock[l] # u
      BY <1>1, <2>4, NoneAssumption DEF LockInv
    <3>4. \A v \in Users : Inside(v)' => v # u /\ Inside(v) /\ req[v].kind # k
      BY <2>3, <2>8, <3>2
    <3>5. \A v \in Users : Inside(v)' => lock'[req'[v].kind] = v
      <4>1. \A v \in Users : Inside(v) => req[v].kind \in Kinds
        BY <1>1, StepKnows DEF Inside
      <4> QED
        BY <1>1, <2>3, <3>1, <3>4, <4>1 DEF LockInv
    <3>6. \A l \in Kinds : lock'[l] # None =>
            /\ req'[lock'[l]].kind = l /\ Inside(lock[l])' /\ lock'[l] = lock[l]
            /\ greet'[l] = {}
      BY <1>1, <2>1, <2>3, <2>4, <3>1, <3>3 DEF LockInv
    <3> QED
      BY <3>5, <3>6 DEF LockInv, Inside
  <2> QED
    BY <2>1, <2>5, <2>6, <2>7, <2>8 DEF Locking
<1>3. ASSUME UNCHANGED <<lock, req>>, \A k \in Kinds : greet'[k] \subseteq greet[k]
      PROVE  LockInv'
  BY <1>1, <1>3 DEF LockInv, Inside
<1>4. CASE Crash
  <2>1. lock' = [k \in Kinds |-> None] /\ req' = [u \in Users |-> Idle]
    BY <1>4 DEF Crash
  <2> QED
    BY <2>1, IdleTyped DEF LockInv, Inside
<1> QED
  BY <1>2, <1>3, <1>4, NextSteps, LoopStep

\* A list changes only under its lock.
LEMMA OnlyHolder ==
  ASSUME SourcesInv, NEW u \in Users, Handles(u), NEW v \in Users \ {u}, Inside(v)
  PROVE  /\ req[v].kind \in Kinds /\ mem'[req[v].kind] = mem[req[v].kind]
         /\ Inside(u) => req[u].kind # req[v].kind
<1>1. RequestsOK /\ LockInv /\ ListsOK /\ Writing(u)
  BY TypeParts, HandlerStep DEF SourcesInv
<1>2. req[v].kind \in Kinds /\ lock[req[v].kind] = v
  BY <1>1, StepKnows DEF LockInv, Inside
<1>3. Inside(u) => req[u].kind # req[v].kind
  BY <1>1, <1>2 DEF LockInv
<1> QED
  BY <1>1, <1>2, <1>3 DEF Writing, ListsOK, Inside

\* What a handler found out when it took the lock stays true until it leaves.
LEMMA AdmitStepInv ==
  ASSUME SourcesInv, [Next]_vars
  PROVE  AdmitInv'
<1>1. /\ ListsOK /\ LoopsOK /\ RequestsOK /\ LockInv /\ AdmitInv
  BY TypeParts DEF SourcesInv
<1>2. ASSUME NEW u \in Users, Handles(u) PROVE AdmitInv'
  <2>1. Others(u) /\ Locking(u) /\ Writing(u)
    BY <1>2, HandlerStep
  <2>2. ASSUME NEW v \in Users \ {u}, Inside(v)' PROVE Admitted(v)'
    <3>1. req'[v] = req[v] /\ Inside(v)
      BY <2>1, <2>2 DEF Others, Inside
    <3>2. mem'[req[v].kind] = mem[req[v].kind]
      BY <1>2, <3>1, OnlyHolder
    <3> QED
      BY <1>1, <3>1, <3>2 DEF AdmitInv, Admitted, Present
  <2>3. ASSUME Inside(u)' PROVE Admitted(u)'
    <3>1. UNCHANGED mem
      BY <2>1, <2>3, <1>2 DEF Writing, Locking, Inside
    <3>2. CASE ~Inside(u) /\ req[u].kind \in Kinds /\ Taken(u)
      BY <3>1, <3>2 DEF Taken, Keeps, Admitted, Present
    <3>3. CASE Inside(u) /\ Inside(u)' /\ Keeps(u) /\ req'[u].touched = req[u].touched
               /\ \/ req[u].pc = "secret" /\ req'[u].pc = "save"
                  \/ req[u].pc = "save" /\ req'[u].pc = "restore" /\ req[u].touched
      BY <1>1, <3>1, <3>3 DEF AdmitInv, Admitted, Keeps, Present
    <3> QED
      BY <2>1, <2>3, <3>2, <3>3 DEF Locking
  <2> QED
    BY <2>2, <2>3 DEF AdmitInv
<1>3. ASSUME UNCHANGED <<mem, req>> PROVE AdmitInv'
  BY <1>1, <1>3 DEF AdmitInv, Admitted, Inside, Present
<1>4. CASE Crash
  <2>1. req' = [u \in Users |-> Idle]
    BY <1>4 DEF Crash
  <2> QED
    BY <2>1, IdleTyped DEF AdmitInv, Inside
<1> QED
  BY <1>2, <1>3, <1>4, NextSteps, LoopStep

\* Lists hold what their type accepts, and files what the lists hold.
LEMMA ListStep ==
  ASSUME SourcesInv, [Next]_vars
  PROVE  ListInv' /\ FileInv' /\ StartsUnlessTorn'
<1>1. /\ ListsOK /\ RequestsOK /\ LockInv /\ AdmitInv /\ ListInv /\ FileInv /\ PolicyOK
      /\ SpentOK /\ StartsUnlessTorn
  BY TypeParts DEF SourcesInv
<1> DEFINE Result == ListInv' /\ FileInv' /\ StartsUnlessTorn'
<1>2. ASSUME NEW u \in Users, Handles(u) PROVE Result
  <2> DEFINE k == req[u].kind
  <2>1. /\ alive /\ alive' /\ Writing(u) /\ spent'.failures >= spent.failures
        /\ spent.failures \in Nat
    BY <1>1, <1>2, HandlerStep DEF SpentOK
  <2>2. ASSUME req[u].pc = "save"
        PROVE  /\ k \in Kinds /\ \A i \in Ids : NextList(u)[i] \in ConfigsOf(k) \cup {None}
               /\ k # "cli" => WithinLimit(NextList(u))
    BY <1>1, <2>2, NextListAccepted
  <2>3. ListInv'
    <3>1. ASSUME NEW l \in Kinds
          PROVE  mem'[l] = mem[l] \/ (req[u].pc = "save" /\ l = k /\ mem'[l] = NextList(u))
      BY <1>1, <2>1 DEF Writing, ListsOK
    <3> QED
      BY <1>1, <2>2, <3>1 DEF ListInv, WithinLimit
  <2>4. spent.failures > 0 => spent'.failures > 0
    <3>1. spent'.failures \in Nat
      BY <1>2, SpentTyped DEF SpentOK, Next
    <3> QED
      BY <2>1, <3>1
  <2>5. FileInv'
    BY <1>1, <2>1, <2>4 DEF Writing, FileInv, Kept, ListsOK
  <2>6. StartsUnlessTorn'
    BY <2>1 DEF StartsUnlessTorn
  <2> QED
    BY <2>3, <2>5, <2>6
<1>3. ASSUME UNCHANGED <<alive, mem, file>>, spent'.failures >= spent.failures,
             spent'.failures \in Nat
      PROVE  Result
  <2>1. spent.failures > 0 => spent'.failures > 0
    BY <1>1, <1>3 DEF SpentOK
  <2> QED
    BY <1>1, <1>3, <2>1 DEF ListInv, FileInv, Kept, StartsUnlessTorn, WithinLimit
<1>4. ASSUME Crash PROVE Result
  <2>1. \A k \in Kinds :
               \/ mem'[k] = NoList
               \/ mem'[k] = mem[k]
               \/ /\ lock[k] # None /\ req[lock[k]].pc = "save"
                  /\ mem'[k] = NextList(lock[k])
    BY <1>1, <1>4, CrashStep
  <2>2. /\ alive' => file' = mem'
        /\ ~alive' => \E k \in Kinds \ {"http"} : file'[k] = Torn
    BY <1>1, <1>4, CrashStep
  <2>3. /\ \A i \in Ids : NoList[i] = None
        /\ WithinLimit(NoList)
    <3>1. \A i \in Ids : NoList[i] = None
      BY DEF NoList
    <3>2. {i \in Ids : NoList[i] # None} = {}
      BY <3>1
    <3> QED
      BY <3>1, <3>2, FS_EmptySet, Bounds DEF WithinLimit
  <2>4. ASSUME NEW k \in Kinds, lock[k] # None, req[lock[k]].pc = "save"
        PROVE  /\ \A i \in Ids : NextList(lock[k])[i] \in ConfigsOf(k) \cup {None}
               /\ k # "cli" => WithinLimit(NextList(lock[k]))
    BY <1>1, <2>4, NextListAccepted DEF ListsOK, LockInv
  <2>5. ListInv'
    <3>1. ASSUME NEW k \in Kinds, NEW list, mem'[k] = list,
                 \A i \in Ids : list[i] \in ConfigsOf(k) \cup {None},
                 k # "cli" => WithinLimit(list)
          PROVE  /\ \A i \in Ids : mem'[k][i] \in ConfigsOf(k) \cup {None}
                 /\ k # "cli" => WithinLimit(mem'[k])
      BY <3>1
    <3>2. \A k \in Kinds :
             /\ \A i \in Ids : mem[k][i] \in ConfigsOf(k) \cup {None}
             /\ k # "cli" => WithinLimit(mem[k])
      BY <1>1 DEF ListInv
    <3>3. \A k \in Kinds :
             /\ \A i \in Ids : mem'[k][i] \in ConfigsOf(k) \cup {None}
             /\ k # "cli" => WithinLimit(mem'[k])
      BY <2>1, <2>3, <2>4, <3>1, <3>2
    <3> QED
      BY <3>3 DEF ListInv, WithinLimit
  <2> QED
    BY <2>2, <2>5 DEF FileInv, Kept, StartsUnlessTorn
<1>5. spent'.failures \in Nat
  BY SpentTyped DEF SpentOK
<1> HIDE DEF Result
<1>6. Result
  BY <1>2, <1>3, <1>4, <1>5, NextSteps, LoopStep
<1> QED
  BY <1>6 DEF Result
-----------------------------------------------------------------------------
(* Owners of an identifier. *)

\* What a handler's step does to identifiers: it keeps its claim, gives it up, claims
\* one that nobody has, or changes the list.
Owning(u) == LET i == req[u].id  k == req[u].kind IN
    \/ Reserves(u) /\ Reserves(u)' /\ req'[u].id = i /\ UNCHANGED <<mem, listed>>
    \/ /\ Reserves(u) /\ ~Reserves(u)' /\ UNCHANGED mem
       /\ listed'[i] = None /\ \A n \in Ids \ {i} : listed'[n] = listed[n]
    \/ /\ Reserves(u)' /\ req'[u].id = i /\ i \in Ids /\ UNCHANGED mem
       /\ listed[i] = None /\ listed'[i] # None /\ \A n \in Ids \ {i} : listed'[n] = listed[n]
    \/ ~Reserves(u)' /\ UNCHANGED mem /\ \A n \in Ids : listed[n] # None => listed'[n] # None
    \/ /\ req[u].pc = "save" /\ k \in Kinds /\ i \in Ids /\ UNCHANGED listed
       /\ mem' = [mem EXCEPT ![k] = NextList(u)]
       /\ \/ ~Reserves(u)' /\ req[u].op # "delete"
          \/ req[u].op = "delete" /\ Reserves(u)' /\ req'[u].id = i

\* Every step of a handler is of one of these forms.
LEMMA OwningStep ==
  ASSUME SourcesInv, NEW u \in Users, Handles(u)
  PROVE  Owning(u)
<1>1. /\ ListsOK /\ KeyringOK /\ SnapshotOK /\ LoopsOK /\ ShownOK /\ RequestsOK
      /\ PolicyOK /\ SpentOK /\ ListInv
  BY TypeParts DEF SourcesInv
<1>2. ASSUME Fails(u), UNCHANGED <<mem, listed>>, req[u].pc \in WriteSteps PROVE Owning(u)
  BY <1>2, IdleTyped, ValuesAssumption
     DEF Fails, Ends, Goes, Keeps, Owning, Reserves, WriteSteps, Ops
<1>3. ASSUME Keeps(u), req[u].pc \in WriteSteps, req'[u].pc \in WriteSteps,
             UNCHANGED <<mem, listed>>
      PROVE  Owning(u)
  BY <1>3 DEF Keeps, Owning, Reserves, WriteSteps
<1>4. CASE Asks(u)
  BY <1>1, <1>4, AskSteps DEF OnlyRequests, stores, Owning, Reserves, WriteSteps
<1>5. CASE Reserve(u)
  <2>1. /\ req[u].op = "create" /\ UNCHANGED stores
        /\ \/ Ends(u) /\ UNCHANGED listed
           \/ /\ listed[req[u].id] = None /\ Goes(u, "lock")
              /\ listed' = [listed EXCEPT ![req[u].id] =
                               Status(req[u].kind, req[u].config, FALSE, req[u].on)]
    BY <1>1, <1>5, ReserveStep
  <2>2. /\ req[u].kind \in Kinds /\ req[u].id \in Ids
        /\ req[u].config \in ConfigsOf(req[u].kind) /\ req[u].on \in BOOLEAN
    BY <1>1, <1>5, ReserveStep, StepKnows DEF Request
  <2> DEFINE e == Status(req[u].kind, req[u].config, FALSE, req[u].on)
  <2>3. e # None
    BY <2>2, AcceptedTyped, StatusTyped
  <2>4. CASE Ends(u) /\ UNCHANGED listed
    BY <2>1, <2>4, IdleTyped DEF Ends, Owning, Reserves, WriteSteps, stores
  <2>5. CASE /\ listed[req[u].id] = None /\ Goes(u, "lock")
             /\ listed' = [listed EXCEPT ![req[u].id] = e]
    <3> HIDE DEF e
    <3>1. listed'[req[u].id] = e /\ \A n \in Ids \ {req[u].id} : listed'[n] = listed[n]
      BY <1>1, <2>2, <2>5 DEF SnapshotOK
    <3>2. Reserves(u)' /\ req'[u].id = req[u].id
      BY <2>1, <2>5 DEF Goes, Keeps, Reserves, WriteSteps
    <3> QED
      BY <2>1, <2>2, <2>3, <2>5, <3>1, <3>2 DEF Owning, stores
  <2> QED
    BY <2>1, <2>4, <2>5
<1>6. CASE Enters(u)
  <2>1. /\ req[u].pc = "lock" /\ UNCHANGED <<mem, listed>>
        /\ Taken(u) \/ Fails(u)
    BY <1>1, <1>6, EnterStep
  <2> QED
    BY <1>2, <1>3, <2>1 DEF Taken, WriteSteps
<1>7. CASE TouchSecret(u)
  <2>1. /\ req[u].pc = "secret" /\ UNCHANGED <<mem, listed>>
        /\ \/ req[u].op = "update" /\ Ends(u)
           \/ Keeps(u) /\ req'[u].pc = "save"
    BY <1>1, <1>7, TouchStep
  <2> QED
    BY <1>2, <1>3, <2>1 DEF Fails, WriteSteps
<1>8. CASE SecretFails(u)
  BY <1>1, <1>2, <1>8, SecretFailsStep DEF WriteSteps
<1>9. CASE Save(u)
  <2>1. /\ req[u].pc = "save" /\ req[u].kind \in Kinds /\ req[u].id \in Ids /\ Keeps(u)
        /\ req[u].op = "delete" => req'[u].pc = "unlist"
        /\ req[u].op # "delete" => req'[u].pc \in {"policy", "refresh"}
        /\ mem' = [mem EXCEPT ![req[u].kind] = NextList(u)] /\ UNCHANGED listed
    BY <1>1, <1>9, SaveStep
  <2> QED
    BY <2>1 DEF Keeps, Owning, Reserves, WriteSteps
<1>10. CASE SaveFails(u)
  <2>1. /\ req[u].pc = "save" /\ UNCHANGED <<mem, listed>>
        /\ Goes(u, "restore") \/ Fails(u)
    BY <1>1, <1>10, SaveFailsStep
  <2> QED
    BY <1>2, <1>3, <2>1 DEF Goes, WriteSteps
<1>11. CASE Restore(u)
  <2>1. req[u].pc = "restore" /\ UNCHANGED <<mem, listed>> /\ Fails(u)
    BY <1>1, <1>11, RestoreStep
  <2> QED
    BY <1>2, <2>1 DEF WriteSteps
<1>12. CASE Walks(u)
  <2>1. Passes(u) /\ UNCHANGED mem
    BY <1>1, <1>12, WalkStep DEF stores
  <2>2. ~Reserves(u)'
    BY <2>1, IdleTyped DEF Passes, Ends, Reserves, WriteSteps
  <2>3. CASE req[u].pc \in {"unreserve", "unlist"}
    <3>1. listed'[req[u].id] = None /\ \A n \in Ids \ {req[u].id} : listed'[n] = listed[n]
      BY <1>1, <1>12, <2>3, WalkListed
    <3>2. Reserves(u)
      BY <1>1, <2>3, StepKnows DEF Reserves
    <3> QED
      BY <2>1, <2>2, <3>1, <3>2 DEF Owning
  <2>4. CASE req[u].pc \notin {"unreserve", "unlist"}
    BY <1>1, <1>12, <2>1, <2>2, <2>4, WalkListed DEF Owning
  <2> QED
    BY <2>3, <2>4
<1> QED
  BY <1>4, <1>5, <1>6, <1>7, <1>8, <1>9, <1>10, <1>11, <1>12 DEF Handles

\* A source is in the list a handler writes because it was there, or the handler has
\* reserved its identifier.
LEMMA WrittenOwner ==
  ASSUME SourcesInv, NEW u \in Users, req[u].pc = "save", NEW i \in Ids,
         NextList(u)[i] # None
  PROVE  mem[req[u].kind][i] # None \/ (Reserves(u) /\ req[u].id = i)
<1>1. RequestsOK /\ ListsOK /\ AdmitInv
  BY TypeParts DEF SourcesInv
<1>2. /\ req[u].kind \in Kinds /\ req[u].id \in Ids /\ Admitted(u)
      /\ req[u].op \in {"create", "update", "delete"}
  BY <1>1, StepKnows DEF AdmitInv, Inside, WriteSteps
<1>3. i # req[u].id => NextList(u)[i] = mem[req[u].kind][i]
  BY <1>1, <1>2, NextListTyped DEF ListsOK
<1> QED
  BY <1>2, <1>3 DEF Admitted, Reserves, WriteSteps

\* While sources are still to be listed nobody is at work, if requests wait for it.
LEMMA ServedEmpty ==
  ASSUME SourcesInv, NEW u \in Users, Handles(u), Served
  PROVE  \A k \in Kinds : greet[k] = {}
<1>1. /\ RequestsOK /\ SnapshotOK /\ PolicyOK /\ SpentOK /\ GreetInv /\ EarlyUsers \in BOOLEAN
  BY TypeParts, Bounds DEF SourcesInv
<1>2. CASE Asks(u)
  BY <1>1, <1>2, AskSteps DEF GreetInv, Served
<1>3. CASE ~Asks(u)
  <2>1. req[u].pc # "idle"
    BY <1>3 DEF Handles, Reserve, Enters, CliCreate, HttpCreate, BalanceCreate, CliUpdate,
       HttpUpdate, BalanceUpdate, CliDelete, HttpDelete, BalanceDelete, Locks, TouchSecret,
       SecretFails, Save, SaveFails, Restore, Walks, Unreserve, ReadPolicy, Register, Refresh,
       Unlist, Withdraw, SaveSettings, SaveSettingsFails, InsertPolicy, ApplyPolicy, Trigger, At
  <2> QED
    BY <1>1, <2>1, IdleTyped DEF GreetInv
<1> QED
  BY <1>2, <1>3

\* Sources that are still to be listed are in the list, and nobody is at work on them.
LEMMA GreetInvStep ==
  ASSUME SourcesInv, [Next]_vars
  PROVE  GreetInv'
<1>1. /\ ListsOK /\ LoopsOK /\ RequestsOK /\ LockInv /\ GreetInv /\ PolicyOK /\ SpentOK
      /\ ListInv /\ FileInv /\ AdmitInv
  BY TypeParts DEF SourcesInv
<1>2. ASSUME NEW u \in Users, Handles(u) PROVE GreetInv'
  <2>1. UNCHANGED greet /\ Writing(u) /\ spent'.crashes = spent.crashes
    BY <1>2, HandlerStep
  <2>2. Served' => \A k \in Kinds : greet'[k] = {}
    BY <1>2, <2>1, ServedEmpty DEF Served
  <2>3. ASSUME NEW k \in Kinds, NEW i \in greet'[k] PROVE mem'[k][i] # None
    <3>1. lock[k] = None /\ mem[k][i] # None
      BY <1>1, <2>1, <2>3 DEF LockInv, GreetInv
    <3>2. req[u].pc = "save" => req[u].kind # k
      BY <1>1, <3>1, NoneAssumption DEF LockInv, Inside
    <3>3. mem'[k] = mem[k]
      BY <1>1, <2>1, <3>2 DEF Writing, ListsOK
    <3> QED
      BY <3>1, <3>3
  <2> QED
    BY <1>1, <2>1, <2>2, <2>3 DEF GreetInv
<1>3. ASSUME UNCHANGED <<mem, req>>, spent'.crashes = spent.crashes,
             \A k \in Kinds : greet'[k] \subseteq greet[k]
      PROVE  GreetInv'
  BY <1>1, <1>3 DEF GreetInv, Served
<1>4. CASE Crash
  <2>1. /\ \A k \in Kinds, i \in Ids : i \in greet'[k] <=> mem'[k][i] # None
        /\ greet' \in [Kinds -> SUBSET Ids]
        /\ spent'.crashes > 0 /\ SpentOK' /\ req' = [u \in Users |-> Idle]
    BY <1>1, <1>4, CrashStep
  <2>2. spent'.crashes # 0
    BY <2>1, Bounds DEF SpentOK
  <2> QED
    BY <2>1, <2>2 DEF GreetInv
<1> QED
  BY <1>2, <1>3, <1>4, NextSteps, LoopStep

\* An identifier has one owner, and who has it is listed.
LEMMA OwnStep ==
  ASSUME SourcesInv, [Next]_vars
  PROVE  OwnInv'
<1>1. /\ ListsOK /\ LoopsOK /\ RequestsOK /\ LockInv /\ GreetInv /\ PolicyOK /\ SpentOK
      /\ ListInv /\ FileInv /\ AdmitInv /\ OwnInv
  BY TypeParts DEF SourcesInv
<1>2. ASSUME NEW u \in Users, Handles(u) PROVE OwnInv'
  <2> DEFINE k == req[u].kind
             i == req[u].id
  <2> SUFFICES ASSUME Served' PROVE OwnInv'
    BY DEF OwnInv
  <2>1. UNCHANGED greet /\ Others(u) /\ spent'.crashes = spent.crashes
    BY <1>2, HandlerStep
  <2>2. Served /\ \A l \in Kinds : greet[l] = {}
    BY <1>2, <2>1, ServedEmpty DEF Served
  <2>3. OneOwner(mem) /\ \A l \in Kinds, n \in Ids : mem[l][n] # None => listed[n] # None
    BY <1>1, <2>2 DEF OwnInv
  <2>4. \A v \in Users : Reserves(v) =>
          /\ listed[req[v].id] # None
          /\ \A l \in Kinds : mem[l][req[v].id] = None
          /\ \A w \in Users : Reserves(w) /\ req[w].id = req[v].id => w = v
    BY <1>1, <2>2 DEF OwnInv
  <2>5. \A v \in Users \ {u} : req'[v] = req[v] /\ Reserves(v)' = Reserves(v)
    BY <2>1 DEF Others, Reserves
  <2>6. \A v \in Users : Reserves(v) => req[v].id \in Ids
    BY <1>1, StepKnows DEF Reserves, WriteSteps
  <2>7. CASE Reserves(u) /\ Reserves(u)' /\ req'[u].id = i /\ UNCHANGED <<mem, listed>>
    BY <2>1, <2>3, <2>4, <2>5, <2>7 DEF OwnInv
  <2>8. CASE /\ Reserves(u) /\ ~Reserves(u)' /\ UNCHANGED mem
             /\ listed'[i] = None /\ \A n \in Ids \ {i} : listed'[n] = listed[n]
    <3>1. \A l \in Kinds, n \in Ids : mem'[l][n] # None => listed'[n] # None
      BY <2>3, <2>4, <2>8
    <3>2. \A v \in Users : Reserves(v)' => v # u /\ req'[v].id \in Ids \ {i}
      BY <2>4, <2>5, <2>6, <2>8
    <3> QED
      BY <2>3, <2>4, <2>5, <2>8, <3>1, <3>2 DEF OwnInv
  <2>9. CASE /\ Reserves(u)' /\ req'[u].id = i /\ i \in Ids /\ UNCHANGED mem
             /\ listed[i] = None /\ listed'[i] # None
             /\ \A n \in Ids \ {i} : listed'[n] = listed[n]
    <3>1. \A l \in Kinds, n \in Ids : mem'[l][n] # None => listed'[n] # None
      BY <2>3, <2>9
    <3>2. \A l \in Kinds : mem[l][i] = None
      BY <2>3, <2>9
    <3>3. \A v \in Users \ {u} : Reserves(v)' => req'[v].id \in Ids \ {i}
      BY <2>4, <2>5, <2>6, <2>9
    <3> QED
      BY <2>3, <2>4, <2>5, <2>9, <3>1, <3>2, <3>3 DEF OwnInv
  <2>10. CASE /\ ~Reserves(u)' /\ UNCHANGED mem
              /\ \A n \in Ids : listed[n] # None => listed'[n] # None
    BY <2>3, <2>4, <2>5, <2>6, <2>10 DEF OwnInv
  <2>11. CASE /\ req[u].pc = "save" /\ k \in Kinds /\ i \in Ids /\ UNCHANGED listed
              /\ mem' = [mem EXCEPT ![k] = NextList(u)]
              /\ \/ ~Reserves(u)' /\ req[u].op # "delete"
                 \/ req[u].op = "delete" /\ Reserves(u)' /\ req'[u].id = i
    <3>1. \A l \in Kinds, n \in Ids :
             mem'[l][n] # None => mem[l][n] # None \/ (Reserves(u) /\ n = i /\ l = k)
      BY <1>1, <2>11, WrittenOwner DEF ListsOK
    <3>2. \A l \in Kinds, n \in Ids : mem'[l][n] # None => listed'[n] # None
      BY <2>3, <2>4, <2>11, <3>1
    <3>3. OneOwner(mem')
      BY <2>3, <2>4, <3>1 DEF OneOwner
    <3>4. ASSUME NEW v \in Users \ {u}, Reserves(v)
          PROVE  \A l \in Kinds : mem'[l][req[v].id] = None
      BY <2>4, <2>6, <3>1, <3>4
    <3>5. ASSUME req[u].op = "delete"
          PROVE  /\ mem[k][i] # None /\ listed[i] # None
                 /\ \A l \in Kinds : mem'[l][i] = None
      <4>1. mem[k][i] # None
        BY <1>1, <2>11, <3>5 DEF AdmitInv, Admitted, Inside
      <4>2. NextList(u)[i] = None
        BY <1>1, <2>11, <3>5, StepKnows, NextListTyped DEF ListsOK
      <4>3. \A l \in Kinds \ {k} : mem'[l][i] = None
        BY <1>1, <2>3, <2>11, <4>1 DEF ListsOK, OneOwner
      <4> QED
        BY <1>1, <2>3, <2>11, <4>1, <4>2, <4>3 DEF ListsOK
    <3>6. ASSUME NEW v \in Users, Reserves(v)'
          PROVE  /\ listed'[req'[v].id] # None
                 /\ \A l \in Kinds : mem'[l][req'[v].id] = None
                 /\ \A w \in Users : Reserves(w)' /\ req'[w].id = req'[v].id => w = v
      <4>1. CASE v = u
        <5>1. req[u].op = "delete" /\ req'[u].id = i
          BY <2>11, <3>6, <4>1
        <5>2. \A w \in Users \ {u} : Reserves(w)' => req'[w].id # i
          BY <2>4, <2>5, <2>11, <3>5, <5>1
        <5> QED
          BY <2>11, <3>5, <4>1, <5>1, <5>2
      <4>2. CASE v # u
        <5>1. Reserves(v) /\ req'[v] = req[v]
          BY <2>5, <3>6, <4>2
        <5>2. Reserves(u)' => req'[u].id # req[v].id
          BY <2>4, <2>11, <3>5, <5>1
        <5> QED
          BY <2>4, <2>5, <2>11, <3>4, <4>2, <5>1, <5>2
      <4> QED
        BY <4>1, <4>2
    <3> QED
      BY <3>2, <3>3, <3>6 DEF OwnInv
  <2> QED
    BY <1>2, <2>7, <2>8, <2>9, <2>10, <2>11, OwningStep DEF Owning
<1>3. ASSUME UNCHANGED <<mem, req>>, spent'.crashes = spent.crashes,
             \A l \in Kinds, n \in Ids : n \in greet[l] /\ n \notin greet'[l] => listed'[n] # None,
             \A n \in Ids : listed[n] # None => listed'[n] # None
      PROVE  OwnInv'
  <2> SUFFICES ASSUME Served' PROVE OwnInv'
    BY DEF OwnInv
  <2>1. Served
    BY <1>3 DEF Served
  <2>2. \A v \in Users : Reserves(v) => req[v].id \in Ids
    BY <1>1, StepKnows DEF Reserves, WriteSteps
  <2> QED
    BY <1>1, <1>3, <2>1, <2>2 DEF OwnInv, Reserves
<1>4. ASSUME NEW l \in Kinds, NEW n \in Ids, Greet(l, n) PROVE OwnInv'
  <2>1. /\ greet' = [greet EXCEPT ![l] = greet[l] \ {n}]
        /\ listed'[n] # None /\ \A m \in Ids \ {n} : listed'[m] = listed[m]
        /\ UNCHANGED <<alive, stores, secret, req, spent>>
    BY <1>1, <1>4, GreetStep, TypeParts DEF SourcesInv
  <2>2. \A m \in Kinds, p \in Ids : p \in greet[m] /\ p \notin greet'[m] => p = n
    BY <1>1, <2>1 DEF LoopsOK
  <2> QED
    BY <1>3, <2>1, <2>2 DEF stores
<1>5. ASSUME NEW l \in Kinds, Begins(l) \/ \E n \in Ids : Collecting(l, n) PROVE OwnInv'
  <2>1. /\ UNCHANGED <<mem, req>> /\ spent'.crashes = spent.crashes
        /\ \A n \in Ids : listed[n] # None => listed'[n] # None
    BY <1>5, LoopStep
  <2>2. UNCHANGED greet
    BY <1>1, <1>5, BeginStep, CollectingStep, TypeParts DEF SourcesInv
  <2> QED
    BY <1>3, <2>1, <2>2
<1>6. CASE UNCHANGED vars
  BY <1>3, <1>6 DEF vars, stores, loops
<1>7. CASE Crash
  <2> SUFFICES ASSUME Served' PROVE OwnInv'
    BY DEF OwnInv
  <2>1. /\ \A k \in Kinds :
               \/ mem'[k] = NoList
               \/ mem'[k] = mem[k]
               \/ /\ lock[k] # None /\ req[lock[k]].pc = "save"
                  /\ mem'[k] = NextList(lock[k])
        /\ \A k \in Kinds, i \in Ids : i \in greet'[k] <=> mem'[k][i] # None
        /\ spent'.crashes > 0 /\ SpentOK' /\ req' = [u \in Users |-> Idle]
    BY <1>1, <1>7, CrashStep
  <2>2. Served
    <3>1. spent'.crashes # 0
      BY <2>1, Bounds DEF SpentOK
    <3> QED
      BY <3>1 DEF Served
  <2>3. \A k \in Kinds : lock[k] # None => lock[k] \in Users /\ req[lock[k]].kind = k
    BY <1>1 DEF LockInv, ListsOK
  <2>4. ASSUME NEW k \in Kinds, NEW i \in Ids, mem'[k][i] # None
        PROVE  \/ mem[k][i] # None
               \/ /\ lock[k] \in Users /\ req[lock[k]].kind = k
                  /\ Reserves(lock[k]) /\ req[lock[k]].id = i
    <3>1. NoList[i] = None
      BY DEF NoList
    <3> QED
      BY <2>1, <2>3, <2>4, <3>1, WrittenOwner
  <2>5. ASSUME NEW i \in Ids, NEW k \in Kinds, NEW l \in Kinds,
               mem'[k][i] # None, mem'[l][i] # None
        PROVE  k = l
    <3>1. \A v \in Users : Reserves(v) =>
             /\ \A m \in Kinds : mem[m][req[v].id] = None
             /\ \A w \in Users : Reserves(w) /\ req[w].id = req[v].id => w = v
      BY <1>1, <2>2 DEF OwnInv
    <3>2. mem[k][i] # None /\ mem[l][i] # None => k = l
      BY <1>1, <2>2 DEF OwnInv, OneOwner
    <3> QED
      BY <2>4, <2>5, <3>1, <3>2
  <2>6. \A v \in Users : ~Reserves(v)'
    BY <2>1, IdleTyped DEF Reserves, WriteSteps
  <2> QED
    BY <2>1, <2>5, <2>6 DEF OwnInv, OneOwner
<1> QED
  BY <1>2, <1>4, <1>5, <1>6, <1>7, NextSteps
-----------------------------------------------------------------------------
(* Credentials. *)

\* What a handler's step does to credentials: only that of its source, under the lock,
\* and when it leaves, credential and configuration go together.
Crediting(u) == LET k == req[u].kind  i == req[u].id IN
    /\ \A l \in Kinds, n \in Ids : ~(Inside(u) /\ l = k /\ n = i) =>
          secret'[l][n] = secret[l][n] /\ mem'[l][n] = mem[l][n]
    /\ Inside(u) => Inside(u)' \/ GoesWith(secret'[k][i], mem'[k][i])
    /\ Inside(u)' => CredentialOf(u)'

\* What is stored goes with the configuration that was entered.
LEMMA StoredGoes ==
  ASSUME RequestsOK, ListInv, ListsOK, KeyringOK, NEW u \in Users, req[u].pc = "secret",
         GoesWith(secret[req[u].kind][req[u].id], mem[req[u].kind][req[u].id]),
         req[u].op = "update" /\ req[u].update = "keep"
            /\ secret[req[u].kind][req[u].id] # None =>
               ~ScopeChanged(mem[req[u].kind][req[u].id], req[u].config)
  PROVE  GoesWith(Stored(u), req[u].config)
<1> DEFINE r == req[u]
<1>1. /\ r.kind \in Kinds /\ r.id \in Ids /\ r.op \in {"create", "update", "delete"}
      /\ r.op \in {"create", "update"} =>
            r.config \in ConfigsOf(r.kind) /\ r.update \in UpdatesOf(r.kind, r.config)
      /\ r.op = "create" => r.update # "keep"
      /\ r.op = "delete" => r.update = "clear"
  BY StepKnows DEF WriteSteps
<1>2. CASE r.update = "clear"
  BY <1>2 DEF Stored, Applied, GoesWith
<1>3. CASE r.update = "set"
  <2>1. r.config \in ConfigsOf(r.kind) /\ r.config.auth
    BY <1>1, <1>3 DEF UpdatesOf
  <2>2. r.config # None /\ Stored(u) = r.config.scope
    BY <1>3, <2>1, AcceptedTyped DEF Stored, Applied
  <2> QED
    BY <2>1, <2>2 DEF GoesWith
<1>4. CASE r.update = "keep"
  <2>1. r.op = "update" /\ r.config \in ConfigsOf(r.kind)
    BY <1>1, <1>4
  <2>2. r.config # None /\ Stored(u) = secret[r.kind][r.id] /\ r.config.auth \in BOOLEAN
    BY <1>4, <2>1, AcceptedTyped, ConfigTyped DEF Stored, Applied
  <2>3. CASE Stored(u) # None
    BY <1>4, <2>1, <2>2, <2>3 DEF GoesWith, ScopeChanged
  <2> QED
    BY <2>3 DEF GoesWith
<1> QED
  BY <1>1, <1>2, <1>3, <1>4 DEF UpdatesOf

\* Every step of a handler changes credentials this way.
LEMMA CreditingStep ==
  ASSUME SourcesInv, NEW u \in Users, Handles(u),
         spent'.failures <= 1, spent'.crashes = 0
  PROVE  Crediting(u)
<1> DEFINE k == req[u].kind
           i == req[u].id
           c == mem[k][i]
           s == secret[k][i]
<1>1. /\ ListsOK /\ KeyringOK /\ SnapshotOK /\ LoopsOK /\ ShownOK /\ RequestsOK
      /\ PolicyOK /\ SpentOK /\ ListInv /\ LockInv /\ AdmitInv /\ SecretInv
      /\ spent.failures \in Nat
  BY TypeParts DEF SourcesInv, SpentOK
<1>2. spent.failures <= 1 /\ spent.crashes = 0
  BY <1>1, HandlerStep DEF SpentOK
<1>3. Inside(u) => k \in Kinds /\ i \in Ids /\ CredentialOf(u) /\ Admitted(u)
  BY <1>1, <1>2, StepKnows DEF SecretInv, AdmitInv, Inside
<1>4. k \in Kinds /\ i \in Ids /\ lock[k] = None => GoesWith(s, c)
  BY <1>1, <1>2 DEF SecretInv
<1>5. ASSUME UNCHANGED <<secret, mem>>, ~Inside(u), ~Inside(u)' PROVE Crediting(u)
  BY <1>5 DEF Crediting
<1>6. ASSUME UNCHANGED <<secret, mem>>, Inside(u), GoesWith(s, c), ~Inside(u)'
      PROVE  Crediting(u)
  BY <1>6 DEF Crediting
<1>7. Fails(u) \/ Ends(u) => ~Inside(u)'
  BY IdleTyped DEF Fails, Ends, Goes, Inside
<1>8. CASE Asks(u)
  BY <1>1, <1>5, <1>8, AskSteps, IdleTyped DEF OnlyRequests, stores, Inside
<1>9. CASE Reserve(u)
  <2>1. /\ req[u].pc = "reserve" /\ UNCHANGED <<stores, secret>>
        /\ Ends(u) \/ Goes(u, "lock")
    BY <1>1, <1>9, ReserveStep
  <2> QED
    BY <1>5, <1>7, <2>1 DEF Inside, Goes, stores
<1>10. CASE Enters(u)
  <2>1. /\ req[u].pc = "lock" /\ k \in Kinds /\ lock[k] = None
        /\ Taken(u) \/ Fails(u)
        /\ UNCHANGED <<mem, secret>>
    BY <1>1, <1>10, EnterStep
  <2>2. CASE Fails(u)
    BY <1>5, <1>7, <2>1, <2>2 DEF Inside
  <2>3. CASE Taken(u)
    <3>1. i \in Ids /\ GoesWith(s, c)
      BY <1>1, <1>4, <2>1, StepKnows
    <3>2. req'[u].kind = k /\ req'[u].id = i
      BY <2>3 DEF Taken, Keeps
    <3>3. c \in ConfigsOf(k) \cup {None} /\ (c # None => c.auth \in BOOLEAN)
      BY <1>1, <2>1, <3>1, AcceptedTyped, ConfigTyped DEF ListInv
    <3>4. req'[u].pc = "save" => ~req'[u].touched /\ s = None
      <4>1. CASE k = "cli"
        BY <2>3, <3>1, <3>3, <4>1, AcceptedTyped DEF GoesWith, Taken
      <4>2. CASE k # "cli"
        BY <2>3, <3>1, <3>3, <4>2 DEF GoesWith, Taken
      <4> QED
        BY <4>1, <4>2
    <3>5. CredentialOf(u)'
      BY <2>1, <2>3, <3>1, <3>2, <3>4 DEF CredentialOf, Taken
    <3> QED
      BY <2>1, <3>5 DEF Crediting, Inside
  <2> QED
    BY <2>1, <2>2, <2>3
<1>11. CASE TouchSecret(u)
  <2>1. req[u].pc = "secret" /\ UNCHANGED mem
    BY <1>1, <1>11, TouchStep
  <2>2. GoesWith(s, c) /\ req[u].touched
    BY <1>3, <2>1 DEF CredentialOf, Inside, Admitted
  <2>3. CASE Ends(u) /\ UNCHANGED secret
    BY <1>6, <1>7, <2>1, <2>2, <2>3 DEF Inside
  <2>4. CASE /\ Keeps(u) /\ req'[u].pc = "save" /\ req'[u].touched = req[u].touched
             /\ req'[u].old = s /\ secret' = [secret EXCEPT ![k][i] = Stored(u)]
             /\ req[u].op = "update" /\ req[u].update = "keep" /\ s # None =>
                   ~ScopeChanged(c, req[u].config)
    <3>1. GoesWith(Stored(u), req[u].config)
      BY <1>1, <2>1, <2>2, <2>4, StoredGoes
    <3>2. secret'[k][i] = Stored(u)
      BY <1>1, <1>3, <2>1, <2>4 DEF KeyringOK, Inside
    <3>3. CredentialOf(u)'
      BY <2>1, <2>2, <2>4, <3>1, <3>2 DEF CredentialOf, Keeps
    <3>4. \A l \in Kinds, n \in Ids : ~(l = k /\ n = i) => secret'[l][n] = secret[l][n]
      BY <1>1, <2>4 DEF KeyringOK
    <3> QED
      BY <2>1, <2>4, <3>3, <3>4 DEF Crediting, Inside
  <2> QED
    BY <1>1, <1>11, <2>3, <2>4, TouchStep
<1>12. CASE SecretFails(u)
  <2>1. req[u].pc = "secret" /\ UNCHANGED <<mem, secret>> /\ Fails(u)
    BY <1>1, <1>12, SecretFailsStep
  <2> QED
    BY <1>3, <1>6, <1>7, <2>1 DEF CredentialOf, Inside
<1>13. CASE Save(u)
  <2>1. /\ req[u].pc = "save" /\ k \in Kinds /\ i \in Ids /\ UNCHANGED secret
        /\ req'[u].pc \in {"unlist", "policy", "refresh"}
        /\ mem' = [mem EXCEPT ![k] = NextList(u)]
    BY <1>1, <1>13, SaveStep
  <2>2. /\ mem'[k][i] = req[u].config
        /\ \A l \in Kinds, n \in Ids : ~(l = k /\ n = i) => mem'[l][n] = mem[l][n]
    <3>1. NextList(u)[i] = req[u].config /\ \A n \in Ids : n # i => NextList(u)[n] = mem[k][n]
      BY <1>1, <2>1, NextListTyped DEF ListsOK
    <3> QED
      BY <1>1, <2>1, <3>1 DEF ListsOK
  <2>3. GoesWith(s, req[u].config)
    BY <1>3, <2>1 DEF CredentialOf, Inside, GoesWith
  <2> QED
    BY <2>1, <2>2, <2>3 DEF Crediting, Inside
<1>14. CASE SaveFails(u)
  <2>1. /\ req[u].pc = "save" /\ UNCHANGED <<mem, secret>>
        /\ \/ req[u].touched /\ Goes(u, "restore")
           \/ ~req[u].touched /\ Fails(u)
        /\ spent'.failures = spent.failures + 1
    BY <1>1, <1>14, SaveFailsStep
  <2>2. CASE ~req[u].touched /\ Fails(u)
    BY <1>3, <1>6, <1>7, <2>1, <2>2 DEF CredentialOf, Inside, GoesWith
  <2>3. CASE req[u].touched /\ Goes(u, "restore")
    <3>1. spent'.failures > 0
      BY <1>1, <2>1
    <3>2. GoesWith(req[u].old, c)
      BY <1>3, <2>1, <2>3 DEF CredentialOf, Inside
    <3>3. CredentialOf(u)'
      BY <2>1, <2>3, <3>1, <3>2 DEF CredentialOf, Goes, Keeps
    <3> QED
      BY <2>1, <2>3, <3>3 DEF Crediting, Inside, Goes
  <2> QED
    BY <2>1, <2>2, <2>3
<1>15. CASE Restore(u)
  <2>1. /\ req[u].pc = "restore" /\ UNCHANGED mem /\ Fails(u)
        /\ \/ secret' = [secret EXCEPT ![k][i] = req[u].old]
           \/ spent'.failures = spent.failures + 1
    BY <1>1, <1>15, RestoreStep
  <2>2. GoesWith(req[u].old, c) /\ spent.failures > 0 /\ k \in Kinds /\ i \in Ids
    BY <1>3, <2>1 DEF CredentialOf, Inside
  <2>3. secret' = [secret EXCEPT ![k][i] = req[u].old]
    BY <1>1, <2>1, <2>2
  <2>4. /\ secret'[k][i] = req[u].old
        /\ \A l \in Kinds, n \in Ids : ~(l = k /\ n = i) => secret'[l][n] = secret[l][n]
    BY <1>1, <2>2, <2>3 DEF KeyringOK
  <2> QED
    BY <1>7, <2>1, <2>2, <2>4 DEF Crediting, Inside
<1>16. CASE Walks(u)
  <2>1. Passes(u) /\ UNCHANGED <<stores, secret>>
    BY <1>1, <1>16, WalkStep
  <2>2. ~Inside(u) /\ ~Inside(u)'
    BY <1>7, <2>1 DEF Passes, Inside
  <2> QED
    BY <1>5, <2>1, <2>2 DEF stores
<1> QED
  BY <1>8, <1>9, <1>10, <1>11, <1>12, <1>13, <1>14, <1>15, <1>16 DEF Handles

\* Credentials and configurations go together.
LEMMA SecretStep ==
  ASSUME SourcesInv, [Next]_vars
  PROVE  SecretInv'
<1>1. /\ RequestsOK /\ LockInv /\ SecretInv /\ ListsOK /\ PolicyOK /\ SpentOK
      /\ ListInv /\ FileInv /\ AdmitInv
  BY TypeParts DEF SourcesInv
<1> SUFFICES ASSUME spent'.failures <= 1, spent'.crashes = 0 PROVE SecretInv'
  BY DEF SecretInv
<1>2. ASSUME spent'.failures >= spent.failures, spent'.crashes = spent.crashes
      PROVE  /\ \A k \in Kinds, i \in Ids :
                  \/ GoesWith(secret[k][i], mem[k][i])
                  \/ lock[k] # None /\ req[lock[k]].id = i
             /\ \A u \in Users : Inside(u) => CredentialOf(u)
             /\ spent.failures > 0 => spent'.failures > 0
  <2>1. spent.failures \in Nat /\ spent'.failures \in Nat
    BY <1>1, SpentTyped DEF SpentOK
  <2>2. spent.failures <= 1 /\ spent.crashes = 0
    BY <1>2, <2>1
  <2> QED
    BY <1>1, <1>2, <2>1, <2>2 DEF SecretInv
<1>3. ASSUME NEW u \in Users, Handles(u) PROVE SecretInv'
  <2>1. Others(u) /\ spent'.failures >= spent.failures /\ spent'.crashes = spent.crashes
    BY <1>3, HandlerStep
  <2>2. Crediting(u) /\ LockInv'
    BY <1>3, CreditingStep, LockStep
  <2>3. Inside(u) => lock[req[u].kind] = u /\ req[u].kind \in Kinds
    BY <1>1, StepKnows DEF LockInv, Inside
  <2>4. ASSUME NEW l \in Kinds, NEW n \in Ids
        PROVE  \/ GoesWith(secret'[l][n], mem'[l][n])
               \/ lock'[l] # None /\ req'[lock'[l]].id = n
    <3>1. CASE Inside(u) /\ l = req[u].kind /\ n = req[u].id
      <4>1. GoesWith(secret'[l][n], mem'[l][n]) \/ Inside(u)'
        BY <2>2, <3>1 DEF Crediting
      <4>2. Inside(u)' => req'[u].kind = l /\ req'[u].id = n
        BY <1>3, <3>1, HandlerStep DEF Locking, Keeps
      <4>3. Inside(u)' => lock'[l] = u /\ u # None
        BY <2>2, <4>2, NoneAssumption DEF LockInv, Inside
      <4> QED
        BY <4>1, <4>2, <4>3
    <3>2. CASE ~(Inside(u) /\ l = req[u].kind /\ n = req[u].id)
      <4>1. secret'[l][n] = secret[l][n] /\ mem'[l][n] = mem[l][n]
        BY <2>2, <3>2 DEF Crediting
      <4>2. CASE GoesWith(secret[l][n], mem[l][n])
        BY <4>1, <4>2
      <4>3. CASE lock[l] # None /\ req[lock[l]].id = n
        <5>1. PICK w \in Users : lock[l] = w /\ req[w].kind = l /\ Inside(w)
          BY <1>1, <4>3 DEF LockInv, ListsOK
        <5>2. w # u
          BY <3>2, <4>3, <5>1
        <5>5. w # None
          BY NoneAssumption
        <5>3. req'[w] = req[w] /\ Inside(w)'
          BY <2>1, <5>1, <5>2 DEF Others, Inside
        <5>4. lock'[l] = w
          BY <2>2, <5>1, <5>3 DEF LockInv
        <5> QED
          BY <4>3, <5>1, <5>3, <5>4, <5>5
      <4> QED
        BY <1>2, <2>1, <4>2, <4>3
    <3> QED
      BY <3>1, <3>2
  <2>5. ASSUME NEW v \in Users, Inside(v)' PROVE CredentialOf(v)'
    <3>1. CASE v = u
      BY <2>2, <2>5, <3>1 DEF Crediting
    <3>2. CASE v # u
      <4>1. req'[v] = req[v] /\ Inside(v)
        BY <2>1, <2>5, <3>2 DEF Others, Inside
      <4>2. req[v].kind \in Kinds /\ req[v].id \in Ids
        BY <1>1, <4>1, StepKnows DEF Inside
      <4>3. Inside(u) => req[u].kind # req[v].kind
        BY <1>3, <3>2, <4>1, OnlyHolder
      <4>4. /\ secret'[req[v].kind][req[v].id] = secret[req[v].kind][req[v].id]
            /\ mem'[req[v].kind][req[v].id] = mem[req[v].kind][req[v].id]
        BY <2>2, <4>2, <4>3 DEF Crediting
      <4>5. CredentialOf(v) /\ (spent.failures > 0 => spent'.failures > 0)
        BY <1>2, <2>1, <4>1
      <4> QED
        BY <4>1, <4>4, <4>5 DEF CredentialOf
    <3> QED
      BY <3>1, <3>2
  <2> QED
    BY <2>4, <2>5 DEF SecretInv, Inside
<1>4. ASSUME UNCHANGED <<mem, lock, secret, req>>, spent'.failures >= spent.failures,
             spent'.crashes = spent.crashes
      PROVE  SecretInv'
  BY <1>2, <1>4 DEF SecretInv, Inside, CredentialOf, GoesWith
<1>5. CASE Crash
  <2>1. spent'.crashes > 0 /\ spent'.crashes \in Int
    BY <1>1, <1>5, CrashStep, Bounds DEF SpentOK
  <2> QED
    BY <2>1
<1> QED
  BY <1>3, <1>4, <1>5, NextSteps, LoopStep
-----------------------------------------------------------------------------
(* What is shown. *)

\* What a handler's step does to what will be shown of a source: somebody will ask for
\* a collection, or the source is gone, or no more counts than before.
Showing(u, k, i) ==
    /\ UNCHANGED job /\ \A l \in Kinds : Range(queue[l]) \subseteq Range(queue'[l])
    /\ \/ Follow(k, i)'
       \/ mem'[k][i] = None
       \/ /\ ~Follows(u, k, i) /\ mem'[k][i] = mem[k][i]
          /\ Counts(k, i)' => Counts(k, i)
          /\ shown'[k][i] \in {shown[k][i], None}

\* Every step of a handler is of this form, as long as nothing has failed.
LEMMA ShowingStep ==
  ASSUME SourcesInv, NEW u \in Users, Handles(u), NEW k \in Kinds, NEW i \in Ids,
         spent'.failures = 0, spent'.crashes = 0
  PROVE  Showing(u, k, i)
<1>1. /\ ListsOK /\ KeyringOK /\ SnapshotOK /\ LoopsOK /\ ShownOK /\ RequestsOK
      /\ PolicyOK /\ SpentOK /\ ListInv /\ AdmitInv /\ SecretInv /\ OwnInv
      /\ spent.failures \in Nat
  BY TypeParts DEF SourcesInv, SpentOK
<1>2. spent.failures = 0 /\ spent.crashes = 0 /\ UNCHANGED job /\ Others(u)
  BY <1>1, HandlerStep
<1>3. ASSUME UNCHANGED <<mem, secret, listed, queue, shown>>, ~Follows(u, k, i)
      PROVE  Showing(u, k, i)
  BY <1>2, <1>3 DEF Showing, Counts, Runs
<1>4. CASE Asks(u)
  BY <1>1, <1>3, <1>4, AskSteps, IdleTyped DEF OnlyRequests, stores, loops, Follows
<1>5. CASE Reserve(u)
  <2>1. /\ req[u].pc = "reserve" /\ UNCHANGED <<stores, secret, loops, shown>>
        /\ \/ UNCHANGED listed
           \/ /\ listed[req[u].id] = None
              /\ listed' = [listed EXCEPT ![req[u].id] =
                               Status(req[u].kind, req[u].config, FALSE, req[u].on)]
    BY <1>1, <1>5, ReserveStep
  <2>2. CASE UNCHANGED listed
    BY <1>3, <2>1, <2>2 DEF Follows, stores, loops
  <2>3. CASE listed[i] = None
    <3>1. \A l \in Kinds : greet[l] = {}
      BY <1>2, <1>5, ServedEmpty DEF Served, Handles
    <3>2. mem[k][i] = None
      BY <1>1, <1>2, <2>3, <3>1 DEF OwnInv, Served
    <3> QED
      BY <1>2, <2>1, <3>2 DEF Showing, stores, loops
  <2>4. CASE listed'[i] = listed[i]
    BY <1>2, <2>1, <2>4 DEF Showing, Follows, Counts, Runs, stores, loops
  <2> QED
    BY <1>1, <2>1, <2>2, <2>3, <2>4 DEF SnapshotOK
<1>6. CASE Enters(u)
  <2>1. req[u].pc = "lock" /\ UNCHANGED <<mem, secret, listed, loops, shown>>
    BY <1>1, <1>6, EnterStep
  <2> QED
    BY <1>3, <2>1 DEF Follows, loops
<1>7. CASE TouchSecret(u)
  <2>1. /\ req[u].pc = "secret" /\ UNCHANGED <<mem, listed, loops, shown>>
        /\ req[u].kind \in Kinds /\ req[u].id \in Ids
        /\ req[u].op \in {"create", "update", "delete"}
        /\ \/ UNCHANGED secret
           \/ /\ Keeps(u) /\ req'[u].pc = "save"
              /\ secret' = [secret EXCEPT ![req[u].kind][req[u].id] = Stored(u)]
    BY <1>1, <1>7, TouchStep
  <2>2. CASE UNCHANGED secret
    BY <1>3, <2>1, <2>2 DEF Follows, loops
  <2>3. CASE /\ Keeps(u) /\ req'[u].pc = "save"
             /\ secret' = [secret EXCEPT ![req[u].kind][req[u].id] = Stored(u)]
    <3>1. CASE ~(k = req[u].kind /\ i = req[u].id)
      <4>1. secret'[k][i] = secret[k][i]
        BY <1>1, <2>1, <2>3, <3>1 DEF KeyringOK
      <4> QED
        BY <1>2, <2>1, <4>1 DEF Showing, Follows, Counts, Runs, loops
    <3>2. CASE k = req[u].kind /\ i = req[u].id /\ req[u].op = "update"
      BY <1>2, <2>1, <2>3, <3>2 DEF Showing, Follow, Follows, Keeps, loops
    <3>3. CASE k = req[u].kind /\ i = req[u].id /\ req[u].op = "create"
      <4>1. mem[k][i] = None
        BY <1>1, <2>1, <3>3 DEF AdmitInv, Admitted, Inside
      <4> QED
        BY <1>2, <2>1, <4>1 DEF Showing, loops
    <3>4. CASE k = req[u].kind /\ i = req[u].id /\ req[u].op = "delete"
      <4>1. Stored(u) = None
        BY <1>1, <3>4, StepKnows DEF Stored, Applied
      <4>2. secret'[k][i] = None
        BY <1>1, <2>3, <3>4, <4>1 DEF KeyringOK
      <4>3. Counts(k, i)' => Counts(k, i)
        BY <2>1, <4>2 DEF Counts, Runs
      <4> QED
        BY <1>2, <2>1, <4>3 DEF Showing, Follows, loops
    <3> QED
      BY <2>1, <3>1, <3>2, <3>3, <3>4
  <2> QED
    BY <2>1, <2>2, <2>3
<1>8. CASE SecretFails(u) \/ SaveFails(u)
  <2>1. spent'.failures = spent.failures + 1
    BY <1>1, <1>8, SecretFailsStep, SaveFailsStep
  <2> QED
    BY <1>1, <2>1
<1>9. CASE Save(u)
  <2>1. /\ req[u].pc = "save" /\ req[u].kind \in Kinds /\ req[u].id \in Ids
        /\ req[u].op \in {"create", "update", "delete"} /\ Keeps(u)
        /\ req[u].op # "delete" => req'[u].pc \in {"policy", "refresh"}
        /\ mem' = [mem EXCEPT ![req[u].kind] = NextList(u)]
        /\ UNCHANGED <<secret, listed, loops, shown>>
    BY <1>1, <1>9, SaveStep
  <2>2. /\ \A n \in Ids : n # req[u].id => NextList(u)[n] = mem[req[u].kind][n]
        /\ NextList(u)[req[u].id] = req[u].config
    BY <1>1, <2>1, NextListTyped DEF ListsOK
  <2>3. CASE ~(k = req[u].kind /\ i = req[u].id)
    <3>1. mem'[k][i] = mem[k][i]
      BY <1>1, <2>1, <2>2, <2>3 DEF ListsOK
    <3> QED
      BY <1>2, <2>1, <2>3, <3>1 DEF Showing, Follows, Counts, Runs, loops
  <2>4. CASE k = req[u].kind /\ i = req[u].id /\ req[u].op # "delete"
    BY <1>2, <2>1, <2>4 DEF Showing, Follow, Follows, Keeps, loops
  <2>5. CASE k = req[u].kind /\ i = req[u].id /\ req[u].op = "delete"
    <3>1. mem'[k][i] = None
      BY <1>1, <2>1, <2>2, <2>5, StepKnows DEF ListsOK
    <3> QED
      BY <1>2, <2>1, <3>1 DEF Showing, loops
  <2> QED
    BY <2>3, <2>4, <2>5
<1>10. CASE Restore(u)
  <2>1. req[u].pc = "restore"
    BY <1>1, <1>10, RestoreStep
  <2>2. spent.failures > 0
    BY <1>1, <1>2, <2>1 DEF SecretInv, CredentialOf, Inside
  <2> QED
    BY <1>2, <2>2
<1>11. CASE Walks(u)
  <2> DEFINE r == req[u]
  <2>1. Passes(u) /\ UNCHANGED <<stores, secret>>
    BY <1>1, <1>11, WalkStep
  <2>2. /\ \A n \in Ids : listed'[n] # None /\ listed'[n].on =>
              Runs(n) \/ (n = r.id /\ req'[u].pc \in {"refresh", "trigger"})
    BY <1>1, <1>11, WalkListed
  <2>3. /\ UNCHANGED shown \/ shown' = [shown EXCEPT ![r.kind][r.id] = None]
        /\ \A l \in Kinds : Range(queue[l]) \subseteq Range(queue'[l])
        /\ r.pc = "refresh" => mem[r.kind][r.id] = None \/ r.id \in Range(queue'[r.kind])
        /\ r.pc = "trigger" => r.id \in Range(queue'[r.kind])
    BY <1>1, <1>11, WalkQueued
  <2>4. r.kind \in Kinds
    BY <1>1, <2>1, StepKnows DEF Passes
  <2>5. shown'[k][i] \in {shown[k][i], None}
    BY <1>1, <2>3 DEF ShownOK
  <2>6. CASE Follows(u, k, i)
    <3>1. CASE r.pc \in {"refresh", "trigger"}
      BY <1>2, <2>1, <2>3, <2>6, <3>1 DEF Showing, Follow, Follows, stores
    <3>2. CASE r.pc \in {"policy", "register"}
      <4>1. Follows(u, k, i)'
        BY <2>1, <2>6, <3>2 DEF Passes, Keeps, Follows
      <4> QED
        BY <1>2, <2>3, <4>1 DEF Showing, Follow
    <3> QED
      BY <2>1, <2>6, <3>1, <3>2 DEF Follows, Passes
  <2>7. CASE ~Follows(u, k, i) /\ (Counts(k, i)' => Counts(k, i))
    BY <1>2, <2>1, <2>3, <2>5, <2>7 DEF Showing, stores
  <2>8. CASE Counts(k, i)' /\ ~Counts(k, i)
    <3>1. k = "balance" /\ Kinds = {k} /\ Runs(i)' /\ ~Runs(i)
      BY <2>1, <2>8 DEF Counts, stores
    <3>2. i = r.id /\ req'[u].pc \in {"refresh", "trigger"} /\ r.kind = k
      BY <2>2, <2>4, <3>1 DEF Runs
    <3>3. Follows(u, k, i)'
      BY <2>1, <3>2, IdleTyped DEF Passes, Ends, Keeps, Follows
    <3> QED
      BY <1>2, <2>3, <3>3 DEF Showing, Follow
  <2> QED
    BY <2>6, <2>7, <2>8
<1> QED
  BY <1>4, <1>5, <1>6, <1>7, <1>8, <1>9, <1>10, <1>11 DEF Handles

\* What is right of one source.
Right(k, i) ==
    \/ Follow(k, i)
    \/ /\ WillShow(k, i) /\ mem[k][i] # None => job[k][i].config = mem[k][i]
       /\ Fresh(k, i) \/ WillRight(k, i)

\* A handler's step keeps it, as long as nothing has failed.
LEMMA HandlerShows ==
  ASSUME SourcesInv, NEW u \in Users, Handles(u), NEW k \in Kinds, NEW i \in Ids,
         spent'.failures = 0, spent'.crashes = 0, Right(k, i)
  PROVE  Right(k, i)'
<1>1. Showing(u, k, i)
  BY ShowingStep
<1>2. CASE Follow(k, i)'
  BY <1>2 DEF Right
<1>3. CASE mem'[k][i] = None
  BY <1>3 DEF Right, Fresh, Counts
<1>4. CASE /\ ~Follow(k, i)' /\ ~Follows(u, k, i) /\ mem'[k][i] = mem[k][i]
           /\ Counts(k, i)' => Counts(k, i)
           /\ shown'[k][i] \in {shown[k][i], None}
  <2>1. ~Follow(k, i)
    <3>1. Others(u)
      BY HandlerStep
    <3>2. \A v \in Users \ {u} : Follows(v, k, i) => Follows(v, k, i)'
      BY <3>1 DEF Others, Follows
    <3> QED
      BY <1>1, <1>4, <3>2 DEF Follow, Showing
  <2>2. /\ WillShow(k, i)' => WillShow(k, i)
        /\ job'[k][i] = job[k][i]
        /\ WillRight(k, i) => WillRight(k, i)'
    BY <1>1, <1>4 DEF Showing, WillShow, WillRight
  <2>3. Fresh(k, i) => Fresh(k, i)'
    BY <1>4 DEF Fresh
  <2> QED
    BY <1>4, <2>1, <2>2, <2>3 DEF Right
<1> QED
  BY <1>1, <1>2, <1>3, <1>4 DEF Showing

\* A run loop that begins keeps it: the collection it begins works with what is in
\* memory.
LEMMA BeginShows ==
  ASSUME SourcesInv, NEW l \in Kinds, Begins(l), NEW k \in Kinds, NEW i \in Ids, Right(k, i)
  PROVE  Right(k, i)'
<1>1. /\ \A n \in Ids : job[l][n] = None
      /\ \A m \in Kinds \ {l} : job'[m] = job[m] /\ queue'[m] = queue[m]
      /\ \A n \in Ids : job'[l][n] # None =>
            mem[l][n] # None /\ job'[l][n] = Job("check", mem[l][n], FALSE)
      /\ \/ UNCHANGED queue
         \/ /\ queue[l] # <<>> /\ Head(queue[l]) \in Ids /\ queue'[l] = Tail(queue[l])
            /\ mem[l][Head(queue[l])] # None => job'[l][Head(queue[l])] # None
      /\ UNCHANGED <<mem, secret, listed, req, shown>>
  BY BeginStep, TypeParts DEF SourcesInv, stores
<1>2. /\ (Counts(k, i)' <=> Counts(k, i)) /\ (Fresh(k, i) => Fresh(k, i)')
      /\ \A u \in Users : Follows(u, k, i)' <=> Follows(u, k, i)
  BY <1>1 DEF Counts, Runs, Fresh, Follows
<1>3. CASE k # l
  BY <1>1, <1>2, <1>3 DEF Right, Follow, WillShow, WillRight
<1>4. CASE k = l
  <2>1. job'[k][i] # None =>
          /\ job'[k][i].at = "check" /\ job'[k][i].config = mem[k][i]
    <3>1. job'[k][i] # None => job'[k][i] = Job("check", mem[k][i], FALSE)
      BY <1>1, <1>4
    <3> DEFINE j == job'[k][i]
    <3> HIDE DEF j
    <3>2. j = Job("check", mem[k][i], FALSE) => j.at = "check" /\ j.config = mem[k][i]
      BY DEF Job
    <3> QED
      BY <3>1, <3>2 DEF j
  <2>2. CASE ~Follow(k, i)
    BY <1>1, <1>2, <1>4, <2>1, <2>2 DEF Right, WillShow, WillRight
  <2>3. CASE Follow(k, i) /\ ~Follow(k, i)'
    <3>1. queue[k] \in Seq(Ids)
      BY TypeParts DEF SourcesInv, LoopsOK
    <3>2. queue[k] # <<>> => Range(queue[k]) = Range(Tail(queue[k])) \cup {Head(queue[k])}
      BY <3>1, ReceiveCarries
    <3>3. i = Head(queue[k]) /\ (mem[k][i] # None => job'[k][i] # None)
      BY <1>1, <1>2, <1>4, <2>3, <3>2 DEF Follow
    <3>4. CASE mem[k][i] = None
      BY <1>1, <3>4 DEF Right, Fresh, Counts
    <3>5. CASE mem[k][i] # None
      BY <1>1, <2>1, <3>3, <3>5 DEF Right, WillShow, WillRight
    <3> QED
      BY <3>4, <3>5
  <2> QED
    BY <2>2, <2>3 DEF Right
<1> QED
  BY <1>3, <1>4

\* A step of a collection keeps it.
LEMMA CollectionShows ==
  ASSUME SourcesInv, NEW l \in Kinds, NEW n \in Ids, Collecting(l, n),
         NEW k \in Kinds, NEW i \in Ids,
         spent'.failures = 0, Right(k, i)
  PROVE  Right(k, i)'
<1>1. /\ job[l][n] \in Collection
      /\ \A m \in Kinds, p \in Ids : <<m, p>> # <<l, n>> => job'[m][p] = job[m][p]
      /\ Progress(l, n)
      /\ SameRuns \/ l = "http"
      /\ UNCHANGED <<mem, secret, req, queue>>
      /\ job[l][n] # None
  BY CollectingStep, TypeParts, ValuesAssumption DEF SourcesInv, stores
<1>2. Follow(k, i)' <=> Follow(k, i)
  BY <1>1 DEF Follow, Follows
<1>3. Counts(k, i)' => Counts(k, i)
  BY <1>1 DEF Counts, Runs, SameRuns
<1>4. CASE Follow(k, i)
  BY <1>2, <1>4 DEF Right
<1>5. ASSUME ~Follow(k, i), k # l \/ i # n PROVE Right(k, i)'
  <2>1. job'[k][i] = job[k][i]
    BY <1>1, <1>5
  <2>2. shown'[k][i] = shown[k][i]
    BY <1>1, <1>5, TypeParts DEF SourcesInv, ShownOK, Progress
  <2> QED
    BY <1>1, <1>3, <1>5, <2>1, <2>2 DEF Right, WillShow, WillRight, Fresh
<1>6. ASSUME ~Follow(k, i), k = l, i = n PROVE Right(k, i)'
  <2> DEFINE c == job[k][i].config
  <2>1. /\ job[k][i] # None
        /\ WillShow(k, i) /\ mem[k][i] # None => c = mem[k][i]
        /\ Fresh(k, i) \/ WillRight(k, i)
    BY <1>1, <1>6 DEF Right
  <2>2. UNCHANGED shown => (Fresh(k, i) => Fresh(k, i)')
    BY <1>1, <1>3 DEF Fresh
  <2>3. None \notin Collection
    BY ValuesAssumption
  <2>4. ASSUME job[k][i].at = "check", UNCHANGED shown,
               \/ Further(k, i, "run") \/ Further(k, i, "secret") \/ Further(k, i, "status")
        PROVE  Right(k, i)'
    BY <1>1, <2>1, <2>2, <2>3, <2>4 DEF Right, Further, WillShow, WillRight
  <2>5. ASSUME k = "balance", ~Runs(i), Over(k, i), UNCHANGED shown PROVE Right(k, i)'
    <3>1. ~Counts(k, i)'
      BY <1>3, <2>5 DEF Counts
    <3> QED
      BY <2>5, <3>1 DEF Right, Over, WillShow, Fresh
  <2>6. ASSUME job[k][i].at = "secret", UNCHANGED shown, Further(k, i, "run")
        PROVE  Right(k, i)'
    BY <1>1, <2>1, <2>2, <2>3, <2>6 DEF Right, Further, WillShow, WillRight
  <2>7. ASSUME job[k][i].at = "secret", UNCHANGED shown, Over(k, i), c.auth, secret[k][i] = None
        PROVE  Right(k, i)'
    <3>1. mem[k][i] # None => c = mem[k][i]
      BY <2>1, <2>7 DEF WillShow
    <3>2. ~Counts(k, i)'
      BY <1>3, <2>7, <3>1 DEF Counts
    <3> QED
      BY <2>7, <3>2 DEF Right, Over, WillShow, Fresh
  <2>8. ASSUME job[k][i].at = "run", shown' = [shown EXCEPT ![k][i] = c.scope],
               Further(k, i, "ready")
        PROVE  Right(k, i)'
    <3>1. mem[k][i] # None => c = mem[k][i]
      BY <2>1, <2>8 DEF WillShow
    <3>2. shown'[k][i] = c.scope
      BY <2>8, TypeParts DEF SourcesInv, ShownOK
    <3>3. Fresh(k, i)'
      BY <1>1, <3>1, <3>2 DEF Fresh, Counts
    <3> QED
      BY <2>8, <3>3 DEF Right, Further, WillShow
  <2>9. ASSUME job[k][i].at = "ready", UNCHANGED shown, Over(k, i) PROVE Right(k, i)'
    BY <2>1, <2>2, <2>9 DEF Right, Over, WillShow, WillRight
  <2>10. ASSUME job[k][i].at = "status", Further(k, i, "stop"),
                shown' = [shown EXCEPT ![k][i] = Unavailable]
         PROVE  Right(k, i)'
    <3>1. shown'[k][i] = Unavailable
      BY <2>10, TypeParts DEF SourcesInv, ShownOK
    <3> QED
      BY <2>10, <3>1 DEF Right, Further, WillShow, Fresh
  <2>11. ASSUME job[k][i].at \in {"stop", "relist"}, UNCHANGED shown,
                Over(k, i) \/ Further(k, i, "relist")
         PROVE  Right(k, i)'
    BY <2>1, <2>2, <2>11 DEF Right, Over, Further, WillShow, WillRight
  <2>12. ~(spent'.failures > 0)
    OBVIOUS
  <2> QED
    BY <1>1, <1>6, <2>4, <2>5, <2>6, <2>7, <2>8, <2>9, <2>10, <2>11, <2>12 DEF Progress
<1> QED
  BY <1>4, <1>5, <1>6

\* What is shown stays right.
LEMMA ShownStep ==
  ASSUME SourcesInv, [Next]_vars
  PROVE  ShownInv'
<1>1. /\ RequestsOK /\ LockInv /\ ListsOK /\ PolicyOK /\ SpentOK /\ LoopsOK /\ SnapshotOK
      /\ ListInv /\ FileInv /\ AdmitInv /\ GreetInv /\ ShownInv
  BY TypeParts DEF SourcesInv
<1> SUFFICES ASSUME spent'.failures = 0, spent'.crashes = 0, NEW k \in Kinds, NEW i \in Ids
             PROVE  Right(k, i)'
  BY DEF ShownInv, Right
<1>2. ASSUME spent'.failures >= spent.failures, spent'.crashes = spent.crashes
      PROVE  Right(k, i) /\ spent.crashes = 0
  <2>1. spent.failures = 0 /\ spent.crashes = 0
    BY <1>1, <1>2 DEF SpentOK
  <2> QED
    BY <1>1, <2>1 DEF ShownInv, Right
<1>3. ASSUME NEW u \in Users, Handles(u) PROVE Right(k, i)'
  BY <1>2, <1>3, HandlerStep, HandlerShows
<1>4. ASSUME NEW l \in Kinds, Begins(l) PROVE Right(k, i)'
  BY <1>2, <1>4, LoopStep, BeginShows
<1>5. ASSUME NEW l \in Kinds, NEW n \in Ids, Collecting(l, n) PROVE Right(k, i)'
  BY <1>2, <1>5, LoopStep, CollectionShows
<1>6. ASSUME NEW l \in Kinds, NEW n \in Ids, Greet(l, n) PROVE FALSE
  <2>1. spent.crashes = 0
    BY <1>2, <1>6, LoopStep
  <2> QED
    BY <1>1, <1>6, <2>1, GreetStep DEF GreetInv
<1>7. CASE UNCHANGED vars
  BY <1>2, <1>7, LoopStep DEF vars, stores, loops, Right, Follow, Follows, WillShow, WillRight,
     Fresh, Counts, Runs
<1>8. CASE Crash
  <2>1. spent'.crashes > 0 /\ spent'.crashes \in Int
    BY <1>1, <1>8, CrashStep, Bounds DEF SpentOK
  <2> QED
    BY <2>1
<1> QED
  BY <1>3, <1>4, <1>5, <1>6, <1>7, <1>8, NextSteps
-----------------------------------------------------------------------------
(* The invariant, and what follows from it. *)

\* A start that is over satisfies the invariant.
LEMMA InitInv ==
  ASSUME Init
  PROVE  SourcesInv
<1>1. /\ alive = TRUE /\ mem \in [Kinds -> Lists] /\ OneOwner(mem) /\ file = mem
      /\ \A k \in Kinds : Within(k, mem[k])
      /\ lock = [k \in Kinds |-> None] /\ req = [u \in Users |-> Idle]
      /\ greet = [k \in Kinds |-> {}] /\ queue = [k \in Kinds |-> <<>>]
      /\ job = [k \in Kinds |-> [i \in Ids |-> None]]
      /\ spent = [ops |-> 0, failures |-> 0, crashes |-> 0]
  BY DEF Init
<1>2. ListsOK
  BY <1>1 DEF ListsOK
<1>3. KeyringOK
  BY DEF Init, KeyringOK
<1>4. RequestsOK /\ \A u \in Users : req[u].pc = "idle" /\ req[u].op = None
  BY <1>1, IdleTyped DEF RequestsOK
<1>5. SpentOK /\ spent.failures = 0 /\ spent.crashes = 0
  BY <1>1, Bounds DEF SpentOK
<1>6. PolicyOK
  BY DEF Init, PolicyOK, Policies
<1>7. LoopsOK
  <2>1. <<>> \in Seq(Ids) /\ Len(<<>>) <= TriggerCap
    BY Bounds, EmptySeq
  <2> QED
    BY <1>1, <2>1 DEF LoopsOK
<1>8. \A k \in Kinds, i \in Ids :
         shown[k][i] = Collected(mem[k][i], secret[k][i] # None)
  BY DEF Init
<1>9. ShownOK
  <2>1. \A k \in Kinds, i \in Ids : mem[k][i] \in Configs \cup {None}
    BY <1>1 DEF Lists
  <2>2. \A c \in Configs \cup {None}, h \in BOOLEAN : Collected(c, h) \in Scopes \cup {None}
    BY ConfigTyped DEF Collected
  <2> QED
    BY <2>1, <2>2 DEF Init, ShownOK
<1>10. SnapshotOK /\ \A k \in Kinds, i \in Ids : mem[k][i] # None => listed[i] # None
  <2> DEFINE owner(i) == CHOOSE k \in Kinds : mem[k][i] # None
             status(i) == Status(owner(i), mem[owner(i)][i], secret[owner(i)][i] # None,
                                 mem[owner(i)][i].on)
  <2>1. listed = [i \in Ids |-> IF \E k \in Kinds : mem[k][i] # None THEN status(i) ELSE None]
    BY DEF Init
  <2>2. ASSUME NEW i \in Ids, \E k \in Kinds : mem[k][i] # None
        PROVE  status(i) \in Entry /\ status(i) # None
    <3>1. owner(i) \in Kinds /\ mem[owner(i)][i] # None
      BY <2>2
    <3>2. ASSUME NEW k \in Kinds, mem[k][i] # None
          PROVE  LET s == Status(k, mem[k][i], secret[k][i] # None, mem[k][i].on)
                 IN  s \in Entry /\ s # None
      <4>1. mem[k][i] \in Configs
        BY <1>1, <3>2 DEF Lists
      <4> DEFINE ready == secret[k][i] # None
                 on == mem[k][i].on
      <4>2. on \in BOOLEAN /\ ready \in BOOLEAN
        BY <4>1, ConfigTyped
      <4> HIDE DEF ready, on
      <4>3. LET s == Status(k, mem[k][i], ready, on) IN s \in Entry /\ s # None
        BY <4>1, <4>2, StatusTyped
      <4> QED
        BY <4>3 DEF ready, on
    <3> HIDE DEF owner
    <3> QED
      BY <3>1, <3>2 DEF status
  <2> HIDE DEF status
  <2> QED
    BY <2>1, <2>2 DEF SnapshotOK
<1>11. LockInv /\ AdmitInv
  BY <1>1, <1>4 DEF LockInv, AdmitInv, Inside
<1>12. ListInv
  BY <1>1 DEF ListInv, Within, WithinLimit
<1>13. FileInv /\ StartsUnlessTorn
  BY <1>1 DEF FileInv, Kept, StartsUnlessTorn
<1>14. GreetInv
  BY <1>1 DEF GreetInv
<1>15. OwnInv
  <2>1. \A u \in Users : ~Reserves(u)
    BY <1>4 DEF Reserves, WriteSteps
  <2> QED
    BY <1>1, <1>10, <2>1 DEF OwnInv
<1>16. SecretInv
  <2>1. \A k \in Kinds, i \in Ids : GoesWith(secret[k][i], mem[k][i])
    BY DEF Init, GoesWith
  <2> QED
    BY <1>4, <2>1 DEF SecretInv, Inside
<1>17. ShownInv
  <2>1. \A k \in Kinds, i \in Ids : ~WillShow(k, i)
    BY <1>1 DEF WillShow
  <2>2. \A k \in Kinds, i \in Ids : Fresh(k, i)
    BY <1>8 DEF Fresh, Counts, Collected
  <2> QED
    BY <2>1, <2>2 DEF ShownInv
<1> QED
  BY <1>2, <1>3, <1>4, <1>5, <1>6, <1>7, <1>9, <1>10, <1>11, <1>12, <1>13, <1>14, <1>15,
     <1>16, <1>17, TypeParts DEF SourcesInv

\* Every step keeps the invariant.
LEMMA InvStep ==
  ASSUME SourcesInv, [Next]_vars
  PROVE  SourcesInv'
  BY TypeStep, LockStep, AdmitStepInv, ListStep, GreetInvStep, OwnStep, SecretStep, ShownStep
     DEF SourcesInv

\* The inductive invariant holds in every state.
THEOREM Invariant == Spec => []SourcesInv
  BY InitInv, InvStep, PTL DEF Spec

\* Every variable keeps its type, and a handler at work knows what it works on, in all
\* states of the Agent (web.rs, cli.rs, http.rs, balance.rs, state.rs, settings.rs).
THEOREM SourcesTypes == Spec => []TypeOK
<1>1. SourcesInv => TypeOK
  BY DEF SourcesInv
<1> QED
  BY <1>1, Invariant, PTL

\* Outside the lock a list and its file agree, except for a write in place that failed
\* (save_sources of cli.rs, http.rs and balance.rs).
THEOREM FileAgrees == Spec => []FileIsMemory
<1>1. SourcesInv => FileIsMemory
  BY DEF SourcesInv, FileInv, Kept, FileIsMemory
<1> QED
  BY <1>1, Invariant, PTL

\* The Agent starts with what it has written, unless a write in place was cut off
\* (load_sources of each type).
THEOREM StartsAgain == Spec => []StartsUnlessTorn
<1>1. SourcesInv => StartsUnlessTorn
  BY DEF SourcesInv
<1> QED
  BY <1>1, Invariant, PTL

\* An identifier belongs to one source, if no request comes before every source is listed
\* (register_source_if_absent of state.rs).
THEOREM OneOwnerOnly ==
  ASSUME ~EarlyUsers
  PROVE  Spec => []IdHasOneOwner
<1>1. SourcesInv => IdHasOneOwner
  BY DEF SourcesInv, OwnInv, Served, IdHasOneOwner
<1> QED
  BY <1>1, Invariant, PTL

\* A configured source is in the snapshot whenever requests are served, if none comes
\* before every source is listed.
THEOREM AllListed ==
  ASSUME ~EarlyUsers
  PROVE  Spec => []ConfiguredIsListed
<1>1. SourcesInv => ConfiguredIsListed
  BY DEF SourcesInv, OwnInv, Served, ConfiguredIsListed
<1> QED
  BY <1>1, Invariant, PTL

\* One failed call at most leaves a credential with what it is for (secret_apply and
\* secret_restore).
THEOREM CredentialsMatch == Spec => []SecretGoesWithConfig
<1>1. SourcesInv => SecretGoesWithConfig
  <2> SUFFICES ASSUME SourcesInv, spent.failures <= 1, spent.crashes = 0,
                      NEW k \in Kinds, NEW i \in Ids, lock[k] = None, secret[k][i] # None
               PROVE  mem[k][i] # None /\ mem[k][i].auth /\ mem[k][i].scope = secret[k][i]
    BY DEF SecretGoesWithConfig
  <2> QED
    BY DEF SourcesInv, SecretInv, GoesWith
<1> QED
  BY <1>1, Invariant, PTL

\* When everything has come to rest no data of an older configuration is shown: the last
\* collection of a source worked with the current one (refresh_source after every change).
THEOREM NothingStale == Spec => []NoStaleData
<1>1. SourcesInv => NoStaleData
  <2> SUFFICES ASSUME SourcesInv, NEW k \in Kinds, Quiet(k), spent.failures = 0,
                      spent.crashes = 0, NEW i \in Ids, Counts(k, i)
               PROVE  shown[k][i] \in {mem[k][i].scope, None, Unavailable}
    BY DEF NoStaleData, Counts
  <2>1. ~Follow(k, i)
    BY NothingCarried, IdleTyped DEF Quiet, Follow, Follows
  <2>2. ~WillRight(k, i)
    BY DEF Quiet, Resting, WillRight
  <2> QED
    BY <2>1, <2>2 DEF SourcesInv, ShownInv, Fresh
<1> QED
  BY <1>1, Invariant, PTL
=============================================================================
