------------------------------- MODULE Sources -------------------------------
(***************************************************************************)
(* The configurable data sources of the Agent: CLI, HTTP and platform      *)
(* balance (cli.rs, http.rs, balance.rs), each with a list in memory behind *)
(* a lock, a file, credentials in the system keyring and a run loop; the   *)
(* part of state.rs and settings.rs that lists sources and holds their     *)
(* policies; and the web handlers that create, update, delete and toggle   *)
(* them (web.rs).                                                          *)
(*                                                                         *)
(* A handler is cut at its awaits: between two of its steps the other      *)
(* handlers, the run loops and a crash may come.  A collection works on a  *)
(* copy of the configuration it read when it started.  The publisher and   *)
(* the device are the last thing the publisher was told about a key        *)
(* (Publisher.tla models what it does with it).                            *)
(***************************************************************************)
EXTENDS Integers, Sequences, FiniteSets

CONSTANTS
    Ids,          \* identifiers a source may be given
    Kinds,        \* source types: a subset of AllKinds
    Scopes,       \* what a configuration collects from, and a credential is for
    Configs,      \* configurations a user may enter
    Users,        \* requests of the web API handled at the same time
    None,         \* nothing
    Torn,         \* a file that was truncated and not written
    Unavailable,  \* a resource without items that says why
    MaxSources,   \* MAX_SOURCES of http.rs and balance.rs (16)
    TriggerCap,   \* capacity of source_trigger (16)
    EarlyUsers,   \* TRUE: requests may come before the sources are listed
    MaxOps,       \* bound: requests
    MaxFaults     \* bound: failed writes, keyring calls and collections, and ends
                  \* of the process (a failed restore comes on top of a failed write)

AllKinds == {"cli", "http", "balance"}

\* enabled, complete, needs a credential, collects from.
Config == [on : BOOLEAN, full : BOOLEAN, auth : BOOLEAN, scope : Scopes]

ASSUME KindsAssumption == Kinds \subseteq AllKinds
ASSUME ConfigsAssumption == Configs \subseteq Config
ASSUME NoneAssumption ==
    /\ None \notin Ids /\ None \notin Kinds /\ None \notin Scopes
    /\ None \notin Configs /\ None \notin Users
    /\ Torn \notin [Ids -> Configs \cup {None}]
    /\ Unavailable \notin Scopes \cup {None}
ASSUME BoundsAssumption ==
    /\ IsFiniteSet(Ids)
    /\ {MaxSources, TriggerCap, MaxOps, MaxFaults} \subseteq Nat
    /\ TriggerCap > 0
    /\ EarlyUsers \in BOOLEAN

VARIABLES
    alive,     \* the Agent runs (FALSE: its start fails)
    mem,       \* sources: the list each type holds in memory
    file,      \* the file each type keeps
    lock,      \* the write lock of the list, held across awaits
    secret,    \* the credentials in the keyring, by the scope they are for
    listed,    \* Snapshot.sources of state.rs
    policy,    \* SharedState.source_policies
    settings,  \* SettingsStore: its data in memory and on disk
    req,       \* what each handler is doing
    greet,     \* sources that a type has not listed yet since the start
    job,       \* the collections under way
    queue,     \* source_trigger of each type
    shown,     \* what the publisher was last told of each resource
    spent      \* bounds used up

vars == <<alive, mem, file, lock, secret, listed, policy, settings, req,
          greet, job, queue, shown, spent>>

stores == <<mem, file, lock>>
loops  == <<greet, job, queue>>

-----------------------------------------------------------------------------
(* Values                                                                  *)

Ops == {"create", "update", "delete", "toggle", "refresh"}
Updates == {"keep", "set", "clear"}
Policies == {"unset", "on", "off"}
Lists == [Ids -> Configs \cup {None}]
Entry == [kind : Kinds, on : BOOLEAN, due : BOOLEAN]

\* The configurations each type accepts: a CLI source has no credential, a
\* balance source always has one and is always complete.
ConfigsOf(k) ==
    {c \in Configs : /\ k = "cli" => ~c.auth
                     /\ k = "balance" => c.auth /\ c.full}

\* HttpMetricConfig::from_input and BalanceConfig::from_input: what happens to
\* the credential.
UpdatesOf(k, c) == IF c.auth THEN {"keep", "set", "clear"} ELSE {"clear"}

Idle == [pc |-> "idle", op |-> None, kind |-> None, id |-> None, config |-> None,
         update |-> None, touched |-> FALSE, old |-> None, on |-> FALSE]

Present(k) == {i \in Ids : mem[k][i] # None}

Effective(i, on) == IF policy[i] = "unset" THEN on ELSE policy[i] = "on"

CliStatus(c) == [kind |-> "cli", on |-> c.on, due |-> FALSE]
HttpStatus(c, ready) ==
    [kind |-> "http", on |-> c.on, due |-> c.full /\ c.on /\ (c.auth => ready)]
BalanceStatus(c, ready) ==
    [kind |-> "balance", on |-> c.on, due |-> c.on /\ ready]

\* source_status with the policy already read (apply_source_policy).
Status(k, c, ready, on) ==
    [CASE k = "cli" -> CliStatus(c)
       [] k = "http" -> HttpStatus(c, ready)
       [] k = "balance" -> BalanceStatus(c, ready)
     EXCEPT !.on = on]

\* SharedState::update_source: an absent source is left alone, and a disabled
\* one has no next time.
Touch(i, due) ==
    listed' = [listed EXCEPT ![i] =
                 IF @ = None THEN None ELSE [@ EXCEPT !.due = listed[i].on /\ due]]
-----------------------------------------------------------------------------
(* A start that is over: every source is listed and collected once.        *)

\* What collecting with a configuration tells the publisher.
Collected(c, hasSecret) ==
    IF c # None /\ c.on /\ c.full /\ (c.auth => hasSecret) THEN c.scope ELSE None

OneOwner(lists) == \A i \in Ids : \A k, l \in Kinds :
    lists[k][i] # None /\ lists[l][i] # None => k = l

Within(k, list) ==
    /\ \A i \in Ids : list[i] \in ConfigsOf(k) \cup {None}
    /\ k # "cli" => Cardinality({i \in Ids : list[i] # None}) <= MaxSources

Init ==
    /\ alive = TRUE
    /\ mem \in [Kinds -> Lists]
    /\ OneOwner(mem)
    /\ \A k \in Kinds : Within(k, mem[k])
    /\ file = mem
    /\ lock = [k \in Kinds |-> None]
    /\ secret \in [Kinds -> [Ids -> Scopes \cup {None}]]
    /\ \A k \in Kinds, i \in Ids :
         secret[k][i] # None =>
            mem[k][i] # None /\ mem[k][i].auth /\ secret[k][i] = mem[k][i].scope
    /\ policy = [i \in Ids |-> "unset"]
    /\ settings = [data |-> policy, disk |-> policy]
    /\ listed = [i \in Ids |->
         IF \E k \in Kinds : mem[k][i] # None
         THEN LET k == CHOOSE k \in Kinds : mem[k][i] # None
              IN  Status(k, mem[k][i], secret[k][i] # None, mem[k][i].on)
         ELSE None]
    /\ req = [u \in Users |-> Idle]
    /\ greet = [k \in Kinds |-> {}]
    /\ job = [k \in Kinds |-> [i \in Ids |-> None]]
    /\ queue = [k \in Kinds |-> <<>>]
    /\ shown = [k \in Kinds |-> [i \in Ids |->
         Collected(mem[k][i], secret[k][i] # None)]]
    /\ spent = [ops |-> 0, failures |-> 0, crashes |-> 0]

-----------------------------------------------------------------------------
(* Handlers: how one goes on                                               *)

At(u, pc) == alive /\ req[u].pc = pc
Is(u, k, op) == req[u].kind = k /\ req[u].op = op

GoTo(u, pc) == req' = [req EXCEPT ![u].pc = pc]
Done(u) == req' = [req EXCEPT ![u] = Idle]

\* Faulty Fail: an update that is refused takes the source off the list as well.
FailAll(u) == GoTo(u, "unreserve")

\* An error: a create takes back the identifier it has reserved.
Fail(u) == IF req[u].op = "create" THEN GoTo(u, "unreserve") ELSE Done(u)

MayFail == spent.failures + spent.crashes < MaxFaults
CountFailure == spent' = [spent EXCEPT !.failures = @ + 1]

Release(u) == lock' = [lock EXCEPT ![req[u].kind] = None]

\* The run loop holds the read lock while it lists its sources.
Unlocked(k) == lock[k] = None /\ greet[k] = {}

MayAsk(u) ==
    /\ alive
    /\ req[u] = Idle
    /\ spent.ops < MaxOps
    /\ EarlyUsers \/ \A k \in Kinds : greet[k] = {}

Ask(u, pc, op, k, i, c, up, on) ==
    /\ spent' = [spent EXCEPT !.ops = @ + 1]
    /\ req' = [req EXCEPT ![u] =
         [Idle EXCEPT !.pc = pc, !.op = op, !.kind = k, !.id = i, !.config = c,
                      !.update = up, !.on = on]]
    /\ UNCHANGED <<alive, stores, secret, listed, policy, settings, loops, shown>>

\* POST /source-types/{kind}/sources: the status takes the stored policy first.
AskCreate(u) ==
    /\ MayAsk(u)
    /\ \E k \in Kinds, i \in Ids : \E c \in ConfigsOf(k) : \E up \in UpdatesOf(k, c) :
         Ask(u, "reserve", "create", k, i, c, IF up = "keep" THEN "clear" ELSE up,
             Effective(i, c.on))

Listed == {i \in Ids : listed[i] # None}

\* PUT and DELETE /source-types/{kind}/sources/{id} of a listed source.
AskUpdate(u) ==
    /\ MayAsk(u)
    /\ \E i \in Listed : \E c \in ConfigsOf(listed[i].kind) :
         \E up \in UpdatesOf(listed[i].kind, c) :
             Ask(u, "lock", "update", listed[i].kind, i, c, up, FALSE)

AskDelete(u) ==
    /\ MayAsk(u)
    /\ \E i \in Listed :
         Ask(u, "lock", "delete", listed[i].kind, i, None, "clear", FALSE)

\* PATCH /sources/{id}/policy: the source is looked up in the snapshot.
AskToggle(u) ==
    /\ MayAsk(u)
    /\ \E i \in Listed, on \in BOOLEAN :
         Ask(u, "settings", "toggle", listed[i].kind, i, None, None, on)

\* POST /sources/{id}/refresh of a listed source.
AskRefresh(u) ==
    /\ MayAsk(u)
    /\ \E i \in Listed :
         Ask(u, "trigger", "refresh", listed[i].kind, i, None, None, FALSE)

\* Faulty Reserve: register_source overwrites whoever has the identifier.
ReserveAnyway(u) == LET r == req[u] IN
    /\ At(u, "reserve")
    /\ listed' = [listed EXCEPT ![r.id] = Status(r.kind, r.config, FALSE, r.on)]
    /\ GoTo(u, "lock")
    /\ UNCHANGED <<alive, stores, secret, policy, settings, loops, shown, spent>>

\* register_source_if_absent reserves the identifier among all types.
Reserve(u) == LET r == req[u] IN
    /\ At(u, "reserve")
    /\ IF listed[r.id] # None
       THEN Done(u) /\ UNCHANGED listed
       ELSE /\ listed' = [listed EXCEPT ![r.id] = Status(r.kind, r.config, FALSE, r.on)]
            /\ GoTo(u, "lock")
    /\ UNCHANGED <<alive, stores, secret, policy, settings, loops, shown, spent>>

-----------------------------------------------------------------------------
(* Under the lock: what each type checks before it writes                  *)

Locks(u, k, op) ==
    /\ At(u, "lock")
    /\ Is(u, k, op)
    /\ Unlocked(k)
    /\ UNCHANGED <<alive, mem, file, secret, listed, policy, settings, loops, shown,
                   spent>>

\* The request goes on under the lock, touching the keyring first or not.
Admit(u, touches) ==
    /\ lock' = [lock EXCEPT ![req[u].kind] = u]
    /\ req' = [req EXCEPT ![u].pc = IF touches THEN "secret" ELSE "save",
                          ![u].touched = touches]

Refuse(u) == Fail(u) /\ UNCHANGED lock

Full(k) == Cardinality(Present(k)) >= MaxSources

CliCreate(u) ==
    /\ Locks(u, "cli", "create")
    /\ IF mem["cli"][req[u].id] # None THEN Refuse(u) ELSE Admit(u, FALSE)

HttpCreate(u) ==
    /\ Locks(u, "http", "create")
    /\ IF mem["http"][req[u].id] # None \/ Full("http")
       THEN Refuse(u)
       ELSE Admit(u, req[u].config.auth)

BalanceCreate(u) ==
    /\ Locks(u, "balance", "create")
    /\ IF mem["balance"][req[u].id] # None \/ Full("balance")
       THEN Refuse(u)
       ELSE Admit(u, TRUE)

CliUpdate(u) ==
    /\ Locks(u, "cli", "update")
    /\ IF mem["cli"][req[u].id] = None THEN Refuse(u) ELSE Admit(u, FALSE)

HttpUpdate(u) == LET previous == mem["http"][req[u].id] IN
    /\ Locks(u, "http", "update")
    /\ IF previous = None
       THEN Refuse(u)
       ELSE Admit(u, previous.auth \/ req[u].config.auth)

BalanceUpdate(u) ==
    /\ Locks(u, "balance", "update")
    /\ IF mem["balance"][req[u].id] = None THEN Refuse(u) ELSE Admit(u, TRUE)

CliDelete(u) ==
    /\ Locks(u, "cli", "delete")
    /\ IF mem["cli"][req[u].id] = None THEN Refuse(u) ELSE Admit(u, FALSE)

HttpDelete(u) == LET previous == mem["http"][req[u].id] IN
    /\ Locks(u, "http", "delete")
    /\ IF previous = None THEN Refuse(u) ELSE Admit(u, previous.auth)

BalanceDelete(u) ==
    /\ Locks(u, "balance", "delete")
    /\ IF mem["balance"][req[u].id] = None THEN Refuse(u) ELSE Admit(u, TRUE)

-----------------------------------------------------------------------------
(* Keyring, file and memory, under the lock                                *)

\* Faulty ScopeChanged: only a change of the kind of credential counts.
ScopeUnchanged(previous, next) == previous.auth # next.auth

\* A kept credential must not outlive the target it was entered for.
ScopeChanged(previous, next) ==
    previous.auth # next.auth \/ previous.scope # next.scope

\* secret_apply
Applied(update, old, scope) ==
    CASE update = "keep" -> old
      [] update = "set" -> scope
      [] update = "clear" -> None

TouchSecret(u) == LET r == req[u]  old == secret[r.kind][r.id] IN
    /\ At(u, "secret")
    /\ IF /\ r.op = "update" /\ r.update = "keep" /\ old # None
          /\ ScopeChanged(mem[r.kind][r.id], r.config)
       THEN Release(u) /\ Fail(u) /\ UNCHANGED secret
       ELSE /\ secret' = [secret EXCEPT ![r.kind][r.id] =
                 Applied(r.update, old, IF r.config = None THEN None ELSE r.config.scope)]
            /\ req' = [req EXCEPT ![u].pc = "save", ![u].old = old]
            /\ UNCHANGED lock
    /\ UNCHANGED <<alive, mem, file, listed, policy, settings, loops, shown, spent>>

\* secret_get times out or the keyring refuses.
SecretFails(u) ==
    /\ At(u, "secret")
    /\ MayFail /\ CountFailure
    /\ Release(u) /\ Fail(u)
    /\ UNCHANGED <<alive, mem, file, secret, listed, policy, settings, loops, shown>>

\* The list with the request applied.
NextList(u) == [mem[req[u].kind] EXCEPT ![req[u].id] = req[u].config]

\* Where create, update and delete go on once they have released the lock.
CliAfterSave(op) ==
    CASE op = "create" -> "refresh" [] op = "update" -> "policy" [] op = "delete" -> "unlist"
HttpAfterSave(op) == IF op = "delete" THEN "unlist" ELSE "policy"
BalanceAfterSave(op) == IF op = "delete" THEN "unlist" ELSE "policy"

AfterSave(u) ==
    CASE req[u].kind = "cli" -> CliAfterSave(req[u].op)
      [] req[u].kind = "http" -> HttpAfterSave(req[u].op)
      [] req[u].kind = "balance" -> BalanceAfterSave(req[u].op)

\* Faulty Save: the list in memory changes and the file does not.
SaveLater(u) == LET k == req[u].kind IN
    /\ At(u, "save")
    /\ mem' = [mem EXCEPT ![k] = NextList(u)]
    /\ Release(u)
    /\ GoTo(u, AfterSave(u))
    /\ UNCHANGED <<alive, file, secret, listed, policy, settings, loops, shown, spent>>

\* save_sources, then *sources = next: no await in between.
Save(u) == LET k == req[u].kind IN
    /\ At(u, "save")
    /\ file' = [file EXCEPT ![k] = NextList(u)]
    /\ mem' = [mem EXCEPT ![k] = NextList(u)]
    /\ Release(u)
    /\ GoTo(u, AfterSave(u))
    /\ UNCHANGED <<alive, secret, listed, policy, settings, loops, shown, spent>>

\* Faulty HttpLeaves: http.rs truncates its file as well.
HttpTruncates(old) == {old, Torn}

\* What a write that fails, or is cut off, may leave: http.rs writes a temporary
\* file and replaces the old one, the others truncate the file they write to.
HttpLeaves(old) == {old}
CliLeaves(old) == {old, Torn}
BalanceLeaves(old) == {old, Torn}
Leaves(k) ==
    CASE k = "cli" -> CliLeaves(file[k])
      [] k = "http" -> HttpLeaves(file[k])
      [] k = "balance" -> BalanceLeaves(file[k])

SaveFails(u) == LET k == req[u].kind IN
    /\ At(u, "save")
    /\ MayFail /\ CountFailure
    /\ \E left \in Leaves(k) : file' = [file EXCEPT ![k] = left]
    /\ IF req[u].touched
       THEN GoTo(u, "restore") /\ UNCHANGED lock
       ELSE Release(u) /\ Fail(u)
    /\ UNCHANGED <<alive, mem, secret, listed, policy, settings, loops, shown>>

\* secret_restore, which may fail as well.
Restore(u) == LET r == req[u] IN
    /\ At(u, "restore")
    /\ \/ /\ secret' = [secret EXCEPT ![r.kind][r.id] = r.old]
          /\ UNCHANGED spent
       \/ CountFailure /\ UNCHANGED secret
    /\ Release(u) /\ Fail(u)
    /\ UNCHANGED <<alive, mem, file, listed, policy, settings, loops, shown>>

Unreserve(u) ==
    /\ At(u, "unreserve")
    /\ listed' = [listed EXCEPT ![req[u].id] = None]
    /\ Done(u)
    /\ UNCHANGED <<alive, stores, secret, policy, settings, loops, shown, spent>>
-----------------------------------------------------------------------------
(* After the lock: list, refresh, withdraw                                 *)

\* register_source reads the policy, and writes the snapshot later.
ReadPolicy(u) == LET r == req[u] IN
    /\ At(u, "policy")
    /\ req' = [req EXCEPT ![u].pc = "register", ![u].on = Effective(r.id, r.config.on)]
    /\ UNCHANGED <<alive, stores, secret, listed, policy, settings, loops, shown, spent>>

\* Whether the credential is there was read under the lock: it is the one set
\* or kept then.
Ready(r) == Applied(r.update, r.old, r.config.scope) # None

Register(u) == LET r == req[u] IN
    /\ At(u, "register")
    /\ listed' = [listed EXCEPT ![r.id] = Status(r.kind, r.config, Ready(r), r.on)]
    /\ GoTo(u, "refresh")
    /\ UNCHANGED <<alive, stores, secret, policy, settings, loops, shown, spent>>

Enqueue(k, i) ==
    /\ Len(queue[k]) < TriggerCap
    /\ queue' = [queue EXCEPT ![k] = Append(@, i)]

\* Faulty Refresh: an updated source is not collected again.
RefreshLater(u) ==
    /\ At(u, "refresh")
    /\ Done(u)
    /\ UNCHANGED <<alive, stores, secret, listed, policy, settings, loops, shown, spent>>

\* refresh_source of the control: the source must still be configured.
Refresh(u) == LET r == req[u] IN
    /\ At(u, "refresh")
    /\ Unlocked(r.kind)
    /\ IF mem[r.kind][r.id] = None THEN UNCHANGED queue ELSE Enqueue(r.kind, r.id)
    /\ Done(u)
    /\ UNCHANGED <<alive, stores, secret, listed, policy, settings, greet, job, shown,
                   spent>>

Unlist(u) ==
    /\ At(u, "unlist")
    /\ listed' = [listed EXCEPT ![req[u].id] = None]
    /\ GoTo(u, "withdraw")
    /\ UNCHANGED <<alive, stores, secret, policy, settings, loops, shown, spent>>

\* publisher.delete(key)
Withdraw(u) == LET r == req[u] IN
    /\ At(u, "withdraw")
    /\ shown' = [shown EXCEPT ![r.kind][r.id] = None]
    /\ Done(u)
    /\ UNCHANGED <<alive, stores, secret, listed, policy, settings, loops, spent>>

-----------------------------------------------------------------------------
(* Policies: settings.rs, then state.rs                                    *)

Chosen(u) == IF req[u].on THEN "on" ELSE "off"

\* SettingsStore::set_source_policy replaces the file as a whole.
SaveSettings(u) ==
    /\ At(u, "settings")
    /\ LET next == [settings.data EXCEPT ![req[u].id] = Chosen(u)]
       IN  settings' = [data |-> next, disk |-> next]
    /\ GoTo(u, "insert")
    /\ UNCHANGED <<alive, stores, secret, listed, policy, loops, shown, spent>>

\* The write fails: the change stays in memory and the request is refused.
SaveSettingsFails(u) ==
    /\ At(u, "settings")
    /\ MayFail /\ CountFailure
    /\ settings' = [settings EXCEPT !.data[req[u].id] = Chosen(u)]
    /\ Done(u)
    /\ UNCHANGED <<alive, stores, secret, listed, policy, loops, shown>>

\* SharedState::set_source_policy: the table, then the snapshot.
InsertPolicy(u) ==
    /\ At(u, "insert")
    /\ policy' = [policy EXCEPT ![req[u].id] = Chosen(u)]
    /\ GoTo(u, "apply")
    /\ UNCHANGED <<alive, stores, secret, listed, settings, loops, shown, spent>>

ApplyPolicy(u) == LET r == req[u] IN
    /\ At(u, "apply")
    /\ listed' = [listed EXCEPT ![r.id] =
         IF @ = None THEN None
         ELSE [@ EXCEPT !.on = r.on, !.due = listed[r.id].due /\ r.on]]
    /\ GoTo(u, IF r.on THEN "trigger" ELSE "withdraw")
    /\ UNCHANGED <<alive, stores, secret, policy, settings, loops, shown, spent>>

\* ProducerRegistry::refresh_source does not look the source up.
Trigger(u) == LET r == req[u] IN
    /\ At(u, "trigger")
    /\ Enqueue(r.kind, r.id)
    /\ Done(u)
    /\ UNCHANGED <<alive, stores, secret, listed, policy, settings, greet, job, shown,
                   spent>>

-----------------------------------------------------------------------------
(* The run loops                                                           *)

Job(at, c, on) == [at |-> at, config |-> c, on |-> on]
JobStages == {"check", "secret", "run", "ready", "status", "stop", "relist"}
Collection == [at : JobStages, config : Configs, on : BOOLEAN]

ASSUME ValuesAssumption == None \notin Ops \cup Entry \cup Collection

Resting(k) == alive /\ greet[k] = {} /\ \A i \in Ids : job[k][i] = None

\* At the start a type lists what it has loaded; a credential that cannot be read
\* counts as none.
Greet(k, i) ==
    /\ alive
    /\ i \in greet[k]
    /\ \E ready \in {secret[k][i] # None, FALSE} :
         listed' = [listed EXCEPT ![i] =
                      Status(k, mem[k][i], ready, Effective(i, mem[k][i].on))]
    /\ greet' = [greet EXCEPT ![k] = @ \ {i}]
    /\ UNCHANGED <<alive, stores, secret, policy, settings, req, job, queue, shown, spent>>

\* The configurations are copied here: the collections work on the copies.
Begin(k, S) ==
    job' = [job EXCEPT ![k] = [i \in Ids |->
              IF i \in S /\ mem[k][i] # None THEN Job("check", mem[k][i], FALSE) ELSE None]]

Loop(k) ==
    /\ Resting(k)
    /\ Unlocked(k)
    /\ UNCHANGED <<alive, stores, secret, listed, policy, settings, req, greet, shown,
                   spent>>

\* Request::One
TakeTrigger(k) ==
    /\ Loop(k)
    /\ queue[k] # <<>>
    /\ Begin(k, {Head(queue[k])})
    /\ queue' = [queue EXCEPT ![k] = Tail(@)]

\* Request::All: a manual refresh or a sync cycle, and the timer of cli.rs.
TakeAll(k) == Loop(k) /\ Begin(k, Ids) /\ UNCHANGED queue

\* Request::Due: http.rs goes by the snapshot, balance.rs by the configuration
\* and its own times.
HttpDue ==
    /\ Loop("http")
    /\ \E S \in SUBSET {i \in Ids :
            listed[i] # None /\ listed[i].kind = "http" /\ listed[i].on /\ listed[i].due} :
         S # {} /\ Begin("http", S)
    /\ UNCHANGED queue

BalanceDue ==
    /\ Loop("balance")
    /\ \E S \in SUBSET {i \in Present("balance") : mem["balance"][i].on} :
         S # {} /\ Begin("balance", S)
    /\ UNCHANGED queue

-----------------------------------------------------------------------------
(* One collection: collect_and_publish of cli.rs and http.rs, collect_inner  *)
(* of balance.rs                                                           *)

\* cli.rs and balance.rs collect one source after the other.
Turn(k, i) ==
    k # "http" => \A j \in Ids \ {i} : job[k][j] # None => job[k][j].at = "check"

Collects(k, i, at) ==
    /\ alive
    /\ job[k][i] # None
    /\ job[k][i].at = at
    /\ Turn(k, i)
    /\ UNCHANGED <<alive, stores, secret, policy, settings, req, greet, queue>>

Stage(k, i, at) == job' = [job EXCEPT ![k][i].at = at]
Finish(k, i) == job' = [job EXCEPT ![k][i] = None]

\* The snapshot says that the source is there and enabled, whatever its type.
Runs(i) == listed[i] # None /\ listed[i].on

CliCheck(i) ==
    /\ Collects("cli", i, "check")
    /\ Stage("cli", i, IF job["cli"][i].config.full /\ Runs(i) THEN "run" ELSE "status")
    /\ UNCHANGED <<listed, shown, spent>>

HttpCheck(i) ==
    /\ Collects("http", i, "check")
    /\ Stage("http", i,
             IF job["http"][i].config.full /\ Runs(i) THEN "secret" ELSE "status")
    /\ UNCHANGED <<listed, shown, spent>>

BalanceCheck(i) ==
    /\ Collects("balance", i, "check")
    /\ IF Runs(i)
       THEN Stage("balance", i, "secret") /\ UNCHANGED listed
       ELSE Finish("balance", i) /\ Touch(i, FALSE)
    /\ UNCHANGED <<shown, spent>>

\* collect_with_status: an error sets the next time.
CollectFails(k, i) == Finish(k, i) /\ Touch(i, TRUE)

\* configured_secret: none is needed, or the keyring is asked.
ReadSecret(k, i) ==
    /\ Collects(k, i, "secret")
    /\ \/ /\ job[k][i].config.auth => secret[k][i] # None
          /\ Stage(k, i, "run")
          /\ UNCHANGED <<listed, spent>>
       \/ /\ job[k][i].config.auth /\ secret[k][i] = None
          /\ CollectFails(k, i)
          /\ UNCHANGED spent
       \/ /\ job[k][i].config.auth
          /\ MayFail /\ CountFailure
          /\ CollectFails(k, i)
    /\ UNCHANGED shown

\* execute, project and publish.
Collect(k, i) ==
    /\ Collects(k, i, "run")
    /\ \/ /\ shown' = [shown EXCEPT ![k][i] = job[k][i].config.scope]
          /\ Stage(k, i, "ready")
          /\ UNCHANGED <<listed, spent>>
       \/ /\ MayFail /\ CountFailure
          /\ CollectFails(k, i)
          /\ UNCHANGED shown

SetReady(k, i) ==
    /\ Collects(k, i, "ready")
    /\ Touch(i, TRUE)
    /\ Finish(k, i)
    /\ UNCHANGED <<shown, spent>>

\* publish_status

PublishStatus(k, i) ==
    /\ Collects(k, i, "status")
    /\ shown' = [shown EXCEPT ![k][i] = Unavailable]
    /\ Stage(k, i, "stop")
    /\ UNCHANGED <<listed, spent>>

\* update_non_running of cli.rs updates the source that is listed...
CliStop(i) ==
    /\ Collects("cli", i, "stop")
    /\ Touch(i, FALSE)
    /\ Finish("cli", i)
    /\ UNCHANGED <<shown, spent>>

\* ...and that of http.rs lists it again first.
HttpStop(i) ==
    /\ Collects("http", i, "stop")
    /\ job' = [job EXCEPT !["http"][i] =
                 Job("relist", job["http"][i].config,
                     Effective(i, job["http"][i].config.on))]
    /\ UNCHANGED <<listed, shown, spent>>

HttpRelist(i) == LET j == job["http"][i] IN
    /\ Collects("http", i, "relist")
    /\ listed' = [listed EXCEPT ![i] =
                    [Status("http", j.config, FALSE, j.on) EXCEPT !.due = FALSE]]
    /\ Finish("http", i)
    /\ UNCHANGED <<shown, spent>>

-----------------------------------------------------------------------------
(* The end of the process, and the next start                              *)

\* What may be on disk when the process ends: a handler may be writing.
MayBeOnDisk(k) == {file[k]} \cup
    (IF lock[k] # None /\ req[lock[k]].pc = "save"
     THEN Leaves(k) \cup {NextList(lock[k])} ELSE {})

SettingsOnDisk == {settings.disk} \cup
    {[settings.data EXCEPT ![req[u].id] = Chosen(u)] :
        u \in {v \in Users : req[v].pc = "settings"}}

\* load_sources: a file that is not whole, or lists too many, ends the start.
WithinLimit(list) == Cardinality({i \in Ids : list[i] # None}) <= MaxSources

CliLoads(list) == list # Torn
HttpLoads(list) == list # Torn /\ WithinLimit(list)
BalanceLoads(list) == list # Torn /\ WithinLimit(list)

Loads(k, list) ==
    CASE k = "cli" -> CliLoads(list)
      [] k = "http" -> HttpLoads(list)
      [] k = "balance" -> BalanceLoads(list)

NoList == [i \in Ids |-> None]

Crash ==
    /\ alive
    /\ MayFail
    /\ spent' = [spent EXCEPT !.crashes = @ + 1]
    /\ \E disk \in [Kinds -> UNION {MayBeOnDisk(k) : k \in Kinds}] :
         /\ \A k \in Kinds : disk[k] \in MayBeOnDisk(k)
         /\ file' = disk
         /\ alive' = \A k \in Kinds : Loads(k, disk[k])
         /\ mem' = [k \in Kinds |-> IF alive' THEN disk[k] ELSE NoList]
         /\ greet' = [k \in Kinds |->
                        {i \in Ids : alive' /\ disk[k][i] # None}]
    /\ \E disk \in SettingsOnDisk :
         /\ settings' = [data |-> disk, disk |-> disk]
         /\ policy' = disk
    /\ lock' = [k \in Kinds |-> None]
    /\ listed' = [i \in Ids |-> None]
    /\ req' = [u \in Users |-> Idle]
    /\ job' = [k \in Kinds |-> NoList]
    /\ queue' = [k \in Kinds |-> <<>>]
    /\ UNCHANGED <<secret, shown>>

-----------------------------------------------------------------------------
Handler(u) ==
    \/ AskCreate(u) \/ AskUpdate(u) \/ AskDelete(u) \/ AskToggle(u) \/ AskRefresh(u)
    \/ Reserve(u)
    \/ CliCreate(u) \/ HttpCreate(u) \/ BalanceCreate(u)
    \/ CliUpdate(u) \/ HttpUpdate(u) \/ BalanceUpdate(u)
    \/ CliDelete(u) \/ HttpDelete(u) \/ BalanceDelete(u)
    \/ TouchSecret(u) \/ SecretFails(u)
    \/ Save(u) \/ SaveFails(u) \/ Restore(u) \/ Unreserve(u)
    \/ ReadPolicy(u) \/ Register(u) \/ Refresh(u) \/ Unlist(u) \/ Withdraw(u)
    \/ SaveSettings(u) \/ SaveSettingsFails(u) \/ InsertPolicy(u) \/ ApplyPolicy(u)
    \/ Trigger(u)

\* The run loop of each type, and what it does for one source.
RunLoop(k) == TakeTrigger(k) \/ TakeAll(k) \/ \E i \in Ids : Greet(k, i)

CliLoop == "cli" \in Kinds /\ RunLoop("cli")
HttpLoop == "http" \in Kinds /\ (RunLoop("http") \/ HttpDue)
BalanceLoop == "balance" \in Kinds /\ (RunLoop("balance") \/ BalanceDue)

CliCollection(i) ==
    /\ "cli" \in Kinds
    /\ \/ CliCheck(i) \/ Collect("cli", i) \/ SetReady("cli", i)
       \/ PublishStatus("cli", i) \/ CliStop(i)

HttpCollection(i) ==
    /\ "http" \in Kinds
    /\ \/ HttpCheck(i) \/ ReadSecret("http", i) \/ Collect("http", i)
       \/ SetReady("http", i) \/ PublishStatus("http", i) \/ HttpStop(i) \/ HttpRelist(i)

BalanceCollection(i) ==
    /\ "balance" \in Kinds
    /\ \/ BalanceCheck(i) \/ ReadSecret("balance", i) \/ Collect("balance", i)
       \/ SetReady("balance", i)

Next ==
    \/ \E u \in Users : Handler(u)
    \/ CliLoop \/ HttpLoop \/ BalanceLoop
    \/ \E i \in Ids : CliCollection(i) \/ HttpCollection(i) \/ BalanceCollection(i)
    \/ Crash

Spec == Init /\ [][Next]_vars

-----------------------------------------------------------------------------
(* Types                                                                   *)

WriteSteps  == {"lock", "secret", "save", "restore"}
UpdateSteps == WriteSteps \cup {"policy", "register", "refresh"}
CreateSteps == UpdateSteps \cup {"reserve", "unreserve"}
DeleteSteps == WriteSteps \cup {"unlist", "withdraw"}
ToggleSteps == {"settings", "insert", "apply", "trigger", "withdraw"}
Steps == {"idle"} \cup CreateSteps \cup DeleteSteps \cup ToggleSteps

Request == [pc : Steps, op : Ops \cup {None}, kind : Kinds \cup {None}, id : Ids \cup {None},
            config : Configs \cup {None}, update : Updates \cup {None}, touched : BOOLEAN,
            old : Scopes \cup {None}, on : BOOLEAN]

\* What each request knows at each of its steps.
Knows(r) ==
    \/ r = Idle
    \/ /\ r.kind \in Kinds /\ r.id \in Ids
       /\ \/ /\ r.op = "create" /\ r.pc \in CreateSteps /\ r.update # "keep"
             /\ r.config \in ConfigsOf(r.kind) /\ r.update \in UpdatesOf(r.kind, r.config)
          \/ /\ r.op = "update" /\ r.pc \in UpdateSteps
             /\ r.config \in ConfigsOf(r.kind) /\ r.update \in UpdatesOf(r.kind, r.config)
          \/ /\ r.op = "delete" /\ r.pc \in DeleteSteps
             /\ r.config = None /\ r.update = "clear"
          \/ r.op = "toggle" /\ r.pc \in ToggleSteps
          \/ r.op = "refresh" /\ r.pc = "trigger"

\* Every variable has its type, and a handler at work knows what it works on.
TypeOK ==
    /\ alive \in BOOLEAN
    /\ mem \in [Kinds -> Lists]
    /\ file \in [Kinds -> Lists \cup {Torn}]
    /\ lock \in [Kinds -> Users \cup {None}]
    /\ secret \in [Kinds -> [Ids -> Scopes \cup {None}]]
    /\ listed \in [Ids -> Entry \cup {None}]
    /\ policy \in [Ids -> Policies]
    /\ settings \in [data : [Ids -> Policies], disk : [Ids -> Policies]]
    /\ greet \in [Kinds -> SUBSET Ids]
    /\ job \in [Kinds -> [Ids -> Collection \cup {None}]]
    /\ queue \in [Kinds -> Seq(Ids)]
    /\ \A k \in Kinds : Len(queue[k]) <= TriggerCap
    /\ shown \in [Kinds -> [Ids -> Scopes \cup {None, Unavailable}]]
    /\ spent \in [ops : 0..MaxOps, failures : Nat, crashes : 0..MaxFaults]
    /\ req \in [Users -> Request]
    /\ \A u \in Users : Knows(req[u])

-----------------------------------------------------------------------------
(* Safety                                                                  *)

\* A list is written to its file before it is used: outside the lock the two
\* agree, except that a failed write in place leaves a file that does not load.
FileIsMemory == \A k \in Kinds :
    alive /\ lock[k] = None =>
        \/ file[k] = mem[k]
        \/ k # "http" /\ file[k] = Torn /\ spent.failures > 0

\* The Agent always starts with what it has written, unless a write in place
\* was cut off: http.rs replaces its file, and no list outgrows MAX_SOURCES.
StartsUnlessTorn ==
    alive \/ \E k \in Kinds \ {"http"} : file[k] = Torn

\* An identifier belongs to one source: the types reserve it in the snapshot
\* before they write (register_source_if_absent).
IdHasOneOwner == OneOwner(mem)

\* A configured source is in the snapshot whenever requests are served, so that
\* the console can show it and its collections find it.
ConfiguredIsListed ==
    alive /\ (\A k \in Kinds : greet[k] = {}) =>
        \A k \in Kinds, i \in Ids : mem[k][i] # None => listed[i] # None

\* A credential in the keyring is for what its source collects from: one failed
\* call at most leaves the two together (secret_restore).
SecretGoesWithConfig ==
    spent.failures <= 1 /\ spent.crashes = 0 =>
        \A k \in Kinds, i \in Ids :
            lock[k] = None /\ secret[k][i] # None =>
                mem[k][i] # None /\ mem[k][i].auth /\ mem[k][i].scope = secret[k][i]

\* No request is handled and nothing is left to collect.
Quiet(k) ==
    /\ alive
    /\ \A u \in Users : req[u] = Idle
    /\ Resting(k)
    /\ queue[k] = <<>>

\* When everything has come to rest no data of an older configuration is shown:
\* whatever copies the collections worked with, the last one had the current.
\* (Nothing, or that the source is not available, may be shown until its next
\* collection when two requests crossed.)  A balance source that is off keeps what
\* it showed until it is switched on, and another type that lists the identifier of
\* a deleted source again (HttpRelist, a late Register) would switch it on without
\* a collection: balance sources count where there is no other type.
NoStaleData == \A k \in Kinds :
    Quiet(k) /\ spent.failures = 0 /\ spent.crashes = 0 =>
        \A i \in Ids :
            LET c == mem[k][i] IN
            c # None /\ (c.auth => secret[k][i] # None)
                     /\ (k = "balance" => Kinds = {k} /\ Runs(i))
                => shown[k][i] \in {c.scope, None, Unavailable}

=============================================================================
