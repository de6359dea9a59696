-------------------------------- MODULE OAuth --------------------------------
(***************************************************************************)
(* The Codex OAuth accounts (codex_oauth.rs): authorization sessions that a *)
(* user starts here and completes in a browser, the list of accounts and    *)
(* its file, one credential per account in the system keyring, and the run  *)
(* loop that collects with the credential and refreshes it when it expires. *)
(*                                                                         *)
(* A handler is cut at its awaits.  Unlike the sources of Sources.tla no    *)
(* identifier is reserved and no lock is held across the keyring calls:     *)
(* the list is locked only while its file is written.                       *)
(*                                                                         *)
(* The token endpoint rotates refresh tokens: of the tokens of one login    *)
(* only the last one issued is accepted.  A credential is the login it came *)
(* from and the number of its token.                                        *)
(***************************************************************************)
EXTENDS Integers, Sequences, FiniteSets

CONSTANTS
    Ids,           \* account identifiers
    Slots,         \* session identifiers
    Users,         \* requests of the web API handled at the same time
    None,          \* nothing
    Torn,          \* a file that was truncated and not written
    MaxSources,    \* MAX_SOURCES (16)
    TriggerCap,    \* capacity of source_trigger (16)
    Crossing,      \* TRUE: requests about the same identifier may overlap
    MaxOps,        \* bound: requests
    MaxLogins,     \* bound: logins of one account in the browser
    MaxRotations,  \* bound: token refreshes
    MaxFaults      \* bound: failed calls and ends of the process

ASSUME NoneAssumption ==
    None \notin Ids /\ None \notin Slots /\ None \notin Users
ASSUME BoundsAssumption ==
    /\ IsFiniteSet(Ids)
    /\ {MaxSources, TriggerCap, MaxOps, MaxLogins, MaxRotations, MaxFaults} \subseteq Nat
    /\ TriggerCap > 0
    /\ Crossing \in BOOLEAN

VARIABLES
    alive,     \* the Agent runs (FALSE: its start fails)
    mem,       \* sources: the accounts in memory, "none", "on" or "off"
    file,      \* codex-oauth-sources.json
    cred,      \* the credentials in the keyring
    logins,    \* logins made for each account
    valid,     \* the token endpoint: the accepted token of each login
    listed,    \* Snapshot.sources: "foreign" is a source of another type
    sessions,  \* OAuthSession by session identifier
    req,       \* what each handler is doing
    greet,     \* accounts not listed yet since the start
    todo,      \* accounts that the request under way still has to collect
    job,       \* the collection under way
    queue,     \* source_trigger
    shown,     \* login whose data was last published, for each of the two keys
    spent      \* bounds used up

vars == <<alive, mem, file, cred, logins, valid, listed, sessions, req, greet,
          todo, job, queue, shown, spent>>

store == <<mem, file>>
login == <<logins, valid>>
loop  == <<greet, todo, job, queue>>

Switch(on) == IF on THEN "on" ELSE "off"
Lists == [Ids -> {"none", "on", "off"}]
Logins == 0..MaxLogins
Credential == [login : Logins, token : 0..MaxRotations]
ASSUME CredentialAssumption == None \notin Credential
Session == [id : Ids, on : BOOLEAN, reauth : BOOLEAN, expired : BOOLEAN]

Idle == [pc |-> "idle", op |-> None, id |-> None, on |-> FALSE, slot |-> None,
         reauth |-> FALSE, new |-> None, old |-> None]
Rest == [at |-> "rest", id |-> None, held |-> None]
Blank == [limits |-> None, metrics |-> None]

Present == {i \in Ids : mem[i] # "none"}

\* The first login of every account of the file is over and collected.
Init ==
    /\ alive = TRUE
    /\ mem \in Lists
    /\ Cardinality(Present) <= MaxSources
    /\ file = mem
    /\ cred = [i \in Ids |->
         IF mem[i] = "none" THEN None ELSE [login |-> 0, token |-> 0]]
    /\ logins = [i \in Ids |-> 0]
    /\ valid = [i \in Ids |-> [l \in Logins |-> 0]]
    /\ listed = mem
    /\ sessions = [s \in Slots |-> None]
    /\ req = [u \in Users |-> Idle]
    /\ greet = {}
    /\ todo = {}
    /\ job = Rest
    /\ queue = <<>>
    /\ shown = [i \in Ids |-> IF mem[i] = "on" THEN [limits |-> 0, metrics |-> 0] ELSE Blank]
    /\ spent = [ops |-> 0, rotations |-> 0, faults |-> 0]

-----------------------------------------------------------------------------
(* Handlers: how one goes on                                               *)

At(u, pc) == alive /\ req[u].pc = pc
GoTo(u, pc) == req' = [req EXCEPT ![u].pc = pc]
Done(u) == req' = [req EXCEPT ![u] = Idle]

Fault ==
    /\ spent.faults < MaxFaults
    /\ spent' = [spent EXCEPT !.faults = @ + 1]

Working(i) == \E u \in Users : req[u].id = i

Ask(u, first) ==
    /\ alive
    /\ req[u] = Idle
    /\ spent.ops < MaxOps
    /\ Crossing \/ ~Working(first.id)
    /\ spent' = [spent EXCEPT !.ops = @ + 1]
    /\ req' = [req EXCEPT ![u] = first]
    /\ UNCHANGED <<alive, store, cred, login, listed, sessions, loop, shown>>

AskStart(u) == \E i \in Ids, on \in BOOLEAN :
    Ask(u, [Idle EXCEPT !.pc = "exists", !.op = "start", !.id = i, !.on = on])

\* The callback URL is the one of the session: one with another state, or of a
\* session that is not there, is refused and changes nothing.
AskComplete(u) == \E s \in Slots :
    /\ sessions[s] # None
    /\ Ask(u, [Idle EXCEPT !.pc = "session", !.op = "complete", !.slot = s,
                           !.id = sessions[s].id])

AskUpdate(u) == \E i \in Ids, on \in BOOLEAN :
    Ask(u, [Idle EXCEPT !.pc = "save", !.op = "update", !.id = i, !.on = on])

AskDelete(u) == \E i \in Ids :
    Ask(u, [Idle EXCEPT !.pc = "save", !.op = "delete", !.id = i])

-----------------------------------------------------------------------------
(* start_oauth                                                             *)

CheckExists(u) == LET existing == mem[req[u].id] # "none" IN
    /\ At(u, "exists")
    /\ req' = [req EXCEPT ![u].pc = IF existing THEN "insert" ELSE "unused",
                          ![u].reauth = existing]
    /\ UNCHANGED <<alive, store, cred, login, listed, sessions, loop, shown, spent>>

CheckUnused(u) ==
    /\ At(u, "unused")
    /\ IF listed[req[u].id] # "none" THEN Done(u) ELSE GoTo(u, "limit")
    /\ UNCHANGED <<alive, store, cred, login, listed, sessions, loop, shown, spent>>

CheckLimit(u) ==
    /\ At(u, "limit")
    /\ IF Cardinality(Present) >= MaxSources THEN Done(u) ELSE GoTo(u, "insert")
    /\ UNCHANGED <<alive, store, cred, login, listed, sessions, loop, shown, spent>>

\* Sessions that have expired make room; the random identifier of the new one is not
\* in use.
InsertSession(u) ==
    /\ At(u, "insert")
    /\ LET kept == [s \in Slots |-> IF sessions[s] # None /\ sessions[s].expired
                                    THEN None ELSE sessions[s]]
       IN  \E s \in Slots :
             /\ kept[s] = None
             /\ \A v \in Users : req[v].slot # s
             /\ sessions' = [kept EXCEPT ![s] =
                  [id |-> req[u].id, on |-> req[u].on, reauth |-> req[u].reauth,
                   expired |-> FALSE]]
    /\ Done(u)
    /\ UNCHANGED <<alive, store, cred, login, listed, loop, shown, spent>>

\* SESSION_TTL_SEC is over.
Expire(s) ==
    /\ alive
    /\ sessions[s] # None /\ ~sessions[s].expired
    /\ sessions' = [sessions EXCEPT ![s].expired = TRUE]
    /\ UNCHANGED <<alive, store, cred, login, listed, req, loop, shown, spent>>

-----------------------------------------------------------------------------
(* complete_oauth                                                          *)

\* The session is copied, and stays until the code is exchanged.
CheckSession(u) == LET session == sessions[req[u].slot] IN
    /\ At(u, "session")
    /\ IF session = None \/ session.expired
       THEN Done(u)
       ELSE req' = [req EXCEPT ![u].pc = IF session.reauth THEN "exchange" ELSE "unique",
                               ![u].on = session.on, ![u].id = session.id]
    /\ UNCHANGED <<alive, store, cred, login, listed, sessions, loop, shown, spent>>

CheckUnique(u) ==
    /\ At(u, "unique")
    /\ IF listed[req[u].id] # "none" THEN Done(u) ELSE GoTo(u, "exchange")
    /\ UNCHANGED <<alive, store, cred, login, listed, sessions, loop, shown, spent>>

\* exchange_code: a new login, whose first token is number 0.
ExchangeCode(u) == LET i == req[u].id  l == logins[i] + 1 IN
    /\ At(u, "exchange")
    /\ \/ /\ l <= MaxLogins
          /\ logins' = [logins EXCEPT ![i] = l]
          /\ req' = [req EXCEPT ![u].pc = "remove", ![u].new = [login |-> l, token |-> 0]]
          /\ UNCHANGED spent
       \/ Fault /\ Done(u) /\ UNCHANGED logins
    /\ UNCHANGED <<alive, store, cred, valid, listed, sessions, loop, shown>>

RemoveSession(u) ==
    /\ At(u, "remove")
    /\ sessions' = [sessions EXCEPT ![req[u].slot] = None]
    /\ GoTo(u, "old")
    /\ UNCHANGED <<alive, store, cred, login, listed, loop, shown, spent>>

GetOld(u) ==
    /\ At(u, "old")
    /\ \/ /\ req' = [req EXCEPT ![u].pc = "set", ![u].old = cred[req[u].id]]
          /\ UNCHANGED spent
       \/ Fault /\ Done(u)
    /\ UNCHANGED <<alive, store, cred, login, listed, sessions, loop, shown>>

\* Faulty SetCredential: the account is written before its credential.
SetLater(u) ==
    /\ At(u, "set")
    /\ \/ GoTo(u, "save") /\ UNCHANGED spent
       \/ Fault /\ Done(u)
    /\ UNCHANGED <<alive, store, cred, login, listed, sessions, loop, shown>>

SetCredential(u) ==
    /\ At(u, "set")
    /\ \/ /\ cred' = [cred EXCEPT ![req[u].id] = req[u].new]
          /\ GoTo(u, "save")
          /\ UNCHANGED spent
       \/ Fault /\ Done(u) /\ UNCHANGED cred
    /\ UNCHANGED <<alive, store, login, listed, sessions, loop, shown>>

Restore(u) ==
    /\ At(u, "restore")
    /\ \/ /\ cred' = [cred EXCEPT ![req[u].id] = req[u].old]
          /\ UNCHANGED spent
       \/ Fault /\ UNCHANGED cred
    /\ Done(u)
    /\ UNCHANGED <<alive, store, login, listed, sessions, loop, shown>>

-----------------------------------------------------------------------------
(* The list: complete_oauth, update_source and delete_source write it under *)
(* its lock, without an await                                              *)

NextList(u) == LET r == req[u] IN
    [mem EXCEPT ![r.id] = IF r.op = "delete" THEN "none" ELSE Switch(r.on)]

\* update_source and delete_source want the account, complete_oauth adds it.
Known(u) == req[u].op = "complete" \/ mem[req[u].id] # "none"

AfterSave(op) == CASE op = "complete" -> "register"
                   [] op = "update" -> "get"
                   [] op = "delete" -> "erase"

SaveAccounts(u) ==
    /\ At(u, "save")
    /\ greet = {}
    /\ IF Known(u)
       THEN /\ mem' = NextList(u)
            /\ file' = NextList(u)
            /\ GoTo(u, AfterSave(req[u].op))
       ELSE Done(u) /\ UNCHANGED store
    /\ UNCHANGED <<alive, cred, login, listed, sessions, loop, shown, spent>>

\* The file is truncated first.
SaveFails(u) ==
    /\ At(u, "save")
    /\ greet = {}
    /\ Known(u)
    /\ Fault
    /\ file' \in {file, Torn}
    /\ IF req[u].op = "complete" THEN GoTo(u, "restore") ELSE Done(u)
    /\ UNCHANGED <<alive, mem, cred, login, listed, sessions, loop, shown>>

\* update_source reads the credential only to describe the account.
GetForStatus(u) ==
    /\ At(u, "get")
    /\ \/ GoTo(u, "register") /\ UNCHANGED spent
       \/ Fault /\ Done(u)
    /\ UNCHANGED <<alive, store, cred, login, listed, sessions, loop, shown>>

\* register_source replaces whatever is listed.
Register(u) ==
    /\ At(u, "register")
    /\ listed' = [listed EXCEPT ![req[u].id] = Switch(req[u].on)]
    /\ GoTo(u, "refresh")
    /\ UNCHANGED <<alive, store, cred, login, sessions, loop, shown, spent>>

\* Faulty Refresh: nothing is collected.
RefreshNothing(u) ==
    /\ At(u, "refresh")
    /\ Done(u)
    /\ UNCHANGED <<alive, store, cred, login, listed, sessions, loop, shown, spent>>

Refresh(u) ==
    /\ At(u, "refresh")
    /\ IF mem[req[u].id] = "none"
       THEN UNCHANGED queue
       ELSE Len(queue) < TriggerCap /\ queue' = Append(queue, req[u].id)
    /\ Done(u)
    /\ UNCHANGED <<alive, store, cred, login, listed, sessions, greet, todo, job, shown,
                   spent>>

-----------------------------------------------------------------------------
(* delete_source, once the account is off the list                         *)

EraseCredential(u) ==
    /\ At(u, "erase")
    /\ \/ /\ cred' = [cred EXCEPT ![req[u].id] = None]
          /\ GoTo(u, "unlist")
          /\ UNCHANGED spent
       \/ Fault /\ Done(u) /\ UNCHANGED cred
    /\ UNCHANGED <<alive, store, login, listed, sessions, loop, shown>>

Unlist(u) ==
    /\ At(u, "unlist")
    /\ listed' = [listed EXCEPT ![req[u].id] = "none"]
    /\ GoTo(u, "withdraw")
    /\ UNCHANGED <<alive, store, cred, login, sessions, loop, shown, spent>>

\* Two deletions, of codex/{id} and of codex/{id}/metrics.
WithdrawLimits(u) ==
    /\ At(u, "withdraw")
    /\ shown' = [shown EXCEPT ![req[u].id].limits = None]
    /\ GoTo(u, "withdraw_metrics")
    /\ UNCHANGED <<alive, store, cred, login, listed, sessions, loop, spent>>

WithdrawMetrics(u) ==
    /\ At(u, "withdraw_metrics")
    /\ shown' = [shown EXCEPT ![req[u].id].metrics = None]
    /\ Done(u)
    /\ UNCHANGED <<alive, store, cred, login, listed, sessions, loop, spent>>

-----------------------------------------------------------------------------
(* The sources of the other types (Sources.tla)                            *)

\* Another type takes a free identifier, or gives one up.
ForeignSource(i) ==
    /\ alive
    /\ greet = {}
    /\ \/ Crossing
       \/ ~Working(i) /\ \A s \in Slots : sessions[s] # None => sessions[s].id # i
    /\ \/ listed[i] = "none" /\ listed' = [listed EXCEPT ![i] = "foreign"]
       \/ listed[i] = "foreign" /\ listed' = [listed EXCEPT ![i] = "none"]
    /\ UNCHANGED <<alive, store, cred, login, sessions, req, loop, shown, spent>>

-----------------------------------------------------------------------------
(* The run loop                                                            *)

Stages == {"rest", "check", "get", "refresh", "store", "usage", "refresh_again",
           "store_again", "usage_again", "limits", "metrics"}

\* At the start the accounts are listed under the read lock.
Greet(i) ==
    /\ alive
    /\ i \in greet
    /\ greet' = greet \ {i}
    /\ listed' = [listed EXCEPT ![i] = mem[i]]
    /\ UNCHANGED <<alive, store, cred, login, sessions, req, todo, job, queue, shown, spent>>

Resting == greet = {} /\ todo = {} /\ job = Rest

Loop ==
    /\ alive
    /\ Resting
    /\ UNCHANGED <<alive, store, cred, login, listed, sessions, req, greet, job, shown,
                   spent>>

\* Request::One
TakeTrigger ==
    /\ Loop
    /\ queue # <<>>
    /\ queue' = Tail(queue)
    /\ todo' = {Head(queue)} \cap Present

\* Request::All
TakeAll == Loop /\ todo' = Present /\ UNCHANGED queue

\* Request::Due
TakeDue ==
    /\ Loop
    /\ todo' \in SUBSET {i \in Ids : mem[i] = "on"}
    /\ UNCHANGED queue

\* The accounts of one request are collected one after the other.
CollectNext ==
    /\ alive
    /\ job = Rest
    /\ \E i \in todo :
         /\ todo' = todo \ {i}
         /\ job' = [at |-> "check", id |-> i, held |-> None]
    /\ UNCHANGED <<alive, store, cred, login, listed, sessions, req, greet, queue, shown,
                   spent>>

-----------------------------------------------------------------------------
(* collect_inner, and collect, which records an error                      *)

Collects(at) ==
    /\ alive
    /\ job.at = at
    /\ UNCHANGED <<alive, store, logins, listed, sessions, req, greet, todo, queue>>

Stage(at) == job' = [job EXCEPT !.at = at]
CollectFails == Fault /\ job' = Rest

\* The snapshot lists the identifier as enabled, whoever it belongs to.
CheckEnabled ==
    /\ Collects("check")
    /\ IF listed[job.id] \in {"on", "foreign"} THEN Stage("get") ELSE job' = Rest
    /\ UNCHANGED <<cred, valid, shown, spent>>

GetCredential ==
    /\ Collects("get")
    /\ \/ /\ cred[job.id] # None
          /\ \E at \in {"refresh", "usage"} :
               job' = [job EXCEPT !.at = at, !.held = cred[job.id]]
          /\ UNCHANGED spent
       \/ cred[job.id] = None /\ job' = Rest /\ UNCHANGED spent
       \/ CollectFails
    /\ UNCHANGED <<cred, valid, shown>>

Accepted(i, c) == valid[i][c.login] = c.token

\* The token endpoint issues the next token and refuses the one before.
Rotate ==
    /\ Accepted(job.id, job.held)
    /\ spent.rotations < MaxRotations
    /\ valid' = [valid EXCEPT ![job.id][job.held.login] = @ + 1]

\* refresh_credential: the endpoint rotates the token or keeps it, refuses it, or
\* its answer is lost.
RefreshToken(at, then) ==
    /\ Collects(at)
    /\ \/ /\ Rotate
          /\ job' = [job EXCEPT !.at = then, !.held.token = @ + 1]
          /\ spent' = [spent EXCEPT !.rotations = @ + 1]
       \/ /\ Accepted(job.id, job.held)
          /\ Stage(then)
          /\ UNCHANGED <<valid, spent>>
       \/ /\ ~Accepted(job.id, job.held)
          /\ job' = Rest
          /\ UNCHANGED <<valid, spent>>
       \/ /\ Rotate \/ UNCHANGED valid
          /\ CollectFails
    /\ UNCHANGED <<cred, shown>>

\* Faulty StoreToken: the token of the second refresh is only used.
StoreOnce(at, then) ==
    /\ Collects(at)
    /\ \/ /\ cred' = IF at = "store" THEN [cred EXCEPT ![job.id] = job.held] ELSE cred
          /\ Stage(then)
          /\ UNCHANGED spent
       \/ CollectFails /\ UNCHANGED cred
    /\ UNCHANGED <<valid, shown>>

\* Whatever the keyring holds by now is replaced.
StoreToken(at, then) ==
    /\ Collects(at)
    /\ \/ /\ cred' = [cred EXCEPT ![job.id] = job.held]
          /\ Stage(then)
          /\ UNCHANGED spent
       \/ CollectFails /\ UNCHANGED cred
    /\ UNCHANGED <<valid, shown>>

\* request_usage; UNAUTHORIZED is tried once more with a fresh token.
AskUsage ==
    /\ Collects("usage")
    /\ \/ Stage("limits") /\ UNCHANGED spent
       \/ Stage("refresh_again") /\ UNCHANGED spent
       \/ CollectFails
    /\ UNCHANGED <<cred, valid, shown>>

AskUsageAgain ==
    /\ Collects("usage_again")
    /\ \/ Stage("limits") /\ UNCHANGED spent
       \/ CollectFails
    /\ UNCHANGED <<cred, valid, shown>>

PublishLimits ==
    /\ Collects("limits")
    /\ shown' = [shown EXCEPT ![job.id].limits = job.held.login]
    /\ Stage("metrics")
    /\ UNCHANGED <<cred, valid, spent>>

PublishMetrics ==
    /\ Collects("metrics")
    /\ shown' = [shown EXCEPT ![job.id].metrics = job.held.login]
    /\ job' = Rest
    /\ UNCHANGED <<cred, valid, spent>>

-----------------------------------------------------------------------------
(* The end of the process, and the next start                              *)

\* A handler may be writing the file.
MayBeOnDisk == {file} \cup
    UNION {{Torn, NextList(u)} : u \in {v \in Users :
               /\ req[v].pc = "save" /\ greet = {} /\ Known(v)}}

Loads(disk) == disk # Torn /\ Cardinality({i \in Ids : disk[i] # "none"}) <= MaxSources

Crash ==
    /\ alive
    /\ Fault
    /\ \E disk \in MayBeOnDisk :
         /\ file' = disk
         /\ alive' = Loads(disk)
         /\ mem' = IF Loads(disk) THEN disk ELSE [i \in Ids |-> "none"]
         /\ greet' = IF Loads(disk) THEN {i \in Ids : disk[i] # "none"} ELSE {}
    /\ listed' = [i \in Ids |-> "none"]
    /\ sessions' = [s \in Slots |-> None]
    /\ req' = [u \in Users |-> Idle]
    /\ todo' = {}
    /\ job' = Rest
    /\ queue' = <<>>
    /\ UNCHANGED <<cred, login, shown>>

-----------------------------------------------------------------------------
StartOAuth(u) ==
    AskStart(u) \/ CheckExists(u) \/ CheckUnused(u) \/ CheckLimit(u) \/ InsertSession(u)

CompleteOAuth(u) ==
    \/ AskComplete(u) \/ CheckSession(u) \/ CheckUnique(u) \/ ExchangeCode(u)
    \/ RemoveSession(u) \/ GetOld(u) \/ SetCredential(u) \/ Restore(u)

ChangeAccount(u) ==
    \/ AskUpdate(u) \/ AskDelete(u)
    \/ SaveAccounts(u) \/ SaveFails(u) \/ GetForStatus(u) \/ Register(u) \/ Refresh(u)
    \/ EraseCredential(u) \/ Unlist(u) \/ WithdrawLimits(u) \/ WithdrawMetrics(u)

RunLoop ==
    \/ \E i \in Ids : Greet(i)
    \/ TakeTrigger \/ TakeAll \/ TakeDue \/ CollectNext

Collect ==
    \/ CheckEnabled \/ GetCredential
    \/ RefreshToken("refresh", "store") \/ StoreToken("store", "usage") \/ AskUsage
    \/ RefreshToken("refresh_again", "store_again")
    \/ StoreToken("store_again", "usage_again") \/ AskUsageAgain
    \/ PublishLimits \/ PublishMetrics

Next ==
    \/ \E u \in Users : StartOAuth(u) \/ CompleteOAuth(u) \/ ChangeAccount(u)
    \/ \E s \in Slots : Expire(s)
    \/ \E i \in Ids : ForeignSource(i)
    \/ RunLoop
    \/ Collect
    \/ Crash

Spec == Init /\ [][Next]_vars

-----------------------------------------------------------------------------
(* Types                                                                   *)

Steps == {"idle", "exists", "unused", "limit", "insert", "session", "unique",
          "exchange", "remove", "old", "set", "save", "restore", "get",
          "register", "refresh", "erase", "unlist", "withdraw", "withdraw_metrics"}

Request == [pc : Steps,
            op : {None, "start", "complete", "update", "delete"},
            id : Ids \cup {None}, on : BOOLEAN, slot : Slots \cup {None},
            reauth : BOOLEAN, new : Credential \cup {None}, old : Credential \cup {None}]

\* Every variable has its type.
TypeOK ==
    /\ alive \in BOOLEAN
    /\ mem \in Lists
    /\ file \in Lists \cup {Torn}
    /\ cred \in [Ids -> Credential \cup {None}]
    /\ logins \in [Ids -> Logins]
    /\ valid \in [Ids -> [Logins -> 0..MaxRotations]]
    /\ listed \in [Ids -> {"none", "on", "off", "foreign"}]
    /\ sessions \in [Slots -> Session \cup {None}]
    /\ req \in [Users -> Request]
    /\ greet \subseteq Ids
    /\ todo \subseteq Ids
    /\ job \in [at : Stages, id : Ids \cup {None}, held : Credential \cup {None}]
    /\ queue \in Seq(Ids) /\ Len(queue) <= TriggerCap
    /\ shown \in [Ids -> [limits : Logins \cup {None}, metrics : Logins \cup {None}]]
    /\ spent \in [ops : 0..MaxOps, rotations : 0..MaxRotations, faults : 0..MaxFaults]

-----------------------------------------------------------------------------
(* Safety                                                                  *)

\* An account never lacks its credential, in memory or in the file, whatever call
\* fails and wherever the process ends: a login stores the credential before the
\* account, a deletion erases it after the account.
AccountHasCredential ==
    ~Crossing => \A i \in Ids :
        /\ mem[i] # "none" => cred[i] # None
        /\ file # Torn /\ file[i] # "none" => cred[i] # None

\* No refreshed token is lost: unless a call failed, the token endpoint accepts
\* what the keyring holds, except while the run loop stores its successor.
TokenIsCurrent ==
    spent.faults = 0 => \A i \in Ids :
        cred[i] # None => \/ Accepted(i, cred[i])
                          \/ job.id = i /\ job.at \in {"store", "store_again"}

\* No request is handled and nothing is left to collect.
Quiet == alive /\ (\A u \in Users : req[u] = Idle) /\ Resting /\ queue = <<>>

\* At rest both resources of an enabled account come from the login whose
\* credential the keyring holds, although a collection that was refreshing the
\* credential of an older login may have put that one back.
ShownIsStored ==
    Quiet /\ spent.faults = 0 /\ ~Crossing => \A i \in Ids :
        mem[i] = "on" => /\ shown[i].limits = cred[i].login
                         /\ shown[i].metrics = cred[i].login

\* "At most MAX_SOURCES accounts" (start_oauth), which is also what the next start
\* accepts (load_sources).
AccountsWithinLimit == Cardinality(Present) <= MaxSources

=============================================================================
