------------------------------ MODULE OAuthProofs ------------------------------
(***************************************************************************)
(* The invariants of OAuth for any accounts, sessions, users and bounds:    *)
(* types, that an account never lacks its credential, that no refreshed     *)
(* token is lost, and that what is shown comes from the stored login.       *)
(***************************************************************************)
EXTENDS OAuth, ChannelTheorems

-----------------------------------------------------------------------------
(* Types, one part for each group of variables. *)

StoreOK == alive \in BOOLEAN /\ mem \in Lists /\ file \in Lists \cup {Torn}

KeyringOK ==
    /\ cred \in [Ids -> Credential \cup {None}]
    /\ logins \in [Ids -> Logins]
    /\ valid \in [Ids -> [Logins -> 0..MaxRotations]]

SessionsOK ==
    /\ listed \in [Ids -> {"none", "on", "off", "foreign"}]
    /\ sessions \in [Slots -> Session \cup {None}]

RequestsOK == req \in [Users -> Request]

QueueOK ==
    /\ greet \subseteq Ids
    /\ todo \subseteq Ids
    /\ queue \in Seq(Ids) /\ Len(queue) <= TriggerCap

JobOK == job \in [at : Stages, id : Ids \cup {None}, held : Credential \cup {None}]

ShownOK == shown \in [Ids -> [limits : Logins \cup {None}, metrics : Logins \cup {None}]]

SpentOK == spent \in [ops : 0..MaxOps, rotations : 0..MaxRotations, faults : 0..MaxFaults]

-----------------------------------------------------------------------------
(* Handlers and their sessions. *)

\* A handler knows what it works on.
HandlerKnows == \A u \in Users :
    /\ req[u].pc # "idle" => req[u].id \in Ids
    /\ req[u].pc \in {"session", "unique", "exchange", "remove"} => req[u].slot \in Slots
    /\ req[u].pc \in {"remove", "old", "set"} => req[u].new \in Credential
    /\ req[u].pc \in {"exists", "unused", "limit", "insert", "session", "unique", "exchange"} =>
          req[u].new = None /\ req[u].old = None
    /\ req[u].pc \in {"exists", "unused", "limit", "insert"} => req[u].op = "start"
    /\ req[u].pc \in {"session", "unique", "exchange", "remove", "old", "set", "restore"} =>
          req[u].op = "complete"
    /\ req[u].pc \in {"save", "register", "refresh"} => req[u].op \in {"complete", "update", "delete"}
    /\ req[u].pc \in {"register", "refresh"} => req[u].op \in {"complete", "update"}
    /\ req[u].pc = "get" => req[u].op = "update"
    /\ req[u].pc \in {"erase", "unlist", "withdraw", "withdraw_metrics"} => req[u].op = "delete"

\* A session keeps its account as long as a handler has its identifier.
SlotKeepsId == \A u \in Users :
    LET s == req[u].slot IN
    s # None => sessions[s] = None \/ sessions[s].id = req[u].id

\* Requests about one account come one after the other.
OneHandler == ~Crossing => \A u, v \in Users :
    req[u].id # None /\ req[u].id = req[v].id => u = v

\* The run loop collects an account with a credential.
JobKnows ==
    /\ job.at # "rest" => job.id \in Ids
    /\ job.at \notin {"rest", "check", "get"} => job.held \in Credential

-----------------------------------------------------------------------------
(* Tokens. *)

\* c is a credential of account i that somebody has.
Held(i, c) ==
    \/ cred[i] = c
    \/ job.id = i /\ job.held = c
    \/ \E u \in Users : req[u].id = i /\ c \in {req[u].new, req[u].old}

\* Every credential is of a login that was made and has a token that was issued.
HeldIsIssued == \A i \in Ids, c \in Credential :
    Held(i, c) => c.login <= logins[i] /\ c.token <= valid[i][c.login]

\* A login has no token before it is made.
NothingIssued == \A i \in Ids, l \in Logins : l > logins[i] => valid[i][l] = 0

\* A token beyond the rotations that were answered was lost: nobody has it.
LostIsNotHeld == \A i \in Ids, l \in Logins :
    valid[i][l] > spent.rotations => ~Held(i, [login |-> l, token |-> valid[i][l]])

TokenInv == HeldIsIssued /\ NothingIssued /\ LostIsNotHeld

\* Between the exchange of its code and the keyring, only the handler has a login.
HasNew(u) == req[u].pc \in {"remove", "old", "set"}
Exchanged(u) == req[u].new.login

NewIsAlone == \A u \in Users :
    HasNew(u) =>
        /\ Accepted(req[u].id, req[u].new)
        /\ cred[req[u].id] # None => cred[req[u].id].login # Exchanged(u)
        /\ job.id = req[u].id /\ job.held # None => job.held.login # Exchanged(u)
        /\ \A v \in Users : HasNew(v) /\ req[v].id = req[u].id /\ v # u =>
              Exchanged(v) # Exchanged(u)

\* The endpoint accepts what the run loop has.
JobIsCurrent ==
    /\ alive /\ greet = {} /\ \A u \in Users : req[u].pc # "restore"
    /\ job.at \notin {"rest", "check", "get"} => Accepted(job.id, job.held)

\* So it is as long as nothing fails.
CurrentInv == spent.faults = 0 => NewIsAlone /\ JobIsCurrent /\ TokenIsCurrent

-----------------------------------------------------------------------------
(* Accounts and credentials. *)

\* While the Agent runs its file is what it has in memory, unless a write was torn.
FileIsMemory == alive /\ file # Torn => file = mem
DeadIsIdle == ~alive => \A u \in Users : req[u] = Idle

\* Account i is neither in memory nor in the file.
Absent(i) == mem[i] = "none" /\ (file # Torn => file[i] = "none")

\* Who erases a credential has taken the account off the list; who adds an account
\* has stored the credential; what was there before is only put back when the
\* account was there; what gets listed is what was saved.
InOrder(u) ==
    /\ req[u].pc \in {"erase", "unlist", "withdraw", "withdraw_metrics"} => Absent(req[u].id)
    /\ req[u].pc = "save" /\ req[u].op = "complete" => cred[req[u].id] # None
    /\ req[u].pc \in {"set", "save", "restore"} /\ req[u].op = "complete" /\ req[u].old = None =>
          Absent(req[u].id)
    /\ req[u].pc \in {"get", "register"} => mem[req[u].id] = Switch(req[u].on)

OrderInv == ~Crossing => \A u \in Users : InOrder(u)

AccountInv == FileIsMemory /\ DeadIsIdle /\ OrderInv /\ AccountHasCredential

-----------------------------------------------------------------------------
(* What is shown. *)

\* A handler that has changed its account will ask for a collection.
AsksFor(u) ==
    \/ req[u].pc \in {"get", "register", "refresh"}
    \/ req[u].pc = "save" /\ req[u].op = "complete"

Asking(i) == \E u \in Users : req[u].id = i /\ AsksFor(u)

Registers(u) == req[u].pc \in {"get", "register"}
Registering(i) == \E u \in Users : req[u].id = i /\ Registers(u)

ListedIsOn == \A i \in Ids : mem[i] = "on" => listed[i] = "on" \/ Registering(i)

Shows(i) == shown[i].limits = cred[i].login /\ shown[i].metrics = cred[i].login

\* The collection under way will show the credential that the keyring holds.
WillShow(i) ==
    \/ job.at \in {"check", "get", "refresh", "store", "refresh_again", "store_again"}
    \/ job.at \in {"usage", "usage_again", "limits"} /\ job.held.login = cred[i].login
    \/ job.at = "metrics" /\ job.held.login = cred[i].login /\ shown[i].limits = cred[i].login

CollectionComes == \A i \in Ids : mem[i] = "on" =>
    \/ Asking(i)
    \/ i \in Range(queue)
    \/ job.id = i /\ WillShow(i)
    \/ job.id # i /\ (i \in todo \/ Shows(i))

\* As long as nothing fails, and requests about one account do not overlap, an
\* enabled account is listed and its data is that of the stored login, or about to be.
Smooth == spent.faults = 0 /\ ~Crossing
ShownInv == Smooth => ListedIsOn /\ CollectionComes

OAuthInv ==
    /\ TypeOK /\ HandlerKnows /\ SlotKeepsId /\ OneHandler /\ JobKnows
    /\ TokenInv /\ CurrentInv /\ AccountInv /\ ShownInv

-----------------------------------------------------------------------------
(* Types. *)

\* The groups together are the type invariant.
LEMMA TypeParts == TypeOK <=>
    /\ StoreOK /\ KeyringOK /\ SessionsOK /\ RequestsOK
    /\ QueueOK /\ JobOK /\ ShownOK /\ SpentOK
  BY DEF TypeOK, StoreOK, KeyringOK, SessionsOK, RequestsOK, QueueOK, JobOK, ShownOK, SpentOK

\* A handler that has nothing to do, and the run loop at rest.
LEMMA RestTyped ==
  /\ Idle \in Request
  /\ Rest \in [at : Stages, id : Ids \cup {None}, held : Credential \cup {None}]
  BY DEF Idle, Request, Steps, Rest, Stages

\* The initial states, as far as the other invariants need them.
Fresh ==
    /\ alive = TRUE /\ mem \in Lists /\ file = mem /\ listed = mem
    /\ \A i \in Ids : cred[i] = IF mem[i] = "none" THEN None ELSE [login |-> 0, token |-> 0]
    /\ \A i \in Ids : logins[i] = 0 /\ \A l \in Logins : valid[i][l] = 0
    /\ \A i \in Ids : mem[i] = "on" => shown[i].limits = 0 /\ shown[i].metrics = 0
    /\ greet = {} /\ job = Rest /\ spent.rotations = 0 /\ spent.faults = 0

\* The bounds are numbers.
LEMMA Bounds ==
  /\ MaxSources \in Nat /\ TriggerCap \in Nat /\ TriggerCap > 0 /\ MaxOps \in Nat
  /\ MaxLogins \in Nat /\ MaxRotations \in Nat /\ MaxFaults \in Nat /\ Crossing \in BOOLEAN
  BY BoundsAssumption

\* A list that an account is added to, changed in or deleted from is a list.
LEMMA NextListTyped ==
  ASSUME mem \in Lists, RequestsOK, NEW u \in Users
  PROVE  NextList(u) \in Lists
  BY DEF NextList, Lists, Switch

\* What is on the disk when the process ends.
LEMMA DiskTyped == StoreOK /\ RequestsOK => MayBeOnDisk \subseteq Lists \cup {Torn}
  BY NextListTyped DEF MayBeOnDisk, StoreOK

\* What a handler does leaves the others alone.
Others(u) == \A v \in Users \ {u} : req'[v] = req[v]

\* The account, and what else a handler found out, stay the same.
Keeps(u) ==
    /\ req'[u].id = req[u].id /\ req'[u].op = req[u].op /\ req'[u].slot = req[u].slot
    /\ req'[u].on = req[u].on /\ req'[u].reauth = req[u].reauth

\* Only the requests change, and the bounds.
OnlyRequests == UNCHANGED <<alive, mem, file, cred, logins, valid, listed, sessions, greet,
                            todo, job, queue, shown>>

\* The requests that begin, and the steps that only take a handler further, once they
\* have looked at, listed, queued or withdrawn something.
Asks(u) == AskStart(u) \/ AskComplete(u) \/ AskUpdate(u) \/ AskDelete(u)

Walks(u) ==
    \/ CheckUnused(u) \/ CheckLimit(u) \/ CheckUnique(u) \/ GetForStatus(u) \/ Register(u)
    \/ Refresh(u) \/ Unlist(u) \/ WithdrawLimits(u) \/ WithdrawMetrics(u)

Moves(u) ==
    \/ Walks(u)
    \/ InsertSession(u) \/ RemoveSession(u) \/ SetCredential(u) \/ Restore(u) \/ SaveFails(u)
    \/ EraseCredential(u)

\* A handler passes from one step to the next and finds nothing out.
Passes(u) ==
    /\ Keeps(u) /\ req'[u].new = req[u].new /\ req'[u].old = req[u].old
    /\ \/ req[u].pc = "unused" /\ req'[u].pc = "limit"
       \/ req[u].pc = "limit" /\ req'[u].pc = "insert"
       \/ req[u].pc = "unique" /\ req'[u].pc = "exchange"
       \/ req[u].pc = "remove" /\ req'[u].pc = "old"
       \/ req[u].pc = "set" /\ req'[u].pc = "save"
       \/ req[u].pc = "get" /\ req'[u].pc = "register"
       \/ req[u].pc = "register" /\ req'[u].pc = "refresh"
       \/ req[u].pc = "erase" /\ req'[u].pc = "unlist"
       \/ req[u].pc = "unlist" /\ req'[u].pc = "withdraw"
       \/ req[u].pc = "withdraw" /\ req'[u].pc = "withdraw_metrics"
       \/ req[u].pc = "save" /\ req[u].op = "complete" /\ req'[u].pc = "restore"

\* A handler goes on.
LEMMA GoToStep ==
  ASSUME RequestsOK, NEW u \in Users, NEW pc \in Steps, GoTo(u, pc)
  PROVE  /\ RequestsOK' /\ Others(u) /\ Keeps(u) /\ req'[u].pc = pc
         /\ req'[u].new = req[u].new /\ req'[u].old = req[u].old
<1>1. /\ req[u] \in Request /\ req' = [req EXCEPT ![u] = [req[u] EXCEPT !.pc = pc]]
  BY DEF RequestsOK, GoTo
<1>2. [req[u] EXCEPT !.pc = pc] \in Request
  BY <1>1 DEF Request
<1>3. req'[u] = [req[u] EXCEPT !.pc = pc]
  BY <1>1 DEF RequestsOK
<1> QED
  BY <1>1, <1>2, <1>3 DEF RequestsOK, Request, Others, Keeps

\* A handler ends.
LEMMA DoneStep ==
  ASSUME RequestsOK, NEW u \in Users, Done(u)
  PROVE  RequestsOK' /\ Others(u) /\ req'[u] = Idle
  BY RestTyped DEF RequestsOK, Done, Others

\* How each request begins.
LEMMA AskSteps ==
  ASSUME RequestsOK, SessionsOK, SpentOK, NEW u \in Users,
         Asks(u)
  PROVE  /\ RequestsOK' /\ Others(u) /\ req[u] = Idle /\ OnlyRequests
         /\ spent'.faults = spent.faults /\ spent'.rotations = spent.rotations /\ alive
         /\ req'[u].new = None /\ req'[u].old = None /\ req'[u].id \in Ids
         /\ Crossing \/ \A v \in Users : req[v].id # req'[u].id
         /\ \/ req'[u].pc = "exists" /\ req'[u].op = "start" /\ req'[u].slot = None
            \/ /\ req'[u].pc = "session" /\ req'[u].op = "complete"
               /\ req'[u].slot \in Slots /\ sessions[req'[u].slot] # None
               /\ req'[u].id = sessions[req'[u].slot].id
            \/ /\ req'[u].pc = "save" /\ req'[u].op \in {"update", "delete"}
               /\ req'[u].slot = None
<1>1. CASE AskStart(u)
  <2>1. PICK i \in Ids, on \in BOOLEAN :
          Ask(u, [Idle EXCEPT !.pc = "exists", !.op = "start", !.id = i, !.on = on])
    BY <1>1 DEF AskStart
  <2>2. [Idle EXCEPT !.pc = "exists", !.op = "start", !.id = i, !.on = on] \in Request
    BY DEF Idle, Request, Steps
  <2> QED
    BY <2>1, <2>2, SMT DEF Ask, Idle, RequestsOK, Others, Working, OnlyRequests,
       store, login, loop, SpentOK
<1>2. CASE AskComplete(u)
  <2>1. PICK s \in Slots :
          /\ sessions[s] # None
          /\ Ask(u, [Idle EXCEPT !.pc = "session", !.op = "complete", !.slot = s,
                                 !.id = sessions[s].id])
    BY <1>2 DEF AskComplete
  <2>2. sessions[s].id \in Ids
    BY <2>1 DEF SessionsOK, Session
  <2>3. [Idle EXCEPT !.pc = "session", !.op = "complete", !.slot = s,
                     !.id = sessions[s].id] \in Request
    BY <2>2 DEF Idle, Request, Steps
  <2> QED
    BY <2>1, <2>2, <2>3, SMT DEF Ask, Idle, RequestsOK, Others, Working, OnlyRequests,
       store, login, loop, SpentOK
<1>3. CASE AskUpdate(u)
  <2>1. PICK i \in Ids, on \in BOOLEAN :
          Ask(u, [Idle EXCEPT !.pc = "save", !.op = "update", !.id = i, !.on = on])
    BY <1>3 DEF AskUpdate
  <2>2. [Idle EXCEPT !.pc = "save", !.op = "update", !.id = i, !.on = on] \in Request
    BY DEF Idle, Request, Steps
  <2> QED
    BY <2>1, <2>2, SMT DEF Ask, Idle, RequestsOK, Others, Working, OnlyRequests,
       store, login, loop, SpentOK
<1>4. CASE AskDelete(u)
  <2>1. PICK i \in Ids : Ask(u, [Idle EXCEPT !.pc = "save", !.op = "delete", !.id = i])
    BY <1>4 DEF AskDelete
  <2>2. [Idle EXCEPT !.pc = "save", !.op = "delete", !.id = i] \in Request
    BY DEF Idle, Request, Steps
  <2> QED
    BY <2>1, <2>2, SMT DEF Ask, Idle, RequestsOK, Others, Working, OnlyRequests,
       store, login, loop, SpentOK
<1> QED
  BY <1>1, <1>2, <1>3, <1>4 DEF Asks

\* start_oauth finds out whether the account is listed.
LEMMA ExistsStep ==
  ASSUME RequestsOK, NEW u \in Users, CheckExists(u)
  PROVE  /\ RequestsOK' /\ Others(u) /\ req'[u].pc \in {"insert", "unused"}
         /\ alive /\ req[u].pc = "exists" /\ OnlyRequests /\ UNCHANGED spent
         /\ req'[u].id = req[u].id /\ req'[u].op = req[u].op /\ req'[u].slot = req[u].slot
         /\ req'[u].new = req[u].new /\ req'[u].old = req[u].old
<1>1. PICK pc \in {"insert", "unused"}, b \in BOOLEAN :
        req' = [req EXCEPT ![u] = [req[u] EXCEPT !.pc = pc, !.reauth = b]]
  BY DEF CheckExists
<1>2. req[u] \in Request
  BY DEF RequestsOK
<1>3. [req[u] EXCEPT !.pc = pc, !.reauth = b] \in Request
  BY <1>2 DEF Request, Steps
<1>4. alive /\ req[u].pc = "exists" /\ OnlyRequests /\ UNCHANGED spent
  BY DEF CheckExists, At, OnlyRequests, store, login, loop
<1> QED
  BY <1>1, <1>2, <1>3, <1>4 DEF RequestsOK, Request, Others

\* complete_oauth copies the session, if it is still there.
LEMMA SessionStep ==
  ASSUME RequestsOK, SessionsOK, NEW u \in Users, CheckSession(u), HandlerKnows
  PROVE  /\ RequestsOK' /\ Others(u) /\ alive /\ req[u].pc = "session"
         /\ OnlyRequests /\ UNCHANGED spent
         /\ \/ req'[u] = Idle
            \/ /\ sessions[req[u].slot] # None /\ req'[u].id = sessions[req[u].slot].id
               /\ req'[u].id \in Ids
               /\ req'[u].pc \in {"exchange", "unique"}
               /\ req'[u].op = req[u].op /\ req'[u].slot = req[u].slot
               /\ req'[u].new = req[u].new /\ req'[u].old = req[u].old
<1> req[u].slot \in Slots
  BY DEF CheckSession, At, HandlerKnows
<1> DEFINE session == sessions[req[u].slot]
           r == [req[u] EXCEPT !.pc = IF session.reauth THEN "exchange" ELSE "unique",
                               !.on = session.on, !.id = session.id]
<1>0. alive /\ req[u].pc = "session" /\ OnlyRequests /\ UNCHANGED spent
  BY DEF CheckSession, At, OnlyRequests, store, login, loop
<1>1. CASE session = None \/ session.expired
  BY <1>0, <1>1, DoneStep DEF CheckSession
<1>2. CASE ~(session = None \/ session.expired)
  <2>1. req[u] \in Request /\ req' = [req EXCEPT ![u] = r]
    BY <1>2 DEF RequestsOK, CheckSession
  <2>2. session \in Session
    BY <1>2 DEF SessionsOK
  <2>3. r \in Request /\ session.id \in Ids
    BY <2>1, <2>2 DEF Request, Steps, Session
  <2> QED
    BY <1>0, <1>2, <2>1, <2>3 DEF RequestsOK, Request, Others
<1> QED
  BY <1>1, <1>2, <1>0

\* A code is exchanged for the first token of a new login.
LEMMA ExchangeStep ==
  ASSUME RequestsOK, KeyringOK, NEW u \in Users, ExchangeCode(u), HandlerKnows
  PROVE  /\ RequestsOK' /\ Others(u) /\ alive /\ req[u].pc = "exchange"
         /\ UNCHANGED <<alive, mem, file, cred, valid, listed, sessions, greet, todo, job,
                        queue, shown>>
         /\ \/ req'[u] = Idle /\ Fault /\ UNCHANGED logins
            \/ /\ Keeps(u) /\ req'[u].pc = "remove" /\ req'[u].old = req[u].old
               /\ logins[req[u].id] + 1 \in Logins /\ UNCHANGED spent
               /\ logins' = [logins EXCEPT ![req[u].id] = logins[req[u].id] + 1]
               /\ req'[u].new = [login |-> logins[req[u].id] + 1, token |-> 0]
               /\ req'[u].new \in Credential
<1> req[u].id \in Ids
  BY DEF ExchangeCode, At, HandlerKnows
<1> DEFINE i == req[u].id
           new == [login |-> logins[i] + 1, token |-> 0]
           r == [req[u] EXCEPT !.pc = "remove", !.new = new]
<1>0. /\ alive /\ req[u].pc = "exchange"
      /\ UNCHANGED <<alive, mem, file, cred, valid, listed, sessions, greet, todo, job,
                     queue, shown>>
  BY DEF ExchangeCode, At, store, login, loop
<1>1. CASE Fault /\ Done(u) /\ UNCHANGED logins
  BY <1>0, <1>1, DoneStep
<1>2. CASE /\ logins[i] + 1 <= MaxLogins /\ req' = [req EXCEPT ![u] = r] /\ UNCHANGED spent
           /\ logins' = [logins EXCEPT ![i] = logins[i] + 1]
  <2>1. logins[i] + 1 \in Logins /\ new \in Credential
    BY <1>2, Bounds DEF KeyringOK, Logins, Credential
  <2>2. req[u] \in Request
    BY DEF RequestsOK
  <2>3. r \in Request
    BY <2>1, <2>2 DEF Request, Steps
  <2> QED
    BY <1>0, <1>2, <2>1, <2>2, <2>3 DEF RequestsOK, Request, Others, Keeps
<1>3. req[u].pc = "exchange" /\ ((Fault /\ Done(u) /\ UNCHANGED logins) \/
        (/\ logins[i] + 1 <= MaxLogins /\ req' = [req EXCEPT ![u].pc = "remove", ![u].new = new]
         /\ logins' = [logins EXCEPT ![i] = logins[i] + 1] /\ UNCHANGED spent))
  BY DEF ExchangeCode, At
<1> QED
  BY <1>1, <1>2, <1>3, <1>0 DEF RequestsOK

\* What the exchange of a code does to the requests.
LEMMA ExchangeMoves ==
  ASSUME RequestsOK, KeyringOK, NEW u \in Users, ExchangeCode(u), HandlerKnows
  PROVE  /\ RequestsOK' /\ Others(u) /\ alive /\ req[u].pc = "exchange"
         /\ UNCHANGED <<mem, file, cred, listed, sessions, greet, todo, job, queue, shown>>
         /\ \/ req'[u] = Idle
            \/ /\ Keeps(u) /\ req'[u].pc = "remove" /\ req'[u].old = req[u].old
               /\ req'[u].new \in Credential
  BY ExchangeStep

\* complete_oauth reads the credential that it is going to replace.
LEMMA OldStep ==
  ASSUME RequestsOK, KeyringOK, NEW u \in Users, GetOld(u), HandlerKnows
  PROVE  /\ RequestsOK' /\ Others(u) /\ alive /\ req[u].pc = "old" /\ OnlyRequests
         /\ \/ req'[u] = Idle /\ Fault
            \/ /\ Keeps(u) /\ req'[u].pc = "set" /\ req'[u].new = req[u].new
               /\ req'[u].old = cred[req[u].id] /\ UNCHANGED spent
<1> req[u].id \in Ids
  BY DEF GetOld, At, HandlerKnows
<1> DEFINE r == [req[u] EXCEPT !.pc = "set", !.old = cred[req[u].id]]
<1>0. alive /\ req[u].pc = "old" /\ OnlyRequests
  BY DEF GetOld, At, OnlyRequests, store, login, loop
<1>1. CASE Fault /\ Done(u)
  BY <1>0, <1>1, DoneStep
<1>2. CASE req' = [req EXCEPT ![u] = r] /\ UNCHANGED spent
  <2>1. req[u] \in Request /\ cred[req[u].id] \in Credential \cup {None}
    BY DEF RequestsOK, KeyringOK
  <2>2. r \in Request
    BY <2>1 DEF Request, Steps
  <2> QED
    BY <1>0, <1>2, <2>1, <2>2 DEF RequestsOK, Request, Others, Keeps
<1> QED
  BY <1>1, <1>2, <1>0 DEF GetOld, RequestsOK

\* A list that is written becomes the list in memory and the file.
LEMMA SaveStep ==
  ASSUME RequestsOK, NEW u \in Users, SaveAccounts(u),
         HandlerKnows
  PROVE  /\ RequestsOK' /\ Others(u) /\ alive /\ req[u].pc = "save"
         /\ UNCHANGED <<alive, cred, logins, valid, listed, sessions, greet, todo, job,
                        queue, shown, spent>>
         /\ \/ req'[u] = Idle /\ ~Known(u) /\ UNCHANGED <<mem, file>>
            \/ /\ Known(u) /\ Keeps(u) /\ mem' = NextList(u) /\ file' = NextList(u)
               /\ req'[u].new = req[u].new /\ req'[u].old = req[u].old
               /\ \/ req[u].op = "complete" /\ req'[u].pc = "register"
                  \/ req[u].op = "update" /\ req'[u].pc = "get"
                  \/ req[u].op = "delete" /\ req'[u].pc = "erase"
<1> req[u].op \in {"complete", "update", "delete"}
  BY DEF SaveAccounts, At, HandlerKnows
<1>1. /\ alive /\ req[u].pc = "save"
      /\ UNCHANGED <<alive, cred, logins, valid, listed, sessions, greet, todo, job,
                     queue, shown, spent>>
  BY DEF SaveAccounts, At, login, loop
<1>2. CASE ~Known(u)
  BY <1>1, <1>2, DoneStep DEF SaveAccounts, store
<1>3. CASE Known(u)
  <2>1. \E pc \in Steps : /\ GoTo(u, pc)
                         /\ \/ req[u].op = "complete" /\ pc = "register"
                            \/ req[u].op = "update" /\ pc = "get"
                            \/ req[u].op = "delete" /\ pc = "erase"
    BY <1>3 DEF SaveAccounts, AfterSave, Steps
  <2>2. mem' = NextList(u) /\ file' = NextList(u)
    BY <1>3 DEF SaveAccounts
  <2> QED
    BY <1>1, <1>3, <2>1, <2>2, GoToStep
<1> QED
  BY <1>2, <1>3

\* These steps pass on, or end.
LEMMA MoveStep ==
  ASSUME RequestsOK, NEW u \in Users, Moves(u)
  PROVE  /\ RequestsOK' /\ Others(u) /\ alive /\ alive' = alive
         /\ req'[u] = Idle \/ Passes(u)
<1>1. CASE CheckUnused(u)
  <2>1. alive /\ alive' = alive /\ req[u].pc = "unused"
    BY <1>1 DEF CheckUnused, At
  <2>2. GoTo(u, "limit") \/ Done(u)
    BY <1>1 DEF CheckUnused
  <2> QED
    BY <2>1, <2>2, GoToStep, DoneStep DEF Steps, Passes
<1>2. CASE CheckLimit(u)
  <2>1. alive /\ alive' = alive /\ req[u].pc = "limit"
    BY <1>2 DEF CheckLimit, At
  <2>2. GoTo(u, "insert") \/ Done(u)
    BY <1>2 DEF CheckLimit
  <2> QED
    BY <2>1, <2>2, GoToStep, DoneStep DEF Steps, Passes
<1>3. CASE CheckUnique(u)
  <2>1. alive /\ alive' = alive /\ req[u].pc = "unique"
    BY <1>3 DEF CheckUnique, At
  <2>2. GoTo(u, "exchange") \/ Done(u)
    BY <1>3 DEF CheckUnique
  <2> QED
    BY <2>1, <2>2, GoToStep, DoneStep DEF Steps, Passes
<1>4. CASE GetForStatus(u)
  <2>1. alive /\ alive' = alive /\ req[u].pc = "get"
    BY <1>4 DEF GetForStatus, At
  <2>2. GoTo(u, "register") \/ Done(u)
    BY <1>4 DEF GetForStatus
  <2> QED
    BY <2>1, <2>2, GoToStep, DoneStep DEF Steps, Passes
<1>5. CASE Register(u)
  <2>1. alive /\ alive' = alive /\ req[u].pc = "register"
    BY <1>5 DEF Register, At
  <2>2. GoTo(u, "refresh")
    BY <1>5 DEF Register
  <2> QED
    BY <2>1, <2>2, GoToStep DEF Steps, Passes
<1>6. CASE Refresh(u)
  <2>1. alive /\ alive' = alive /\ req[u].pc = "refresh"
    BY <1>6 DEF Refresh, At
  <2>2. Done(u)
    BY <1>6 DEF Refresh
  <2> QED
    BY <2>1, <2>2, DoneStep DEF Steps, Passes
<1>7. CASE Unlist(u)
  <2>1. alive /\ alive' = alive /\ req[u].pc = "unlist"
    BY <1>7 DEF Unlist, At
  <2>2. GoTo(u, "withdraw")
    BY <1>7 DEF Unlist
  <2> QED
    BY <2>1, <2>2, GoToStep DEF Steps, Passes
<1>8. CASE WithdrawLimits(u)
  <2>1. alive /\ alive' = alive /\ req[u].pc = "withdraw"
    BY <1>8 DEF WithdrawLimits, At
  <2>2. GoTo(u, "withdraw_metrics")
    BY <1>8 DEF WithdrawLimits
  <2> QED
    BY <2>1, <2>2, GoToStep DEF Steps, Passes
<1>9. CASE WithdrawMetrics(u)
  <2>1. alive /\ alive' = alive /\ req[u].pc = "withdraw_metrics"
    BY <1>9 DEF WithdrawMetrics, At
  <2>2. Done(u)
    BY <1>9 DEF WithdrawMetrics
  <2> QED
    BY <2>1, <2>2, DoneStep DEF Steps, Passes
<1>10. CASE InsertSession(u)
  <2>1. alive /\ alive' = alive /\ req[u].pc = "insert"
    BY <1>10 DEF InsertSession, At
  <2>2. Done(u)
    BY <1>10 DEF InsertSession
  <2> QED
    BY <2>1, <2>2, DoneStep DEF Steps, Passes
<1>11. CASE RemoveSession(u)
  <2>1. alive /\ alive' = alive /\ req[u].pc = "remove"
    BY <1>11 DEF RemoveSession, At
  <2>2. GoTo(u, "old")
    BY <1>11 DEF RemoveSession
  <2> QED
    BY <2>1, <2>2, GoToStep DEF Steps, Passes
<1>12. CASE SetCredential(u)
  <2>1. alive /\ alive' = alive /\ req[u].pc = "set"
    BY <1>12 DEF SetCredential, At
  <2>2. GoTo(u, "save") \/ Done(u)
    BY <1>12 DEF SetCredential
  <2> QED
    BY <2>1, <2>2, GoToStep, DoneStep DEF Steps, Passes
<1>13. CASE Restore(u)
  <2>1. alive /\ alive' = alive /\ req[u].pc = "restore"
    BY <1>13 DEF Restore, At
  <2>2. Done(u)
    BY <1>13 DEF Restore
  <2> QED
    BY <2>1, <2>2, DoneStep DEF Steps, Passes
<1>14. CASE SaveFails(u)
  <2>1. alive /\ alive' = alive /\ req[u].pc = "save"
    BY <1>14 DEF SaveFails, At
  <2>2. (req[u].op = "complete" /\ GoTo(u, "restore")) \/ Done(u)
    BY <1>14 DEF SaveFails
  <2> QED
    BY <2>1, <2>2, GoToStep, DoneStep DEF Steps, Passes
<1>15. CASE EraseCredential(u)
  <2>1. alive /\ alive' = alive /\ req[u].pc = "erase"
    BY <1>15 DEF EraseCredential, At
  <2>2. GoTo(u, "unlist") \/ Done(u)
    BY <1>15 DEF EraseCredential
  <2> QED
    BY <2>1, <2>2, GoToStep, DoneStep DEF Steps, Passes
<1> QED
  BY <1>1, <1>2, <1>3, <1>4, <1>5, <1>6, <1>7, <1>8, <1>9, <1>10, <1>11, <1>12, <1>13, <1>14, <1>15 DEF Moves, Walks

\* What they leave alone.
LEMMA WalkFrame ==
  ASSUME NEW u \in Users, Walks(u)
  PROVE  /\ UNCHANGED <<mem, file, cred, logins, valid, sessions, greet, todo, job>>
         /\ req[u].pc \notin {"idle", "set", "save"}
  BY DEF At, Walks, CheckUnused, CheckLimit, CheckUnique, GetForStatus, Register, Refresh, Unlist,
     WithdrawLimits, WithdrawMetrics, store, login, loop

\* Those that make or remove a session.
LEMMA SessionMoves ==
  ASSUME NEW u \in Users, InsertSession(u) \/ RemoveSession(u)
  PROVE  /\ UNCHANGED <<mem, file, cred, logins, valid, listed, greet, todo, job, queue, shown>>
         /\ req[u].pc \in {"insert", "remove"}
  BY DEF At, InsertSession, RemoveSession, store, login, loop

\* A list that is not written leaves its file as it was, or torn.
LEMMA SaveFailsMoves ==
  ASSUME NEW u \in Users, SaveFails(u)
  PROVE  /\ UNCHANGED <<mem, cred, logins, valid, listed, sessions, greet, todo, job, queue, shown>>
         /\ file' \in {file, Torn} /\ Fault
  BY DEF SaveFails, login, loop

\* What the steps that write the keyring do to it.
LEMMA CredentialMoves ==
  ASSUME NEW u \in Users, SetCredential(u) \/ Restore(u) \/ EraseCredential(u)
  PROVE  /\ UNCHANGED <<mem, file, logins, valid, listed, sessions, greet, todo, job, queue, shown>>
         /\ req[u].pc \in {"set", "restore", "erase"}
         /\ \/ UNCHANGED cred
            \/ req[u].pc = "set" /\ cred' = [cred EXCEPT ![req[u].id] = req[u].new]
            \/ req[u].pc = "restore" /\ cred' = [cred EXCEPT ![req[u].id] = req[u].old]
            \/ req[u].pc = "erase" /\ cred' = [cred EXCEPT ![req[u].id] = None]
  BY DEF SetCredential, Restore, EraseCredential, At, store, login, loop

\* The endpoint has room for another token of the login that the run loop holds.
LEMMA RotateTyped ==
  ASSUME KeyringOK, JobOK, SpentOK, TokenInv, Rotate, job.id \in Ids, job.held \in Credential
  PROVE  /\ Accepted(job.id, job.held)
         /\ job.held.token + 1 \in 0..MaxRotations /\ job.held.token + 1 <= spent.rotations + 1
         /\ spent.rotations + 1 <= MaxRotations
         /\ valid' = [valid EXCEPT ![job.id][job.held.login] = job.held.token + 1]
<1> DEFINE i == job.id
           l == job.held.login
<1>1. /\ Accepted(i, job.held) /\ spent.rotations < MaxRotations
      /\ valid' = [valid EXCEPT ![i][l] = valid[i][l] + 1]
  BY DEF Rotate, KeyringOK
<1>2. l \in Logins /\ job.held.token \in 0..MaxRotations /\ valid[i][l] = job.held.token
  BY <1>1 DEF Accepted, Credential
<1>3. job.held = [login |-> l, token |-> valid[i][l]]
  BY <1>2 DEF Credential
<1>4. Held(i, [login |-> l, token |-> valid[i][l]])
  BY <1>3 DEF Held
<1>5. valid[i][l] <= spent.rotations
  <2>1. valid[i][l] \in Int /\ spent.rotations \in Int
    BY <1>2, Bounds DEF SpentOK
  <2>2. ~(valid[i][l] > spent.rotations)
    BY <1>2, <1>4 DEF TokenInv, LostIsNotHeld
  <2> QED
    BY <2>1, <2>2
<1>6. spent.rotations \in 0..MaxRotations
  BY DEF SpentOK
<1> QED
  BY <1>1, <1>2, <1>5, <1>6, Bounds

\* What a refresh does to the run loop, the endpoint and the bounds: it ends with the
\* next token, with the same token, without an answer or with a refusal.
LEMMA RefreshStep ==
  ASSUME KeyringOK, JobOK, SpentOK, TokenInv, JobKnows,
         NEW at \in {"refresh", "refresh_again"}, NEW then \in {"store", "store_again"},
         RefreshToken(at, then)
  PROVE  /\ alive /\ job.at = at /\ job.id \in Ids /\ job.held \in Credential
         /\ UNCHANGED <<alive, mem, file, cred, logins, listed, sessions, req, greet, todo,
                        queue, shown>>
         /\ \/ /\ Rotate /\ job'.at = then /\ job'.id = job.id /\ job'.held \in Credential
               /\ job'.held = [login |-> job.held.login, token |-> job.held.token + 1]
               /\ spent' = [spent EXCEPT !.rotations = @ + 1]
            \/ /\ Accepted(job.id, job.held) /\ job'.at = then /\ job'.id = job.id
               /\ job'.held = job.held /\ UNCHANGED <<valid, spent>>
            \/ ~Accepted(job.id, job.held) /\ job' = Rest /\ UNCHANGED <<valid, spent>>
            \/ (Rotate \/ UNCHANGED valid) /\ job' = Rest /\ Fault
<1>0. /\ alive
      /\ UNCHANGED <<alive, mem, file, cred, logins, listed, sessions, req, greet, todo,
                     queue, shown>>
  BY DEF RefreshToken, Collects, store
<1>1. job.at = at /\ job.id \in Ids /\ job.held \in Credential
  BY DEF RefreshToken, Collects, JobKnows
<1>2. CASE /\ Rotate /\ job' = [job EXCEPT !.at = then, !.held.token = @ + 1]
           /\ spent' = [spent EXCEPT !.rotations = @ + 1]
  <2>1. job.held.token + 1 \in 0..MaxRotations /\ job.held.login \in Logins
    BY <1>1, <1>2, RotateTyped DEF Credential
  <2>2. /\ job'.at = then /\ job'.id = job.id
        /\ job'.held = [job.held EXCEPT !.token = @ + 1]
    BY <1>2 DEF JobOK
  <2>3. job'.held = [login |-> job.held.login, token |-> job.held.token + 1]
    BY <1>1, <2>2 DEF Credential
  <2>4. job'.held \in Credential
    BY <2>1, <2>3 DEF Credential
  <2> QED
    BY <1>0, <1>1, <1>2, <2>2, <2>3, <2>4
<1>3. CASE Accepted(job.id, job.held) /\ Stage(then) /\ UNCHANGED <<valid, spent>>
  BY <1>0, <1>1, <1>3 DEF Stage, JobOK
<1> QED
  BY <1>1, <1>2, <1>3, <1>0 DEF RefreshToken, CollectFails

\* An account asked for is queued behind the others.
LEMMA QueueSend ==
  ASSUME QueueOK, NEW i \in Ids, Len(queue) < TriggerCap, queue' = Append(queue, i)
  PROVE  /\ queue' \in Seq(Ids) /\ Len(queue') <= TriggerCap
         /\ Range(queue') = Range(queue) \cup {i}
<1>1. Len(queue') = Len(queue) + 1 /\ Len(queue) \in Nat
  BY AppendProperties, LenProperties DEF QueueOK
<1> QED
  BY <1>1, SendCarries, Bounds DEF QueueOK

\* The run loop takes the first account of the queue.
LEMMA QueueTake ==
  ASSUME QueueOK, queue # <<>>, queue' = Tail(queue)
  PROVE  /\ queue' \in Seq(Ids) /\ Len(queue') <= TriggerCap /\ Head(queue) \in Ids
         /\ Range(queue) = Range(queue') \cup {Head(queue)}
<1>1. Len(queue') = Len(queue) - 1 /\ Len(queue) \in Nat
  BY HeadTailProperties, LenProperties DEF QueueOK
<1> QED
  BY <1>1, ReceiveCarries, Bounds DEF QueueOK

-----------------------------------------------------------------------------
(* Which steps change a variable. *)

\* Who changes alive.
LEMMA AliveChanges ==
  ASSUME [Next]_vars
  PROVE  \/ UNCHANGED alive
         \/ Crash
<1>1. ASSUME NEW u \in Users, StartOAuth(u) PROVE UNCHANGED alive
  BY <1>1 DEF StartOAuth, AskStart, Ask, CheckExists, CheckUnused, CheckLimit,
     InsertSession
<1>2. ASSUME NEW u \in Users, CompleteOAuth(u) PROVE UNCHANGED alive
  BY <1>2 DEF CompleteOAuth, AskComplete, Ask, CheckSession, CheckUnique,
     ExchangeCode, RemoveSession, GetOld, SetCredential, Restore
<1>3. ASSUME NEW u \in Users, ChangeAccount(u) PROVE UNCHANGED alive
  BY <1>3 DEF ChangeAccount, AskUpdate, Ask, AskDelete, SaveAccounts, SaveFails,
     GetForStatus, Register, Refresh, EraseCredential, Unlist, WithdrawLimits,
     WithdrawMetrics
<1>4. CASE RunLoop
  BY <1>4 DEF RunLoop, Greet, TakeTrigger, Loop, TakeAll, TakeDue, CollectNext
<1>5. CASE Collect
  BY <1>5 DEF Collect, CheckEnabled, Collects, GetCredential, RefreshToken,
     StoreToken, AskUsage, AskUsageAgain, PublishLimits, PublishMetrics
<1>6. CASE (\E s \in Slots : Expire(s)) \/ (\E i \in Ids : ForeignSource(i)) \/ Crash
  BY <1>6 DEF Expire, ForeignSource
<1> QED
  BY <1>1, <1>2, <1>3, <1>4, <1>5, <1>6 DEF Next, vars

\* Who changes mem.
LEMMA MemChanges ==
  ASSUME [Next]_vars
  PROVE  \/ UNCHANGED mem
         \/ \E u \in Users : SaveAccounts(u)
         \/ Crash
<1>1. ASSUME NEW u \in Users, StartOAuth(u) PROVE UNCHANGED mem
  BY <1>1 DEF StartOAuth, AskStart, Ask, CheckExists, CheckUnused, CheckLimit,
     InsertSession, store
<1>2. ASSUME NEW u \in Users, CompleteOAuth(u) PROVE UNCHANGED mem
  BY <1>2 DEF CompleteOAuth, AskComplete, Ask, CheckSession, CheckUnique,
     ExchangeCode, RemoveSession, GetOld, SetCredential, Restore, store
<1>3. ASSUME NEW u \in Users, ChangeAccount(u) PROVE UNCHANGED mem \/ SaveAccounts(u)
  BY <1>3 DEF ChangeAccount, AskUpdate, Ask, AskDelete, SaveFails, GetForStatus,
     Register, Refresh, EraseCredential, Unlist, WithdrawLimits, WithdrawMetrics,
     store
<1>4. CASE RunLoop
  BY <1>4 DEF RunLoop, Greet, TakeTrigger, Loop, TakeAll, TakeDue, CollectNext, store
<1>5. CASE Collect
  BY <1>5 DEF Collect, CheckEnabled, Collects, GetCredential, RefreshToken,
     StoreToken, AskUsage, AskUsageAgain, PublishLimits, PublishMetrics, store
<1>6. CASE (\E s \in Slots : Expire(s)) \/ (\E i \in Ids : ForeignSource(i)) \/ Crash
  BY <1>6 DEF Expire, ForeignSource, store
<1> QED
  BY <1>1, <1>2, <1>3, <1>4, <1>5, <1>6 DEF Next, vars

\* Who changes file.
LEMMA FileChanges ==
  ASSUME [Next]_vars
  PROVE  \/ UNCHANGED file
         \/ \E u \in Users : SaveAccounts(u) \/ SaveFails(u)
         \/ Crash
<1>1. ASSUME NEW u \in Users, StartOAuth(u) PROVE UNCHANGED file
  BY <1>1 DEF StartOAuth, AskStart, Ask, CheckExists, CheckUnused, CheckLimit,
     InsertSession, store
<1>2. ASSUME NEW u \in Users, CompleteOAuth(u) PROVE UNCHANGED file
  BY <1>2 DEF CompleteOAuth, AskComplete, Ask, CheckSession, CheckUnique,
     ExchangeCode, RemoveSession, GetOld, SetCredential, Restore, store
<1>3. ASSUME NEW u \in Users, ChangeAccount(u) PROVE UNCHANGED file \/ SaveAccounts(u)
      \/ SaveFails(u)
  BY <1>3 DEF ChangeAccount, AskUpdate, Ask, AskDelete, GetForStatus, Register,
     Refresh, EraseCredential, Unlist, WithdrawLimits, WithdrawMetrics, store
<1>4. CASE RunLoop
  BY <1>4 DEF RunLoop, Greet, TakeTrigger, Loop, TakeAll, TakeDue, CollectNext, store
<1>5. CASE Collect
  BY <1>5 DEF Collect, CheckEnabled, Collects, GetCredential, RefreshToken,
     StoreToken, AskUsage, AskUsageAgain, PublishLimits, PublishMetrics, store
<1>6. CASE (\E s \in Slots : Expire(s)) \/ (\E i \in Ids : ForeignSource(i)) \/ Crash
  BY <1>6 DEF Expire, ForeignSource, store
<1> QED
  BY <1>1, <1>2, <1>3, <1>4, <1>5, <1>6 DEF Next, vars

\* Who changes cred.
LEMMA CredChanges ==
  ASSUME [Next]_vars
  PROVE  \/ UNCHANGED cred
         \/ \E u \in Users : SetCredential(u) \/ Restore(u) \/ EraseCredential(u)
         \/ \E at \in {"store", "store_again"}, then \in {"usage", "usage_again"} :
            StoreToken(at, then)
<1>1. ASSUME NEW u \in Users, StartOAuth(u) PROVE UNCHANGED cred
  BY <1>1 DEF StartOAuth, AskStart, Ask, CheckExists, CheckUnused, CheckLimit,
     InsertSession
<1>2. ASSUME NEW u \in Users, CompleteOAuth(u) PROVE UNCHANGED cred \/
      SetCredential(u) \/ Restore(u)
  BY <1>2 DEF CompleteOAuth, AskComplete, Ask, CheckSession, CheckUnique,
     ExchangeCode, RemoveSession, GetOld
<1>3. ASSUME NEW u \in Users, ChangeAccount(u) PROVE UNCHANGED cred \/
      EraseCredential(u)
  BY <1>3 DEF ChangeAccount, AskUpdate, Ask, AskDelete, SaveAccounts, SaveFails,
     GetForStatus, Register, Refresh, Unlist, WithdrawLimits, WithdrawMetrics
<1>4. CASE RunLoop
  BY <1>4 DEF RunLoop, Greet, TakeTrigger, Loop, TakeAll, TakeDue, CollectNext
<1>5. CASE Collect
  BY <1>5 DEF Collect, CheckEnabled, GetCredential, RefreshToken, AskUsage,
     AskUsageAgain, PublishLimits, PublishMetrics
<1>6. CASE (\E s \in Slots : Expire(s)) \/ (\E i \in Ids : ForeignSource(i)) \/ Crash
  BY <1>6 DEF Expire, ForeignSource, Crash
<1> QED
  BY <1>1, <1>2, <1>3, <1>4, <1>5, <1>6 DEF Next, vars

\* Who changes logins.
LEMMA LoginsChanges ==
  ASSUME [Next]_vars
  PROVE  \/ UNCHANGED logins
         \/ \E u \in Users : ExchangeCode(u)
<1>1. ASSUME NEW u \in Users, StartOAuth(u) PROVE UNCHANGED logins
  BY <1>1 DEF StartOAuth, AskStart, Ask, CheckExists, CheckUnused, CheckLimit,
     InsertSession, login
<1>2. ASSUME NEW u \in Users, CompleteOAuth(u) PROVE UNCHANGED logins \/
      ExchangeCode(u)
  BY <1>2 DEF CompleteOAuth, AskComplete, Ask, CheckSession, CheckUnique,
     RemoveSession, GetOld, SetCredential, Restore, login
<1>3. ASSUME NEW u \in Users, ChangeAccount(u) PROVE UNCHANGED logins
  BY <1>3 DEF ChangeAccount, AskUpdate, Ask, AskDelete, SaveAccounts, SaveFails,
     GetForStatus, Register, Refresh, EraseCredential, Unlist, WithdrawLimits,
     WithdrawMetrics, login
<1>4. CASE RunLoop
  BY <1>4 DEF RunLoop, Greet, TakeTrigger, Loop, TakeAll, TakeDue, CollectNext, login
<1>5. CASE Collect
  BY <1>5 DEF Collect, CheckEnabled, Collects, GetCredential, RefreshToken, Rotate,
     StoreToken, AskUsage, AskUsageAgain, PublishLimits, PublishMetrics, login
<1>6. CASE (\E s \in Slots : Expire(s)) \/ (\E i \in Ids : ForeignSource(i)) \/ Crash
  BY <1>6 DEF Expire, ForeignSource, Crash, login
<1> QED
  BY <1>1, <1>2, <1>3, <1>4, <1>5, <1>6 DEF Next, vars

\* Who changes valid.
LEMMA ValidChanges ==
  ASSUME [Next]_vars
  PROVE  \/ UNCHANGED valid
         \/ \E at \in {"refresh", "refresh_again"}, then \in {"store", "store_again"}
            : RefreshToken(at, then)
<1>1. ASSUME NEW u \in Users, StartOAuth(u) PROVE UNCHANGED valid
  BY <1>1 DEF StartOAuth, AskStart, Ask, CheckExists, CheckUnused, CheckLimit,
     InsertSession, login
<1>2. ASSUME NEW u \in Users, CompleteOAuth(u) PROVE UNCHANGED valid
  BY <1>2 DEF CompleteOAuth, AskComplete, Ask, CheckSession, CheckUnique,
     ExchangeCode, RemoveSession, GetOld, SetCredential, Restore, login
<1>3. ASSUME NEW u \in Users, ChangeAccount(u) PROVE UNCHANGED valid
  BY <1>3 DEF ChangeAccount, AskUpdate, Ask, AskDelete, SaveAccounts, SaveFails,
     GetForStatus, Register, Refresh, EraseCredential, Unlist, WithdrawLimits,
     WithdrawMetrics, login
<1>4. CASE RunLoop
  BY <1>4 DEF RunLoop, Greet, TakeTrigger, Loop, TakeAll, TakeDue, CollectNext, login
<1>5. CASE Collect
  BY <1>5 DEF Collect, CheckEnabled, GetCredential, StoreToken, AskUsage,
     AskUsageAgain, PublishLimits, PublishMetrics, login
<1>6. CASE (\E s \in Slots : Expire(s)) \/ (\E i \in Ids : ForeignSource(i)) \/ Crash
  BY <1>6 DEF Expire, ForeignSource, Crash, login
<1> QED
  BY <1>1, <1>2, <1>3, <1>4, <1>5, <1>6 DEF Next, vars

\* Who changes listed.
LEMMA ListedChanges ==
  ASSUME [Next]_vars
  PROVE  \/ UNCHANGED listed
         \/ \E u \in Users : Register(u) \/ Unlist(u)
         \/ \E i \in Ids : ForeignSource(i) \/ Greet(i)
         \/ Crash
<1>1. ASSUME NEW u \in Users, StartOAuth(u) PROVE UNCHANGED listed
  BY <1>1 DEF StartOAuth, AskStart, Ask, CheckExists, CheckUnused, CheckLimit,
     InsertSession
<1>2. ASSUME NEW u \in Users, CompleteOAuth(u) PROVE UNCHANGED listed
  BY <1>2 DEF CompleteOAuth, AskComplete, Ask, CheckSession, CheckUnique,
     ExchangeCode, RemoveSession, GetOld, SetCredential, Restore
<1>3. ASSUME NEW u \in Users, ChangeAccount(u) PROVE UNCHANGED listed \/ Register(u)
      \/ Unlist(u)
  BY <1>3 DEF ChangeAccount, AskUpdate, Ask, AskDelete, SaveAccounts, SaveFails,
     GetForStatus, Refresh, EraseCredential, WithdrawLimits, WithdrawMetrics
<1>4. CASE RunLoop
  BY <1>4 DEF RunLoop, TakeTrigger, Loop, TakeAll, TakeDue, CollectNext
<1>5. CASE Collect
  BY <1>5 DEF Collect, CheckEnabled, Collects, GetCredential, RefreshToken,
     StoreToken, AskUsage, AskUsageAgain, PublishLimits, PublishMetrics
<1>6. CASE (\E s \in Slots : Expire(s)) \/ (\E i \in Ids : ForeignSource(i)) \/ Crash
  BY <1>6 DEF Expire
<1> QED
  BY <1>1, <1>2, <1>3, <1>4, <1>5, <1>6 DEF Next, vars

\* Who changes sessions.
LEMMA SessionsChanges ==
  ASSUME [Next]_vars
  PROVE  \/ UNCHANGED sessions
         \/ \E u \in Users : InsertSession(u) \/ RemoveSession(u)
         \/ \E s \in Slots : Expire(s)
         \/ Crash
<1>1. ASSUME NEW u \in Users, StartOAuth(u) PROVE UNCHANGED sessions \/
      InsertSession(u)
  BY <1>1 DEF StartOAuth, AskStart, Ask, CheckExists, CheckUnused, CheckLimit
<1>2. ASSUME NEW u \in Users, CompleteOAuth(u) PROVE UNCHANGED sessions \/
      RemoveSession(u)
  BY <1>2 DEF CompleteOAuth, AskComplete, Ask, CheckSession, CheckUnique,
     ExchangeCode, GetOld, SetCredential, Restore
<1>3. ASSUME NEW u \in Users, ChangeAccount(u) PROVE UNCHANGED sessions
  BY <1>3 DEF ChangeAccount, AskUpdate, Ask, AskDelete, SaveAccounts, SaveFails,
     GetForStatus, Register, Refresh, EraseCredential, Unlist, WithdrawLimits,
     WithdrawMetrics
<1>4. CASE RunLoop
  BY <1>4 DEF RunLoop, Greet, TakeTrigger, Loop, TakeAll, TakeDue, CollectNext
<1>5. CASE Collect
  BY <1>5 DEF Collect, CheckEnabled, Collects, GetCredential, RefreshToken,
     StoreToken, AskUsage, AskUsageAgain, PublishLimits, PublishMetrics
<1>6. CASE (\E s \in Slots : Expire(s)) \/ (\E i \in Ids : ForeignSource(i)) \/ Crash
  BY <1>6 DEF ForeignSource
<1> QED
  BY <1>1, <1>2, <1>3, <1>4, <1>5, <1>6 DEF Next, vars

\* Who changes req.
LEMMA ReqChanges ==
  ASSUME [Next]_vars
  PROVE  \/ UNCHANGED req
         \/ \E u \in Users : AskStart(u) \/ CheckExists(u) \/ CheckUnused(u) \/
            CheckLimit(u) \/ InsertSession(u) \/ AskComplete(u) \/ CheckSession(u) \/
            CheckUnique(u) \/ ExchangeCode(u) \/ RemoveSession(u) \/ GetOld(u) \/
            SetCredential(u) \/ Restore(u) \/ AskUpdate(u) \/ AskDelete(u) \/
            SaveAccounts(u) \/ SaveFails(u) \/ GetForStatus(u) \/ Register(u) \/
            Refresh(u) \/ EraseCredential(u) \/ Unlist(u) \/ WithdrawLimits(u) \/
            WithdrawMetrics(u)
         \/ Crash
<1>1. ASSUME NEW u \in Users, StartOAuth(u) PROVE UNCHANGED req \/ AskStart(u) \/
      CheckExists(u) \/ CheckUnused(u) \/ CheckLimit(u) \/ InsertSession(u)
  BY <1>1 DEF StartOAuth
<1>2. ASSUME NEW u \in Users, CompleteOAuth(u) PROVE UNCHANGED req \/ AskComplete(u)
      \/ CheckSession(u) \/ CheckUnique(u) \/ ExchangeCode(u) \/ RemoveSession(u) \/
      GetOld(u) \/ SetCredential(u) \/ Restore(u)
  BY <1>2 DEF CompleteOAuth
<1>3. ASSUME NEW u \in Users, ChangeAccount(u) PROVE UNCHANGED req \/ AskUpdate(u) \/
      AskDelete(u) \/ SaveAccounts(u) \/ SaveFails(u) \/ GetForStatus(u) \/ Register(u)
      \/ Refresh(u) \/ EraseCredential(u) \/ Unlist(u) \/ WithdrawLimits(u) \/
      WithdrawMetrics(u)
  BY <1>3 DEF ChangeAccount
<1>4. CASE RunLoop
  BY <1>4 DEF RunLoop, Greet, TakeTrigger, Loop, TakeAll, TakeDue, CollectNext
<1>5. CASE Collect
  BY <1>5 DEF Collect, CheckEnabled, Collects, GetCredential, RefreshToken,
     StoreToken, AskUsage, AskUsageAgain, PublishLimits, PublishMetrics
<1>6. CASE (\E s \in Slots : Expire(s)) \/ (\E i \in Ids : ForeignSource(i)) \/ Crash
  BY <1>6 DEF Expire, ForeignSource
<1> QED
  BY <1>1, <1>2, <1>3, <1>4, <1>5, <1>6 DEF Next, vars

\* Who changes greet.
LEMMA GreetChanges ==
  ASSUME [Next]_vars
  PROVE  \/ UNCHANGED greet
         \/ \E i \in Ids : Greet(i)
         \/ Crash
<1>1. ASSUME NEW u \in Users, StartOAuth(u) PROVE UNCHANGED greet
  BY <1>1 DEF StartOAuth, AskStart, Ask, CheckExists, CheckUnused, CheckLimit,
     InsertSession, loop
<1>2. ASSUME NEW u \in Users, CompleteOAuth(u) PROVE UNCHANGED greet
  BY <1>2 DEF CompleteOAuth, AskComplete, Ask, CheckSession, CheckUnique,
     ExchangeCode, RemoveSession, GetOld, SetCredential, Restore, loop
<1>3. ASSUME NEW u \in Users, ChangeAccount(u) PROVE UNCHANGED greet
  BY <1>3 DEF ChangeAccount, AskUpdate, Ask, AskDelete, SaveAccounts, SaveFails,
     GetForStatus, Register, Refresh, EraseCredential, Unlist, WithdrawLimits,
     WithdrawMetrics, loop
<1>4. CASE RunLoop
  BY <1>4 DEF RunLoop, TakeTrigger, Loop, TakeAll, TakeDue, CollectNext, loop
<1>5. CASE Collect
  BY <1>5 DEF Collect, CheckEnabled, Collects, GetCredential, RefreshToken,
     StoreToken, AskUsage, AskUsageAgain, PublishLimits, PublishMetrics, loop
<1>6. CASE (\E s \in Slots : Expire(s)) \/ (\E i \in Ids : ForeignSource(i)) \/ Crash
  BY <1>6 DEF Expire, ForeignSource, loop
<1> QED
  BY <1>1, <1>2, <1>3, <1>4, <1>5, <1>6 DEF Next, vars

\* Who changes todo.
LEMMA TodoChanges ==
  ASSUME [Next]_vars
  PROVE  \/ UNCHANGED todo
         \/ TakeTrigger \/ TakeAll \/ TakeDue \/ CollectNext \/ Crash
<1>1. ASSUME NEW u \in Users, StartOAuth(u) PROVE UNCHANGED todo
  BY <1>1 DEF StartOAuth, AskStart, Ask, CheckExists, CheckUnused, CheckLimit,
     InsertSession, loop
<1>2. ASSUME NEW u \in Users, CompleteOAuth(u) PROVE UNCHANGED todo
  BY <1>2 DEF CompleteOAuth, AskComplete, Ask, CheckSession, CheckUnique,
     ExchangeCode, RemoveSession, GetOld, SetCredential, Restore, loop
<1>3. ASSUME NEW u \in Users, ChangeAccount(u) PROVE UNCHANGED todo
  BY <1>3 DEF ChangeAccount, AskUpdate, Ask, AskDelete, SaveAccounts, SaveFails,
     GetForStatus, Register, Refresh, EraseCredential, Unlist, WithdrawLimits,
     WithdrawMetrics, loop
<1>4. CASE RunLoop
  BY <1>4 DEF RunLoop, Greet, loop
<1>5. CASE Collect
  BY <1>5 DEF Collect, CheckEnabled, Collects, GetCredential, RefreshToken,
     StoreToken, AskUsage, AskUsageAgain, PublishLimits, PublishMetrics, loop
<1>6. CASE (\E s \in Slots : Expire(s)) \/ (\E i \in Ids : ForeignSource(i)) \/ Crash
  BY <1>6 DEF Expire, ForeignSource, loop
<1> QED
  BY <1>1, <1>2, <1>3, <1>4, <1>5, <1>6 DEF Next, vars

\* Who changes job.
LEMMA JobChanges ==
  ASSUME [Next]_vars
  PROVE  \/ UNCHANGED job
         \/ CollectNext \/ CheckEnabled \/ GetCredential \/ AskUsage \/ AskUsageAgain
            \/ PublishLimits \/ PublishMetrics \/ Crash
         \/ \E at \in {"refresh", "refresh_again"}, then \in {"store", "store_again"}
            : RefreshToken(at, then)
         \/ \E at \in {"store", "store_again"}, then \in {"usage", "usage_again"} :
            StoreToken(at, then)
<1>1. ASSUME NEW u \in Users, StartOAuth(u) PROVE UNCHANGED job
  BY <1>1 DEF StartOAuth, AskStart, Ask, CheckExists, CheckUnused, CheckLimit,
     InsertSession, loop
<1>2. ASSUME NEW u \in Users, CompleteOAuth(u) PROVE UNCHANGED job
  BY <1>2 DEF CompleteOAuth, AskComplete, Ask, CheckSession, CheckUnique,
     ExchangeCode, RemoveSession, GetOld, SetCredential, Restore, loop
<1>3. ASSUME NEW u \in Users, ChangeAccount(u) PROVE UNCHANGED job
  BY <1>3 DEF ChangeAccount, AskUpdate, Ask, AskDelete, SaveAccounts, SaveFails,
     GetForStatus, Register, Refresh, EraseCredential, Unlist, WithdrawLimits,
     WithdrawMetrics, loop
<1>4. CASE RunLoop
  BY <1>4 DEF RunLoop, Greet, TakeTrigger, Loop, TakeAll, TakeDue, loop
<1>5. CASE Collect
  BY <1>5 DEF Collect
<1>6. CASE (\E s \in Slots : Expire(s)) \/ (\E i \in Ids : ForeignSource(i)) \/ Crash
  BY <1>6 DEF Expire, ForeignSource, loop
<1> QED
  BY <1>1, <1>2, <1>3, <1>4, <1>5, <1>6 DEF Next, vars

\* Who changes queue.
LEMMA QueueChanges ==
  ASSUME [Next]_vars
  PROVE  \/ UNCHANGED queue
         \/ \E u \in Users : Refresh(u)
         \/ TakeTrigger \/ Crash
<1>1. ASSUME NEW u \in Users, StartOAuth(u) PROVE UNCHANGED queue
  BY <1>1 DEF StartOAuth, AskStart, Ask, CheckExists, CheckUnused, CheckLimit,
     InsertSession, loop
<1>2. ASSUME NEW u \in Users, CompleteOAuth(u) PROVE UNCHANGED queue
  BY <1>2 DEF CompleteOAuth, AskComplete, Ask, CheckSession, CheckUnique,
     ExchangeCode, RemoveSession, GetOld, SetCredential, Restore, loop
<1>3. ASSUME NEW u \in Users, ChangeAccount(u) PROVE UNCHANGED queue \/ Refresh(u)
  BY <1>3 DEF ChangeAccount, AskUpdate, Ask, AskDelete, SaveAccounts, SaveFails,
     GetForStatus, Register, EraseCredential, Unlist, WithdrawLimits, WithdrawMetrics,
     loop
<1>4. CASE RunLoop
  BY <1>4 DEF RunLoop, Greet, TakeAll, TakeDue, CollectNext, loop
<1>5. CASE Collect
  BY <1>5 DEF Collect, CheckEnabled, Collects, GetCredential, RefreshToken,
     StoreToken, AskUsage, AskUsageAgain, PublishLimits, PublishMetrics, loop
<1>6. CASE (\E s \in Slots : Expire(s)) \/ (\E i \in Ids : ForeignSource(i)) \/ Crash
  BY <1>6 DEF Expire, ForeignSource, loop
<1> QED
  BY <1>1, <1>2, <1>3, <1>4, <1>5, <1>6 DEF Next, vars

\* Who changes shown.
LEMMA ShownChanges ==
  ASSUME [Next]_vars
  PROVE  \/ UNCHANGED shown
         \/ \E u \in Users : WithdrawLimits(u) \/ WithdrawMetrics(u)
         \/ PublishLimits \/ PublishMetrics
<1>1. ASSUME NEW u \in Users, StartOAuth(u) PROVE UNCHANGED shown
  BY <1>1 DEF StartOAuth, AskStart, Ask, CheckExists, CheckUnused, CheckLimit,
     InsertSession
<1>2. ASSUME NEW u \in Users, CompleteOAuth(u) PROVE UNCHANGED shown
  BY <1>2 DEF CompleteOAuth, AskComplete, Ask, CheckSession, CheckUnique,
     ExchangeCode, RemoveSession, GetOld, SetCredential, Restore
<1>3. ASSUME NEW u \in Users, ChangeAccount(u) PROVE UNCHANGED shown \/
      WithdrawLimits(u) \/ WithdrawMetrics(u)
  BY <1>3 DEF ChangeAccount, AskUpdate, Ask, AskDelete, SaveAccounts, SaveFails,
     GetForStatus, Register, Refresh, EraseCredential, Unlist
<1>4. CASE RunLoop
  BY <1>4 DEF RunLoop, Greet, TakeTrigger, Loop, TakeAll, TakeDue, CollectNext
<1>5. CASE Collect
  BY <1>5 DEF Collect, CheckEnabled, GetCredential, RefreshToken, StoreToken,
     AskUsage, AskUsageAgain
<1>6. CASE (\E s \in Slots : Expire(s)) \/ (\E i \in Ids : ForeignSource(i)) \/ Crash
  BY <1>6 DEF Expire, ForeignSource, Crash
<1> QED
  BY <1>1, <1>2, <1>3, <1>4, <1>5, <1>6 DEF Next, vars

\* Who changes spent.
LEMMA SpentChanges ==
  ASSUME [Next]_vars
  PROVE  \/ UNCHANGED spent
         \/ \E u \in Users : AskStart(u) \/ AskComplete(u) \/ ExchangeCode(u) \/
            GetOld(u) \/ SetCredential(u) \/ Restore(u) \/ AskUpdate(u) \/
            AskDelete(u) \/ SaveFails(u) \/ GetForStatus(u) \/ EraseCredential(u)
         \/ GetCredential \/ AskUsage \/ AskUsageAgain \/ Crash
         \/ \E at \in {"refresh", "refresh_again"}, then \in {"store", "store_again"}
            : RefreshToken(at, then)
         \/ \E at \in {"store", "store_again"}, then \in {"usage", "usage_again"} :
            StoreToken(at, then)
<1>1. ASSUME NEW u \in Users, StartOAuth(u) PROVE UNCHANGED spent \/ AskStart(u)
  BY <1>1 DEF StartOAuth, CheckExists, CheckUnused, CheckLimit, InsertSession
<1>2. ASSUME NEW u \in Users, CompleteOAuth(u) PROVE UNCHANGED spent \/ AskComplete(u)
      \/ ExchangeCode(u) \/ GetOld(u) \/ SetCredential(u) \/ Restore(u)
  BY <1>2 DEF CompleteOAuth, CheckSession, CheckUnique, RemoveSession
<1>3. ASSUME NEW u \in Users, ChangeAccount(u) PROVE UNCHANGED spent \/ AskUpdate(u)
      \/ AskDelete(u) \/ SaveFails(u) \/ GetForStatus(u) \/ EraseCredential(u)
  BY <1>3 DEF ChangeAccount, SaveAccounts, Register, Refresh, Unlist, WithdrawLimits,
     WithdrawMetrics
<1>4. CASE RunLoop
  BY <1>4 DEF RunLoop, Greet, TakeTrigger, Loop, TakeAll, TakeDue, CollectNext
<1>5. CASE Collect
  BY <1>5 DEF Collect, CheckEnabled, PublishLimits, PublishMetrics
<1>6. CASE (\E s \in Slots : Expire(s)) \/ (\E i \in Ids : ForeignSource(i)) \/ Crash
  BY <1>6 DEF Expire, ForeignSource
<1> QED
  BY <1>1, <1>2, <1>3, <1>4, <1>5, <1>6 DEF Next, vars

\* The list and its file hold accounts.
LEMMA StoreTyped ==
  ASSUME StoreOK, RequestsOK, HandlerKnows, [Next]_vars
  PROVE  StoreOK'
<1>1. ASSUME NEW u \in Users, SaveAccounts(u) PROVE StoreOK'
  BY <1>1, SaveStep, NextListTyped DEF StoreOK
<1>2. ASSUME NEW u \in Users, SaveFails(u) PROVE StoreOK'
  BY <1>2, NextListTyped DEF StoreOK, SaveFails, At, Idle, login, loop
<1>3. CASE Crash
  BY <1>3, NextListTyped, DiskTyped DEF StoreOK, Lists, Loads, Crash, Idle, Rest,
     login
<1>4. CASE UNCHANGED <<alive, mem, file>>
  BY <1>4 DEF StoreOK
<1> QED
  BY <1>1, <1>2, <1>3, <1>4, AliveChanges, MemChanges, FileChanges

\* The keyring holds credentials, the token endpoint accepts one token of each login.
LEMMA KeyringTyped ==
  ASSUME KeyringOK, RequestsOK, JobOK, HandlerKnows, JobKnows, TokenInv, SpentOK,
     [Next]_vars
  PROVE  KeyringOK'
<1>1. ASSUME NEW u \in Users, ExchangeCode(u) PROVE KeyringOK'
  <2>1. req[u].id \in Ids /\ UNCHANGED <<cred, valid>>
    BY <1>1 DEF ExchangeCode, At, HandlerKnows
  <2>2. \/ UNCHANGED logins
        \/ /\ logins' = [logins EXCEPT ![req[u].id] = logins[req[u].id] + 1]
           /\ logins[req[u].id] + 1 \in Logins
    BY <1>1, <2>1, ExchangeStep
  <2> QED
    BY <2>1, <2>2 DEF KeyringOK
<1>2. ASSUME NEW u \in Users, SetCredential(u) PROVE KeyringOK'
  BY <1>2 DEF KeyringOK, RequestsOK, HandlerKnows, SetCredential, At, Idle, store,
     login, loop
<1>3. ASSUME NEW u \in Users, Restore(u) PROVE KeyringOK'
  BY <1>3 DEF KeyringOK, RequestsOK, Request, HandlerKnows, Restore, At, Idle, store,
     login, loop
<1>4. ASSUME NEW u \in Users, EraseCredential(u) PROVE KeyringOK'
  BY <1>4 DEF KeyringOK, RequestsOK, HandlerKnows, EraseCredential, At, Idle, store,
     login, loop
<1>5. ASSUME NEW at \in {"refresh", "refresh_again"}, NEW then \in {"store", "store_again"}, RefreshToken(at, then) PROVE KeyringOK'
  <2>1. UNCHANGED <<cred, logins>>
    BY <1>5 DEF RefreshToken, Collects
  <2>2. job.id \in Ids /\ job.held \in Credential /\ (Rotate \/ UNCHANGED valid)
    BY <1>5, RefreshStep
  <2>3. CASE Rotate
    <3>1. job.held.token + 1 \in 0..MaxRotations /\ job.held.login \in Logins
          /\ valid' = [valid EXCEPT ![job.id][job.held.login] = job.held.token + 1]
      BY <2>2, <2>3, RotateTyped DEF Credential
    <3> QED
      BY <2>1, <2>2, <3>1 DEF KeyringOK
  <2> QED
    BY <2>1, <2>2, <2>3 DEF KeyringOK
<1>6. ASSUME NEW at \in {"store", "store_again"}, NEW then \in {"usage", "usage_again"}, StoreToken(at, then) PROVE KeyringOK'
  BY <1>6 DEF KeyringOK, RequestsOK, JobOK, JobKnows, StoreToken, Collects, store,
     Stage, Rest
<1>7. CASE UNCHANGED <<cred, logins, valid>>
  BY <1>7 DEF KeyringOK, RequestsOK
<1> QED
  BY <1>1, <1>2, <1>3, <1>4, <1>5, <1>6, <1>7, CredChanges, LoginsChanges,
     ValidChanges

\* Sessions are of accounts.
LEMMA SessionsTyped ==
  ASSUME SessionsOK, RequestsOK, StoreOK, HandlerKnows, [Next]_vars
  PROVE  SessionsOK'
<1>1. ASSUME NEW u \in Users, InsertSession(u) PROVE SessionsOK'
  BY <1>1 DEF SessionsOK, RequestsOK, Session, Request, HandlerKnows, InsertSession,
     At, Idle, store, login, loop
<1>2. ASSUME NEW u \in Users, RemoveSession(u) PROVE SessionsOK'
  BY <1>2 DEF SessionsOK, RequestsOK, RemoveSession, At, store, login, loop
<1>3. ASSUME NEW u \in Users, Register(u) PROVE SessionsOK'
  BY <1>3 DEF SessionsOK, RequestsOK, Switch, Request, Register, At, store, login,
     loop
<1>4. ASSUME NEW u \in Users, Unlist(u) PROVE SessionsOK'
  BY <1>4 DEF SessionsOK, RequestsOK, Unlist, At, store, login, loop
<1>5. ASSUME NEW s \in Slots, Expire(s) PROVE SessionsOK'
  BY <1>5 DEF SessionsOK, RequestsOK, Session, Expire, store, login, loop
<1>6. ASSUME NEW i \in Ids, ForeignSource(i) PROVE SessionsOK'
  BY <1>6 DEF SessionsOK, RequestsOK, ForeignSource, store, login, loop
<1>7. ASSUME NEW i \in Ids, Greet(i) PROVE SessionsOK'
  BY <1>7 DEF SessionsOK, RequestsOK, StoreOK, Lists, Greet, store, login
<1>8. CASE Crash
  BY <1>8 DEF SessionsOK, RequestsOK, Crash, Idle, Rest, login
<1>9. CASE UNCHANGED <<listed, sessions>>
  BY <1>9 DEF SessionsOK, RequestsOK
<1> QED
  BY <1>1, <1>2, <1>3, <1>4, <1>5, <1>6, <1>7, <1>8, <1>9, ListedChanges,
     SessionsChanges

\* A handler goes from one of its steps to the next.
LEMMA RequestsTyped ==
  ASSUME RequestsOK, SessionsOK, KeyringOK, SpentOK, HandlerKnows, [Next]_vars
  PROVE  RequestsOK'
<1>1. ASSUME NEW u \in Users, Moves(u) PROVE RequestsOK'
  BY <1>1, MoveStep DEF RequestsOK, Passes
<1>2. ASSUME NEW u \in Users, Asks(u) PROVE RequestsOK'
  BY <1>2, AskSteps DEF RequestsOK, OnlyRequests
<1>3. ASSUME NEW u \in Users, CheckExists(u) PROVE RequestsOK'
  BY <1>3, ExistsStep DEF RequestsOK, OnlyRequests
<1>4. ASSUME NEW u \in Users, CheckSession(u) PROVE RequestsOK'
  BY <1>4, SessionStep DEF RequestsOK, OnlyRequests
<1>5. ASSUME NEW u \in Users, ExchangeCode(u) PROVE RequestsOK'
  BY <1>5, ExchangeMoves DEF RequestsOK
<1>6. ASSUME NEW u \in Users, GetOld(u) PROVE RequestsOK'
  BY <1>6, OldStep DEF RequestsOK, OnlyRequests
<1>7. ASSUME NEW u \in Users, SaveAccounts(u) PROVE RequestsOK'
  BY <1>7, SaveStep DEF RequestsOK
<1>8. CASE Crash
  BY <1>8, RestTyped DEF RequestsOK, Crash
<1>9. CASE UNCHANGED <<req>>
  BY <1>9 DEF RequestsOK
<1> QED
  BY <1>1, <1>2, <1>3, <1>4, <1>5, <1>6, <1>7, <1>8, <1>9, ReqChanges DEF Asks, Moves,
     Walks

\* The queue keeps to its bound.
LEMMA QueueTyped ==
  ASSUME QueueOK, StoreOK, RequestsOK, HandlerKnows, [Next]_vars
  PROVE  QueueOK'
<1>1. ASSUME NEW u \in Users, Refresh(u) PROVE QueueOK'
  BY <1>1, QueueSend DEF QueueOK, RequestsOK, HandlerKnows, Refresh, At, Idle, store,
     login
<1>2. ASSUME NEW i \in Ids, Greet(i) PROVE QueueOK'
  BY <1>2 DEF QueueOK, RequestsOK, Greet, store, login
<1>3. CASE TakeTrigger
  BY <1>3, QueueTake DEF QueueOK, RequestsOK, Present, TakeTrigger, Loop, Resting,
     Rest, store, login
<1>4. CASE TakeAll
  BY <1>4 DEF QueueOK, RequestsOK, Present, TakeAll, Loop, Resting, Rest, store, login
<1>5. CASE TakeDue
  BY <1>5 DEF QueueOK, RequestsOK, TakeDue, Loop, Resting, Rest, store, login
<1>6. CASE CollectNext
  BY <1>6 DEF QueueOK, RequestsOK, CollectNext, Rest, store, login
<1>7. CASE Crash
  BY <1>7, EmptySeq, Bounds DEF QueueOK, RequestsOK, Crash, Idle, Rest, login
<1>8. CASE UNCHANGED <<greet, todo, queue>>
  BY <1>8 DEF QueueOK, RequestsOK
<1> QED
  BY <1>1, <1>2, <1>3, <1>4, <1>5, <1>6, <1>7, <1>8, GreetChanges, TodoChanges,
     QueueChanges

\* The run loop collects an account.
LEMMA JobTyped ==
  ASSUME JobOK, QueueOK, KeyringOK, JobKnows, TokenInv, SpentOK, [Next]_vars
  PROVE  JobOK'
<1>1. CASE CollectNext
  BY <1>1, RestTyped DEF JobOK, Stages, QueueOK, CollectNext, Rest, store, login
<1>2. CASE CheckEnabled
  BY <1>2, RestTyped DEF JobOK, Stages, CollectFails, CheckEnabled, Collects, store,
     Stage, Rest
<1>3. CASE GetCredential
  BY <1>3, RestTyped DEF JobOK, Stages, KeyringOK, JobKnows, CollectFails,
     GetCredential, Collects, store, Rest
<1>4. ASSUME NEW at \in {"refresh", "refresh_again"}, NEW then \in {"store", "store_again"}, RefreshToken(at, then) PROVE JobOK'
  <2>1. \/ job' = Rest
        \/ job'.at = then /\ job'.held \in Credential
    BY <1>4, RefreshStep
  <2>2. job' = Rest \/ \E c : job' = [job EXCEPT !.at = then, !.held = c]
    BY <1>4 DEF RefreshToken, Stage, CollectFails, JobOK
  <2>3. CASE job' = Rest
    BY <2>3, RestTyped DEF JobOK
  <2> QED
    BY <2>1, <2>2, <2>3 DEF JobOK, Stages
<1>5. ASSUME NEW at \in {"store", "store_again"}, NEW then \in {"usage", "usage_again"}, StoreToken(at, then) PROVE JobOK'
  BY <1>5, RestTyped DEF JobOK, Stages, CollectFails, StoreToken, Collects, store,
     Stage, Rest
<1>6. CASE AskUsage
  BY <1>6, RestTyped DEF JobOK, Stages, CollectFails, AskUsage, Collects, store,
     Stage, Rest
<1>7. CASE AskUsageAgain
  BY <1>7, RestTyped DEF JobOK, Stages, CollectFails, AskUsageAgain, Collects, store,
     Stage, Rest
<1>8. CASE PublishLimits
  BY <1>8, RestTyped DEF JobOK, Stages, CollectFails, PublishLimits, Collects, store,
     Stage
<1>9. CASE PublishMetrics
  BY <1>9, RestTyped DEF JobOK, Stages, CollectFails, PublishMetrics, Collects, store,
     Rest
<1>10. CASE Crash
  BY <1>10, RestTyped DEF JobOK, Stages, CollectFails, Crash, Idle, Rest, login
<1>11. CASE UNCHANGED <<job>>
  BY <1>11 DEF JobOK, Stages
<1> QED
  BY <1>1, <1>2, <1>3, <1>4, <1>5, <1>6, <1>7, <1>8, <1>9, <1>10, <1>11, JobChanges

\* What is shown comes from a login.
LEMMA ShownTyped ==
  ASSUME ShownOK, JobOK, JobKnows, RequestsOK, HandlerKnows, [Next]_vars
  PROVE  ShownOK'
<1>1. ASSUME NEW u \in Users, WithdrawLimits(u) PROVE ShownOK'
  BY <1>1 DEF ShownOK, RequestsOK, WithdrawLimits, At, store, login, loop
<1>2. ASSUME NEW u \in Users, WithdrawMetrics(u) PROVE ShownOK'
  BY <1>2 DEF ShownOK, RequestsOK, WithdrawMetrics, At, Idle, store, login, loop
<1>3. CASE PublishLimits
  BY <1>3 DEF ShownOK, RequestsOK, JobOK, JobKnows, Credential, PublishLimits,
     Collects, store, Stage
<1>4. CASE PublishMetrics
  BY <1>4 DEF ShownOK, RequestsOK, JobOK, JobKnows, Credential, PublishMetrics,
     Collects, store, Rest
<1>5. CASE UNCHANGED <<shown>>
  BY <1>5 DEF ShownOK, RequestsOK
<1> QED
  BY <1>1, <1>2, <1>3, <1>4, <1>5, ShownChanges

\* The bounds are kept.
LEMMA SpentTyped ==
  ASSUME SpentOK, KeyringOK, JobOK, TokenInv, JobKnows, [Next]_vars
  PROVE  SpentOK'
<1>1. ASSUME NEW u \in Users, AskStart(u) PROVE SpentOK'
  BY <1>1, Bounds DEF SpentOK, AskStart, Ask
<1>2. ASSUME NEW u \in Users, AskComplete(u) PROVE SpentOK'
  BY <1>2, Bounds DEF SpentOK, AskComplete, Ask
<1>3. ASSUME NEW u \in Users, ExchangeCode(u) PROVE SpentOK'
  BY <1>3, Bounds DEF SpentOK, ExchangeCode, Fault
<1>4. ASSUME NEW u \in Users, GetOld(u) PROVE SpentOK'
  BY <1>4, Bounds DEF SpentOK, GetOld, Fault
<1>5. ASSUME NEW u \in Users, SetCredential(u) PROVE SpentOK'
  BY <1>5, Bounds DEF SpentOK, Fault, CollectFails, SetCredential, At, Idle, store,
     login, loop
<1>6. ASSUME NEW u \in Users, Restore(u) PROVE SpentOK'
  BY <1>6, Bounds DEF SpentOK, Fault, CollectFails, Restore, At, Idle, store, login,
     loop
<1>7. ASSUME NEW u \in Users, AskUpdate(u) PROVE SpentOK'
  BY <1>7, Bounds DEF SpentOK, AskUpdate, Ask
<1>8. ASSUME NEW u \in Users, AskDelete(u) PROVE SpentOK'
  BY <1>8, Bounds DEF SpentOK, AskDelete, Ask
<1>9. ASSUME NEW u \in Users, SaveFails(u) PROVE SpentOK'
  BY <1>9, Bounds DEF SpentOK, Fault, CollectFails, SaveFails, At, Idle, login, loop
<1>10. ASSUME NEW u \in Users, GetForStatus(u) PROVE SpentOK'
  BY <1>10, Bounds DEF SpentOK, Fault, CollectFails, GetForStatus, At, Idle, store,
     login, loop
<1>11. ASSUME NEW u \in Users, EraseCredential(u) PROVE SpentOK'
  BY <1>11, Bounds DEF SpentOK, Fault, CollectFails, EraseCredential, At, Idle, store,
     login, loop
<1>12. CASE GetCredential
  BY <1>12, Bounds DEF SpentOK, Fault, CollectFails, GetCredential, Collects, store,
     Rest
<1>13. ASSUME NEW at \in {"refresh", "refresh_again"}, NEW then \in {"store", "store_again"}, RefreshToken(at, then) PROVE SpentOK'
  <2>1. CASE Rotate /\ spent' = [spent EXCEPT !.rotations = @ + 1]
    <3>1. spent.rotations + 1 \in 0..MaxRotations
      BY <1>13, <2>1, RefreshStep, RotateTyped, Bounds DEF SpentOK
    <3> QED
      BY <2>1, <3>1 DEF SpentOK
  <2>2. CASE UNCHANGED spent \/ Fault
    BY <2>2, Bounds DEF SpentOK, Fault
  <2> QED
    BY <1>13, <2>1, <2>2, RefreshStep
<1>14. ASSUME NEW at \in {"store", "store_again"}, NEW then \in {"usage", "usage_again"}, StoreToken(at, then) PROVE SpentOK'
  BY <1>14, Bounds DEF SpentOK, Fault, CollectFails, StoreToken, Collects, store,
     Stage, Rest
<1>15. CASE AskUsage
  BY <1>15, Bounds DEF SpentOK, Fault, CollectFails, AskUsage, Collects, store, Stage,
     Rest
<1>16. CASE AskUsageAgain
  BY <1>16, Bounds DEF SpentOK, Fault, CollectFails, AskUsageAgain, Collects, store,
     Stage, Rest
<1>17. CASE Crash
  BY <1>17, Bounds DEF SpentOK, Fault, CollectFails, Crash, Idle, Rest, login
<1>18. CASE UNCHANGED <<spent>>
  BY <1>18 DEF SpentOK, Fault
<1> QED
  BY <1>1, <1>2, <1>3, <1>4, <1>5, <1>6, <1>7, <1>8, <1>9, <1>10, <1>11, <1>12, <1>13,
     <1>14, <1>15, <1>16, <1>17, <1>18, SpentChanges

-----------------------------------------------------------------------------
(* Handlers and the run loop. *)

\* A handler takes its steps in their order.
LEMMA HandlerStep ==
  ASSUME RequestsOK, SessionsOK, KeyringOK, StoreOK, JobOK, SpentOK, HandlerKnows,
     [Next]_vars
  PROVE  HandlerKnows'
<1>1. ASSUME NEW u \in Users, Moves(u) PROVE HandlerKnows'
  BY <1>1, MoveStep DEF HandlerKnows, Others, Keeps, Idle, Passes
<1>2. ASSUME NEW u \in Users, Asks(u) PROVE HandlerKnows'
  BY <1>2, AskSteps DEF HandlerKnows, Others, Keeps, Idle, OnlyRequests
<1>3. ASSUME NEW u \in Users, CheckExists(u) PROVE HandlerKnows'
  BY <1>3, ExistsStep DEF HandlerKnows, Others, Keeps, Idle, OnlyRequests
<1>4. ASSUME NEW u \in Users, CheckSession(u) PROVE HandlerKnows'
  BY <1>4, SessionStep DEF HandlerKnows, Others, Keeps, Idle, OnlyRequests
<1>5. ASSUME NEW u \in Users, ExchangeCode(u) PROVE HandlerKnows'
  BY <1>5, ExchangeMoves DEF HandlerKnows, Others, Keeps, Idle
<1>6. ASSUME NEW u \in Users, GetOld(u) PROVE HandlerKnows'
  BY <1>6, OldStep DEF HandlerKnows, Others, Keeps, Idle, OnlyRequests
<1>7. ASSUME NEW u \in Users, SaveAccounts(u) PROVE HandlerKnows'
  BY <1>7, SaveStep DEF HandlerKnows, Others, Keeps, Idle
<1>8. CASE Crash
  BY <1>8 DEF HandlerKnows, Crash, Idle
<1>9. CASE UNCHANGED <<req>>
  BY <1>9 DEF HandlerKnows, Others, Keeps, Idle
<1> QED
  BY <1>1, <1>2, <1>3, <1>4, <1>5, <1>6, <1>7, <1>8, <1>9, ReqChanges DEF Asks, Moves,
     Walks

\* The identifier of a session is not used twice.
LEMMA SlotStep ==
  ASSUME RequestsOK, SessionsOK, KeyringOK, StoreOK, JobOK, SpentOK, HandlerKnows,
     SlotKeepsId, [Next]_vars
  PROVE  SlotKeepsId'
<1>1. ASSUME NEW u \in Users, Walks(u) PROVE SlotKeepsId'
  BY <1>1, NoneAssumption, MoveStep, WalkFrame DEF SlotKeepsId, HandlerKnows, Others,
     Keeps, Idle, Passes, Moves
<1>2. ASSUME NEW u \in Users, Asks(u) PROVE SlotKeepsId'
  BY <1>2, NoneAssumption, AskSteps DEF SlotKeepsId, HandlerKnows, Others, Keeps,
     Idle, OnlyRequests
<1>3. ASSUME NEW u \in Users, CheckExists(u) PROVE SlotKeepsId'
  BY <1>3, NoneAssumption, ExistsStep DEF SlotKeepsId, HandlerKnows, Others, Keeps,
     Idle, OnlyRequests
<1>4. ASSUME NEW u \in Users, InsertSession(u) PROVE SlotKeepsId'
  <2>1. Others(u) /\ req'[u] = Idle
    BY <1>4, DoneStep DEF InsertSession
  <2>2. PICK s \in Slots :
          /\ \A v \in Users : req[v].slot # s
          /\ \A t \in Slots \ {s} : sessions'[t] = None \/ sessions'[t] = sessions[t]
    BY <1>4 DEF InsertSession, SessionsOK
  <2>3. \A v \in Users : req[v].slot \in Slots \cup {None}
    BY DEF RequestsOK, Request
  <2> QED
    BY <2>1, <2>2, <2>3 DEF SlotKeepsId, Others, Idle
<1>5. ASSUME NEW u \in Users, CheckSession(u) PROVE SlotKeepsId'
  BY <1>5, NoneAssumption, SessionStep DEF SlotKeepsId, HandlerKnows, Others, Keeps,
     Idle, OnlyRequests
<1>6. ASSUME NEW u \in Users, ExchangeCode(u) PROVE SlotKeepsId'
  BY <1>6, NoneAssumption, ExchangeMoves DEF SlotKeepsId, HandlerKnows, Others, Keeps,
     Idle
<1>7. ASSUME NEW u \in Users, RemoveSession(u) PROVE SlotKeepsId'
  <2>1. Others(u) /\ req'[u].id = req[u].id /\ req'[u].slot = req[u].slot
    BY <1>7, GoToStep DEF RemoveSession, Steps, Keeps
  <2>2. \A s \in Slots : sessions'[s] = None \/ sessions'[s] = sessions[s]
    BY <1>7 DEF RemoveSession, SessionsOK
  <2>3. \A v \in Users : req[v].slot \in Slots \cup {None}
    BY DEF RequestsOK, Request
  <2> QED
    BY <2>1, <2>2, <2>3 DEF SlotKeepsId, Others
<1>8. ASSUME NEW u \in Users, GetOld(u) PROVE SlotKeepsId'
  BY <1>8, NoneAssumption, OldStep DEF SlotKeepsId, HandlerKnows, Others, Keeps, Idle,
     OnlyRequests
<1>9. ASSUME NEW u \in Users, SetCredential(u) PROVE SlotKeepsId'
  BY <1>9, NoneAssumption, MoveStep, CredentialMoves DEF SlotKeepsId, HandlerKnows,
     Others, Keeps, Idle, Passes, Moves
<1>10. ASSUME NEW u \in Users, Restore(u) PROVE SlotKeepsId'
  BY <1>10, NoneAssumption, MoveStep, CredentialMoves DEF SlotKeepsId, HandlerKnows,
     Others, Keeps, Idle, Passes, Moves
<1>11. ASSUME NEW u \in Users, SaveAccounts(u) PROVE SlotKeepsId'
  BY <1>11, NoneAssumption, SaveStep DEF SlotKeepsId, HandlerKnows, Others, Keeps,
     Idle
<1>12. ASSUME NEW u \in Users, SaveFails(u) PROVE SlotKeepsId'
  BY <1>12, NoneAssumption, MoveStep, SaveFailsMoves DEF SlotKeepsId, HandlerKnows,
     Others, Keeps, Idle, Passes, Moves
<1>13. ASSUME NEW u \in Users, EraseCredential(u) PROVE SlotKeepsId'
  BY <1>13, NoneAssumption, MoveStep, CredentialMoves DEF SlotKeepsId, HandlerKnows,
     Others, Keeps, Idle, Passes, Moves
<1>14. ASSUME NEW s \in Slots, Expire(s) PROVE SlotKeepsId'
  <2>1. \A v \in Slots : sessions'[v] = sessions[v] \/
                          (sessions[v] # None /\ sessions'[v].id = sessions[v].id)
    BY <1>14 DEF Expire, SessionsOK, Session
  <2>2. UNCHANGED req /\ \A v \in Users : req[v].slot \in Slots \cup {None}
    BY <1>14 DEF Expire, RequestsOK, Request
  <2> QED
    BY <2>1, <2>2 DEF SlotKeepsId
<1>15. CASE Crash
  BY <1>15 DEF SlotKeepsId, Crash, Idle
<1>16. CASE UNCHANGED <<sessions, req>>
  BY <1>16 DEF SlotKeepsId, HandlerKnows, Others, Keeps, Idle
<1> QED
  BY <1>1, <1>2, <1>3, <1>4, <1>5, <1>6, <1>7, <1>8, <1>9, <1>10, <1>11, <1>12, <1>13,
     <1>14, <1>15, <1>16, SessionsChanges, ReqChanges DEF Asks, Walks

\* A request waits for the one before it about the same account.
LEMMA OneStep ==
  ASSUME RequestsOK, SessionsOK, KeyringOK, StoreOK, JobOK, SpentOK, HandlerKnows,
     SlotKeepsId, OneHandler, [Next]_vars
  PROVE  OneHandler'
<1>1. ASSUME NEW u \in Users, Moves(u) PROVE OneHandler'
  BY <1>1, NoneAssumption, MoveStep DEF OneHandler, HandlerKnows, Others, Keeps, Idle,
     Passes
<1>2. ASSUME NEW u \in Users, Asks(u) PROVE OneHandler'
  BY <1>2, NoneAssumption, AskSteps DEF OneHandler, HandlerKnows, Others, Keeps, Idle,
     OnlyRequests
<1>3. ASSUME NEW u \in Users, CheckExists(u) PROVE OneHandler'
  BY <1>3, NoneAssumption, ExistsStep DEF OneHandler, HandlerKnows, Others, Keeps,
     Idle, OnlyRequests
<1>4. ASSUME NEW u \in Users, CheckSession(u) PROVE OneHandler'
  BY <1>4, NoneAssumption, SessionStep DEF OneHandler, HandlerKnows, Others, Keeps,
     Idle, SlotKeepsId, OnlyRequests
<1>5. ASSUME NEW u \in Users, ExchangeCode(u) PROVE OneHandler'
  BY <1>5, NoneAssumption, ExchangeMoves DEF OneHandler, HandlerKnows, Others, Keeps,
     Idle
<1>6. ASSUME NEW u \in Users, GetOld(u) PROVE OneHandler'
  BY <1>6, NoneAssumption, OldStep DEF OneHandler, HandlerKnows, Others, Keeps, Idle,
     OnlyRequests
<1>7. ASSUME NEW u \in Users, SaveAccounts(u) PROVE OneHandler'
  BY <1>7, NoneAssumption, SaveStep DEF OneHandler, HandlerKnows, Others, Keeps, Idle
<1>8. CASE Crash
  BY <1>8, NoneAssumption DEF OneHandler, HandlerKnows, Others, Keeps, Idle, Crash,
     Rest, login
<1>9. CASE UNCHANGED <<req>>
  BY <1>9 DEF OneHandler, HandlerKnows, Others, Keeps, Idle
<1> QED
  BY <1>1, <1>2, <1>3, <1>4, <1>5, <1>6, <1>7, <1>8, <1>9, ReqChanges DEF Asks, Moves,
     Walks

\* A collection has a credential once it has read it.
LEMMA JobStep ==
  ASSUME RequestsOK, SessionsOK, KeyringOK, StoreOK, JobOK, SpentOK, QueueOK,
     TokenInv, JobKnows, [Next]_vars
  PROVE  JobKnows'
<1>1. CASE CollectNext
  BY <1>1, CredentialAssumption DEF JobKnows, JobOK, Rest, QueueOK, CollectNext,
     store, login
<1>2. CASE CheckEnabled
  BY <1>2, CredentialAssumption DEF JobKnows, JobOK, Rest, CheckEnabled, Collects,
     store, Stage
<1>3. CASE GetCredential
  <2>1. job.id \in Ids /\ cred[job.id] \in Credential \cup {None}
    BY <1>3 DEF GetCredential, Collects, JobKnows, KeyringOK
  <2>2. CASE job' = Rest
    BY <2>2 DEF JobKnows, Rest
  <2>3. ASSUME NEW at \in {"refresh", "usage"}, cred[job.id] # None,
               job' = [job EXCEPT !.at = at, !.held = cred[job.id]]
        PROVE  JobKnows'
    BY <2>1, <2>3 DEF JobKnows, JobOK
  <2> QED
    BY <1>3, <2>2, <2>3 DEF GetCredential, CollectFails
<1>4. ASSUME NEW at \in {"refresh", "refresh_again"}, NEW then \in {"store", "store_again"}, RefreshToken(at, then) PROVE JobKnows'
  BY <1>4, CredentialAssumption, RefreshStep DEF JobKnows, JobOK, Rest
<1>5. ASSUME NEW at \in {"store", "store_again"}, NEW then \in {"usage", "usage_again"}, StoreToken(at, then) PROVE JobKnows'
  BY <1>5, CredentialAssumption DEF JobKnows, JobOK, Rest, CollectFails, StoreToken,
     Collects, store, Stage
<1>6. CASE AskUsage
  BY <1>6, CredentialAssumption DEF JobKnows, JobOK, Rest, CollectFails, AskUsage,
     Collects, store, Stage
<1>7. CASE AskUsageAgain
  BY <1>7, CredentialAssumption DEF JobKnows, JobOK, Rest, CollectFails,
     AskUsageAgain, Collects, store, Stage
<1>8. CASE PublishLimits
  BY <1>8, CredentialAssumption DEF JobKnows, JobOK, Rest, PublishLimits, Collects,
     store, Stage
<1>9. CASE PublishMetrics
  BY <1>9, CredentialAssumption DEF JobKnows, JobOK, Rest, PublishMetrics, Collects,
     store
<1>10. CASE Crash
  BY <1>10, CredentialAssumption DEF JobKnows, JobOK, Rest, Crash, Idle, login
<1>11. CASE UNCHANGED <<job>>
  BY <1>11 DEF JobKnows, JobOK, Rest
<1> QED
  BY <1>1, <1>2, <1>3, <1>4, <1>5, <1>6, <1>7, <1>8, <1>9, <1>10, <1>11, JobChanges

-----------------------------------------------------------------------------
(* Tokens. *)

\* What the exchange of a code and a refresh give to their account.
FromExchange(i, c) ==
    /\ c = [login |-> logins[i] + 1, token |-> 0]
    /\ logins' = [logins EXCEPT ![i] = logins[i] + 1] /\ logins[i] + 1 \in Logins
    /\ UNCHANGED <<valid, spent>>

FromRefresh(i, c) ==
    /\ i = job.id /\ job.held \in Credential /\ Rotate
    /\ c = [login |-> job.held.login, token |-> job.held.token + 1]
    /\ spent' = [spent EXCEPT !.rotations = @ + 1] /\ UNCHANGED logins

\* Nobody else gets a credential that was not there before.
HeldBefore == \A i \in Ids, c \in Credential :
    Held(i, c)' => Held(i, c) \/ FromExchange(i, c) \/ FromRefresh(i, c)

\* The token endpoint issues a token to the run loop only, also one that gets lost.
OnlyRotates ==
    UNCHANGED valid \/ (Rotate /\ job.id \in Ids /\ job.held \in Credential)

\* A credential comes from an exchange or a refresh, or it was there before.
LEMMA BeforeStep ==
  ASSUME RequestsOK, SessionsOK, KeyringOK, StoreOK, JobOK, SpentOK, HandlerKnows,
     SlotKeepsId, JobKnows, TokenInv, [Next]_vars
  PROVE  HeldBefore
<1>1. ASSUME NEW u \in Users, Walks(u) PROVE HeldBefore
  BY <1>1, CredentialAssumption, MoveStep, WalkFrame DEF HeldBefore, HandlerKnows,
     Held, Others, Keeps, Idle, Passes, Moves
<1>2. ASSUME NEW u \in Users, Asks(u) PROVE HeldBefore
  BY <1>2, CredentialAssumption, AskSteps DEF HeldBefore, HandlerKnows, Held, Others,
     Keeps, Idle, OnlyRequests
<1>3. ASSUME NEW u \in Users, CheckExists(u) PROVE HeldBefore
  BY <1>3, CredentialAssumption, ExistsStep DEF HeldBefore, HandlerKnows, Held,
     Others, Keeps, Idle, OnlyRequests
<1>4. ASSUME NEW u \in Users, InsertSession(u) PROVE HeldBefore
  BY <1>4, CredentialAssumption, MoveStep, SessionMoves DEF HeldBefore, HandlerKnows,
     Held, Others, Keeps, Idle, Passes, Moves
<1>5. ASSUME NEW u \in Users, CheckSession(u) PROVE HeldBefore
  BY <1>5, CredentialAssumption, SessionStep, NoneAssumption DEF HeldBefore,
     HandlerKnows, Held, Others, Keeps, Idle, SlotKeepsId, OnlyRequests
<1>6. ASSUME NEW u \in Users, ExchangeCode(u) PROVE HeldBefore
  <2>1. /\ Others(u) /\ UNCHANGED <<cred, job>> /\ req[u].id \in Ids
        /\ \/ req'[u] = Idle
           \/ /\ Keeps(u) /\ req'[u].old = req[u].old
              /\ FromExchange(req[u].id, req'[u].new)
    BY <1>6, ExchangeStep DEF FromExchange, HandlerKnows
  <2> QED
    BY <2>1, CredentialAssumption DEF HeldBefore, Held, Others, Keeps, Idle
<1>7. ASSUME NEW u \in Users, RemoveSession(u) PROVE HeldBefore
  BY <1>7, CredentialAssumption, MoveStep, SessionMoves DEF HeldBefore, HandlerKnows,
     Held, Others, Keeps, Idle, Passes, Moves
<1>8. ASSUME NEW u \in Users, GetOld(u) PROVE HeldBefore
  BY <1>8, CredentialAssumption, OldStep DEF HeldBefore, HandlerKnows, Held, Others,
     Keeps, Idle, OnlyRequests
<1>9. ASSUME NEW u \in Users, SetCredential(u) PROVE HeldBefore
  <2>1. Others(u) /\ UNCHANGED job /\ (req'[u] = Idle \/ Passes(u))
    BY <1>9, MoveStep, CredentialMoves DEF Moves
  <2>2. \A i \in Ids : \/ cred'[i] = cred[i]
                       \/ i = req[u].id /\ cred'[i] \in {req[u].new, req[u].old, None}
    BY <1>9, CredentialMoves DEF KeyringOK
  <2> QED
    BY <2>1, <2>2, CredentialAssumption DEF HeldBefore, Held, Others, Passes, Keeps, Idle
<1>10. ASSUME NEW u \in Users, Restore(u) PROVE HeldBefore
  <2>1. Others(u) /\ UNCHANGED job /\ (req'[u] = Idle \/ Passes(u))
    BY <1>10, MoveStep, CredentialMoves DEF Moves
  <2>2. \A i \in Ids : \/ cred'[i] = cred[i]
                       \/ i = req[u].id /\ cred'[i] \in {req[u].new, req[u].old, None}
    BY <1>10, CredentialMoves DEF KeyringOK
  <2> QED
    BY <2>1, <2>2, CredentialAssumption DEF HeldBefore, Held, Others, Passes, Keeps, Idle
<1>11. ASSUME NEW u \in Users, SaveAccounts(u) PROVE HeldBefore
  BY <1>11, CredentialAssumption, SaveStep DEF HeldBefore, HandlerKnows, Held, Others,
     Keeps, Idle
<1>12. ASSUME NEW u \in Users, SaveFails(u) PROVE HeldBefore
  BY <1>12, CredentialAssumption, MoveStep, SaveFailsMoves DEF HeldBefore,
     HandlerKnows, Held, Others, Keeps, Idle, Passes, Moves
<1>13. ASSUME NEW u \in Users, EraseCredential(u) PROVE HeldBefore
  <2>1. Others(u) /\ UNCHANGED job /\ (req'[u] = Idle \/ Passes(u))
    BY <1>13, MoveStep, CredentialMoves DEF Moves
  <2>2. \A i \in Ids : \/ cred'[i] = cred[i]
                       \/ i = req[u].id /\ cred'[i] \in {req[u].new, req[u].old, None}
    BY <1>13, CredentialMoves DEF KeyringOK
  <2> QED
    BY <2>1, <2>2, CredentialAssumption DEF HeldBefore, Held, Others, Passes, Keeps, Idle
<1>14. CASE CollectNext
  BY <1>14, CredentialAssumption DEF HeldBefore, HandlerKnows, Held, Others, Keeps,
     Idle, CollectNext, Rest, store, login
<1>15. CASE CheckEnabled
  BY <1>15, CredentialAssumption DEF HeldBefore, HandlerKnows, Held, Others, Keeps,
     Idle, JobOK, Rest, CollectFails, CheckEnabled, Collects, store, Stage
<1>16. CASE GetCredential
  <2>1. UNCHANGED <<cred, req>>
    BY <1>16 DEF GetCredential, Collects
  <2>2. CASE job' = Rest
    BY <2>1, <2>2, CredentialAssumption DEF HeldBefore, Held, Rest
  <2>3. ASSUME NEW at, job' = [job EXCEPT !.at = at, !.held = cred[job.id]]
        PROVE  HeldBefore
    <3>1. job'.id = job.id /\ job'.held = cred[job.id]
      BY <2>3 DEF JobOK
    <3> QED
      BY <2>1, <3>1 DEF HeldBefore, Held
  <2> QED
    BY <1>16, <2>2, <2>3 DEF GetCredential, CollectFails
<1>17. ASSUME NEW at \in {"refresh", "refresh_again"}, NEW then \in {"store", "store_again"}, RefreshToken(at, then) PROVE HeldBefore
  BY <1>17, CredentialAssumption, RefreshStep DEF HeldBefore, HandlerKnows, Held,
     Others, Keeps, Idle, FromRefresh, Rest
<1>18. ASSUME NEW at \in {"store", "store_again"}, NEW then \in {"usage", "usage_again"}, StoreToken(at, then) PROVE HeldBefore
  BY <1>18, CredentialAssumption DEF HeldBefore, HandlerKnows, Held, Others, Keeps,
     Idle, JobOK, Rest, CollectFails, KeyringOK, JobKnows, StoreToken, Collects,
     store, Stage
<1>19. CASE AskUsage
  BY <1>19, CredentialAssumption DEF HeldBefore, HandlerKnows, Held, Others, Keeps,
     Idle, JobOK, Rest, CollectFails, AskUsage, Collects, store, Stage
<1>20. CASE AskUsageAgain
  BY <1>20, CredentialAssumption DEF HeldBefore, HandlerKnows, Held, Others, Keeps,
     Idle, JobOK, Rest, CollectFails, AskUsageAgain, Collects, store, Stage
<1>21. CASE PublishLimits
  BY <1>21, CredentialAssumption DEF HeldBefore, HandlerKnows, Held, Others, Keeps,
     Idle, PublishLimits, Collects, store, Stage
<1>22. CASE PublishMetrics
  BY <1>22, CredentialAssumption DEF HeldBefore, HandlerKnows, Held, Others, Keeps,
     Idle, PublishMetrics, Collects, store, Rest
<1>23. CASE Crash
  BY <1>23, CredentialAssumption DEF HeldBefore, HandlerKnows, Held, Others, Keeps,
     Idle, Crash, Rest, login
<1>24. CASE UNCHANGED <<cred, req, job>>
  BY <1>24 DEF HeldBefore, HandlerKnows, Held, Others, Keeps, Idle
<1> QED
  BY <1>1, <1>2, <1>3, <1>4, <1>5, <1>6, <1>7, <1>8, <1>9, <1>10, <1>11, <1>12, <1>13,
     <1>14, <1>15, <1>16, <1>17, <1>18, <1>19, <1>20, <1>21, <1>22, <1>23, <1>24,
     CredChanges, ReqChanges, JobChanges DEF Asks, Walks

\* Only a refresh rotates a token.
LEMMA RotateStep ==
  ASSUME RequestsOK, SessionsOK, KeyringOK, StoreOK, JobOK, SpentOK, HandlerKnows,
     SlotKeepsId, JobKnows, TokenInv, [Next]_vars
  PROVE  OnlyRotates
<1>1. ASSUME NEW at \in {"refresh", "refresh_again"}, NEW then \in {"store", "store_again"}, RefreshToken(at, then) PROVE OnlyRotates
  BY <1>1, RefreshStep DEF OnlyRotates
<1>2. CASE UNCHANGED <<valid>>
  BY <1>2 DEF OnlyRotates
<1> QED
  BY <1>1, <1>2, ValidChanges

\* Only an exchange makes a login.
OnlyExchanges ==
    \/ UNCHANGED logins
    \/ \E i \in Ids : /\ logins' = [logins EXCEPT ![i] = logins[i] + 1]
                      /\ logins[i] + 1 \in Logins /\ UNCHANGED valid

\* Rotations and faults are counted.
SpentGrows ==
    /\ spent'.rotations \in Nat /\ spent'.rotations >= spent.rotations
    /\ spent'.faults >= spent.faults

\* Logins are made by exchanges.
LEMMA ExchangesStep ==
  ASSUME RequestsOK, SessionsOK, KeyringOK, StoreOK, JobOK, SpentOK, HandlerKnows,
     SlotKeepsId, JobKnows, TokenInv, [Next]_vars
  PROVE  OnlyExchanges
<1>1. ASSUME NEW u \in Users, ExchangeCode(u) PROVE OnlyExchanges
  BY <1>1, ExchangeStep DEF OnlyExchanges, HandlerKnows
<1>2. CASE UNCHANGED <<logins>>
  BY <1>2 DEF OnlyExchanges, HandlerKnows
<1> QED
  BY <1>1, <1>2, LoginsChanges

\* What is counted never falls.
LEMMA GrowStep ==
  ASSUME RequestsOK, SessionsOK, KeyringOK, StoreOK, JobOK, SpentOK, HandlerKnows,
     SlotKeepsId, JobKnows, TokenInv, [Next]_vars
  PROVE  SpentGrows
<1>1. ASSUME NEW u \in Users, AskStart(u) PROVE SpentGrows
  BY <1>1, Bounds DEF SpentGrows, SpentOK, AskStart, Ask
<1>2. ASSUME NEW u \in Users, AskComplete(u) PROVE SpentGrows
  BY <1>2, Bounds DEF SpentGrows, SpentOK, AskComplete, Ask
<1>3. ASSUME NEW u \in Users, ExchangeCode(u) PROVE SpentGrows
  BY <1>3, Bounds DEF SpentGrows, SpentOK, ExchangeCode, Fault, CollectFails
<1>4. ASSUME NEW u \in Users, GetOld(u) PROVE SpentGrows
  BY <1>4, Bounds DEF SpentGrows, SpentOK, GetOld, Fault, CollectFails
<1>5. ASSUME NEW u \in Users, SetCredential(u) PROVE SpentGrows
  BY <1>5, Bounds DEF SpentGrows, SpentOK, SetCredential, Fault, CollectFails
<1>6. ASSUME NEW u \in Users, Restore(u) PROVE SpentGrows
  BY <1>6, Bounds DEF SpentGrows, SpentOK, Restore, Fault, CollectFails
<1>7. ASSUME NEW u \in Users, AskUpdate(u) PROVE SpentGrows
  BY <1>7, Bounds DEF SpentGrows, SpentOK, AskUpdate, Ask
<1>8. ASSUME NEW u \in Users, AskDelete(u) PROVE SpentGrows
  BY <1>8, Bounds DEF SpentGrows, SpentOK, AskDelete, Ask
<1>9. ASSUME NEW u \in Users, SaveFails(u) PROVE SpentGrows
  BY <1>9, Bounds DEF SpentGrows, SpentOK, SaveFails, Fault, CollectFails
<1>10. ASSUME NEW u \in Users, GetForStatus(u) PROVE SpentGrows
  BY <1>10, Bounds DEF SpentGrows, SpentOK, GetForStatus, Fault, CollectFails
<1>11. ASSUME NEW u \in Users, EraseCredential(u) PROVE SpentGrows
  BY <1>11, Bounds DEF SpentGrows, SpentOK, EraseCredential, Fault, CollectFails
<1>12. CASE GetCredential
  BY <1>12, Bounds DEF SpentGrows, SpentOK, GetCredential, Fault, CollectFails
<1>13. ASSUME NEW at \in {"refresh", "refresh_again"}, NEW then \in {"store", "store_again"}, RefreshToken(at, then) PROVE SpentGrows
  <2>1. UNCHANGED spent \/ Fault \/ spent' = [spent EXCEPT !.rotations = @ + 1]
    BY <1>13, RefreshStep
  <2> QED
    BY <2>1, Bounds DEF SpentGrows, SpentOK, Fault
<1>14. ASSUME NEW at \in {"store", "store_again"}, NEW then \in {"usage", "usage_again"}, StoreToken(at, then) PROVE SpentGrows
  BY <1>14, Bounds DEF SpentGrows, SpentOK, StoreToken, Fault, CollectFails
<1>15. CASE AskUsage
  BY <1>15, Bounds DEF SpentGrows, SpentOK, AskUsage, Fault, CollectFails
<1>16. CASE AskUsageAgain
  BY <1>16, Bounds DEF SpentGrows, SpentOK, AskUsageAgain, Fault, CollectFails
<1>17. CASE Crash
  BY <1>17, Bounds DEF SpentGrows, SpentOK, Crash, Fault, CollectFails
<1>18. CASE UNCHANGED <<spent>>
  BY <1>18 DEF SpentGrows, SpentOK
<1> QED
  BY <1>1, <1>2, <1>3, <1>4, <1>5, <1>6, <1>7, <1>8, <1>9, <1>10, <1>11, <1>12, <1>13,
     <1>14, <1>15, <1>16, <1>17, <1>18, SpentChanges

\* Every credential is of a login and a token that were issued, and a token that was
\* lost is nobody's.
LEMMA TokenStep ==
  ASSUME KeyringOK, RequestsOK, SessionsOK, StoreOK, JobOK, SpentOK, HandlerKnows, SlotKeepsId,
         JobKnows, TokenInv, KeyringOK', [Next]_vars
  PROVE  TokenInv'
<1>1. HeldBefore /\ OnlyRotates /\ OnlyExchanges /\ SpentGrows
  BY BeforeStep, RotateStep, ExchangesStep, GrowStep
<1>2. /\ \A i \in Ids : logins[i] \in Nat /\ logins'[i] \in Nat /\ logins'[i] >= logins[i]
      /\ \A i \in Ids, l \in Logins :
           valid[i][l] \in 0..MaxRotations /\ valid'[i][l] \in 0..MaxRotations
  <2>1. \A i \in Ids : logins[i] \in Nat /\ logins'[i] \in Nat
    BY Bounds DEF KeyringOK, Logins
  <2>2. \A i \in Ids : logins'[i] >= logins[i]
    BY <1>1, <2>1 DEF OnlyExchanges, KeyringOK
  <2>3. \A i \in Ids, l \in Logins :
           valid[i][l] \in 0..MaxRotations /\ valid'[i][l] \in 0..MaxRotations
    BY DEF KeyringOK
  <2> QED
    BY <2>1, <2>2, <2>3
<1>3. CASE UNCHANGED valid
  <2>1. HeldIsIssued'
    <3> SUFFICES ASSUME NEW i \in Ids, NEW c \in Credential, Held(i, c)'
                 PROVE  c.login <= logins'[i] /\ c.token <= valid'[i][c.login]
      BY DEF HeldIsIssued
    <3>1. ~FromRefresh(i, c)
      BY <1>3, RotateTyped, Bounds DEF FromRefresh, KeyringOK, Credential, Accepted
    <3>2. CASE Held(i, c)
      BY <1>2, <1>3, <3>2, Bounds DEF TokenInv, HeldIsIssued, Credential, Logins
    <3>3. CASE FromExchange(i, c)
      BY <1>2, <1>3, <3>3, Bounds DEF FromExchange, KeyringOK
    <3> QED
      BY <1>1, <3>1, <3>2, <3>3 DEF HeldBefore
  <2>2. NothingIssued'
    BY <1>2, <1>3, Bounds DEF TokenInv, NothingIssued, Logins
  <2>3. LostIsNotHeld'
    <3> SUFFICES ASSUME NEW i \in Ids, NEW l \in Logins, valid'[i][l] > spent'.rotations,
                        NEW c, c = [login |-> l, token |-> valid'[i][l]], Held(i, c)'
                 PROVE  FALSE
      BY DEF LostIsNotHeld
    <3>1. c \in Credential
      BY <1>2 DEF Credential
    <3>2. ~FromRefresh(i, c)
      BY <1>3, RotateTyped, Bounds DEF FromRefresh, KeyringOK, Credential, Accepted
    <3>3. ~FromExchange(i, c)
      BY <1>1, <1>2, Bounds DEF FromExchange, SpentGrows
    <3>4. ~Held(i, c)
      BY <1>1, <1>2, <1>3, Bounds DEF TokenInv, LostIsNotHeld, SpentGrows, SpentOK
    <3> QED
      BY <1>1, <3>1, <3>2, <3>3, <3>4 DEF HeldBefore
  <2> QED
    BY <2>1, <2>2, <2>3 DEF TokenInv
<1>4. CASE Rotate /\ job.id \in Ids /\ job.held \in Credential
  <2> DEFINE j == job.id
             h == job.held
  <2>1. /\ h.login \in Logins /\ h.token \in 0..MaxRotations /\ h.token + 1 \in 0..MaxRotations
        /\ h.token + 1 <= spent.rotations + 1 /\ valid[j][h.login] = h.token
        /\ \A i \in Ids, l \in Logins :
             valid'[i][l] = IF i = j /\ l = h.login THEN h.token + 1 ELSE valid[i][l]
    BY <1>4, RotateTyped DEF Credential, Accepted, KeyringOK
  <2>2. Held(j, h) /\ h.login <= logins[j]
    BY <1>4 DEF Held, TokenInv, HeldIsIssued
  <2>3. HeldIsIssued'
    <3> SUFFICES ASSUME NEW i \in Ids, NEW c \in Credential, Held(i, c)'
                 PROVE  c.login <= logins'[i] /\ c.token <= valid'[i][c.login]
      BY DEF HeldIsIssued
    <3>1. c.login \in Logins /\ c.token \in 0..MaxRotations
      BY DEF Credential
    <3>2. CASE Held(i, c)
      <4>1. c.login <= logins[i] /\ c.token <= valid[i][c.login]
        BY <3>2 DEF TokenInv, HeldIsIssued
      <4> QED
        BY <1>2, <2>1, <3>1, <4>1, Bounds DEF Logins
    <3>3. CASE FromExchange(i, c)
      BY <1>2, <3>1, <3>3, Bounds DEF FromExchange, KeyringOK
    <3>4. CASE FromRefresh(i, c)
      BY <1>2, <2>1, <2>2, <3>4, Bounds DEF FromRefresh, Logins
    <3> QED
      BY <1>1, <3>2, <3>3, <3>4 DEF HeldBefore
  <2>4. NothingIssued'
    BY <1>2, <2>1, <2>2, Bounds DEF TokenInv, NothingIssued, Logins
  <2>5. LostIsNotHeld'
    <3> SUFFICES ASSUME NEW i \in Ids, NEW l \in Logins, valid'[i][l] > spent'.rotations,
                        NEW c, c = [login |-> l, token |-> valid'[i][l]], Held(i, c)'
                 PROVE  FALSE
      BY DEF LostIsNotHeld
    <3>1. c \in Credential
      BY <1>2 DEF Credential
    <3>2. ~FromExchange(i, c)
      BY <1>1, <1>2, Bounds DEF FromExchange, SpentGrows
    <3>3. ~FromRefresh(i, c)
      <4> SUFFICES ASSUME FromRefresh(i, c) PROVE FALSE
        OBVIOUS
      <4>1. valid'[i][l] = h.token + 1 /\ spent'.rotations = spent.rotations + 1
        BY DEF FromRefresh, SpentOK
      <4> QED
        BY <2>1, <4>1, Bounds DEF SpentOK
    <3>4. CASE Held(i, c)
      <4>1. c.token <= valid[i][c.login]
        BY <3>1, <3>4 DEF TokenInv, HeldIsIssued
      <4>2. valid'[i][l] = valid[i][l]
        BY <1>2, <2>1, <4>1, Bounds
      <4>3. valid[i][l] > spent.rotations
        BY <1>1, <1>2, <4>2, Bounds DEF SpentGrows, SpentOK
      <4> QED
        BY <3>4, <4>2, <4>3 DEF TokenInv, LostIsNotHeld
    <3> QED
      BY <1>1, <3>1, <3>2, <3>3, <3>4 DEF HeldBefore
  <2> QED
    BY <2>3, <2>4, <2>5 DEF TokenInv
<1> QED
  BY <1>1, <1>3, <1>4 DEF OnlyRotates

-----------------------------------------------------------------------------
(* The token of the keyring. *)

\* A step after which nothing has failed is not a failure.
LEMMA Faultless ==
  ASSUME KeyringOK, RequestsOK, SessionsOK, StoreOK, JobOK, SpentOK, HandlerKnows, SlotKeepsId,
         JobKnows, TokenInv, [Next]_vars, spent'.faults = 0
  PROVE  spent.faults = 0 /\ ~Fault
<1>1. spent.faults \in Nat /\ spent'.faults >= spent.faults
  BY GrowStep, Bounds DEF SpentOK, SpentGrows
<1>2. Fault => spent'.faults = spent.faults + 1
  BY DEF Fault, SpentOK
<1> QED
  BY <1>1, <1>2

\* A new login is the handler's alone.
LEMMA AloneStep ==
  ASSUME RequestsOK, SessionsOK, KeyringOK, StoreOK, JobOK, SpentOK, QueueOK,
     HandlerKnows, SlotKeepsId, JobKnows, TokenInv, NewIsAlone, JobIsCurrent,
     TokenIsCurrent, spent.faults = 0, ~Fault, [Next]_vars
  PROVE  NewIsAlone'
<1>1. ASSUME NEW u \in Users, Walks(u) PROVE NewIsAlone'
  BY <1>1, CredentialAssumption, MoveStep, WalkFrame DEF NewIsAlone, HasNew,
     Exchanged, Accepted, Others, Keeps, Idle, Passes, Moves
<1>2. ASSUME NEW u \in Users, Asks(u) PROVE NewIsAlone'
  BY <1>2, CredentialAssumption, AskSteps DEF NewIsAlone, HasNew, Exchanged, Accepted,
     Others, Keeps, Idle, OnlyRequests
<1>3. ASSUME NEW u \in Users, CheckExists(u) PROVE NewIsAlone'
  BY <1>3, CredentialAssumption, ExistsStep DEF NewIsAlone, HasNew, Exchanged,
     Accepted, Others, Keeps, Idle, OnlyRequests
<1>4. ASSUME NEW u \in Users, InsertSession(u) PROVE NewIsAlone'
  BY <1>4, CredentialAssumption, MoveStep, SessionMoves DEF NewIsAlone, HasNew,
     Exchanged, Accepted, Others, Keeps, Idle, Passes, Moves
<1>5. ASSUME NEW u \in Users, CheckSession(u) PROVE NewIsAlone'
  BY <1>5, CredentialAssumption, SessionStep DEF NewIsAlone, HasNew, Exchanged,
     Accepted, Others, Keeps, Idle, OnlyRequests
<1>6. ASSUME NEW u \in Users, ExchangeCode(u) PROVE NewIsAlone'
  <2> DEFINE i == req[u].id
             new == req'[u].new
  <2>1. \/ req'[u] = Idle /\ UNCHANGED logins
        \/ /\ req'[u].pc = "remove" /\ req'[u].id = i
           /\ new = [login |-> logins[i] + 1, token |-> 0] /\ logins[i] + 1 \in Logins
    BY <1>6, ExchangeStep DEF Keeps
  <2>2. i \in Ids /\ Others(u) /\ UNCHANGED <<cred, job, valid>>
    BY <1>6, ExchangeStep DEF HandlerKnows
  <2>3. CASE req'[u] = Idle
    BY <2>2, <2>3 DEF NewIsAlone, HasNew, Exchanged, Accepted, Others, Idle
  <2>4. CASE /\ req'[u].pc = "remove" /\ req'[u].id = i
             /\ new = [login |-> logins[i] + 1, token |-> 0] /\ logins[i] + 1 \in Logins
    <3>1. \A c \in Credential : Held(i, c) => c.login # new.login
      BY <2>2, <2>4, Bounds DEF TokenInv, HeldIsIssued, KeyringOK, Logins, Credential
    <3>2. cred[i] # None => cred[i].login # new.login
      BY <2>2, <3>1 DEF KeyringOK, Held
    <3>3. job.id = i /\ job.held # None => job.held.login # new.login
      BY <3>1 DEF JobOK, Held
    <3>4. \A v \in Users : HasNew(v) /\ req[v].id = i => Exchanged(v) # new.login
      BY <3>1 DEF HandlerKnows, HasNew, Exchanged, Held
    <3>5. valid[i][new.login] = new.token
      <4>1. logins[i] \in Nat
        BY <2>2, Bounds DEF KeyringOK, Logins
      <4>2. \A l \in Logins : l > logins[i] => valid[i][l] = 0
        BY <2>2 DEF TokenInv, NothingIssued
      <4>3. valid[i][logins[i] + 1] = 0
        BY <2>4, <4>1, <4>2
      <4> QED
        BY <2>4, <4>3
    <3> QED
      BY <2>2, <2>4, <3>2, <3>3, <3>4, <3>5 DEF NewIsAlone, HasNew, Exchanged, Accepted, Others
  <2> QED
    BY <2>1, <2>3, <2>4
<1>7. ASSUME NEW u \in Users, RemoveSession(u) PROVE NewIsAlone'
  BY <1>7, CredentialAssumption, MoveStep, SessionMoves DEF NewIsAlone, HasNew,
     Exchanged, Accepted, Others, Keeps, Idle, Passes, Moves
<1>8. ASSUME NEW u \in Users, GetOld(u) PROVE NewIsAlone'
  BY <1>8, CredentialAssumption, OldStep DEF NewIsAlone, HasNew, Exchanged, Accepted,
     Others, Keeps, Idle, OnlyRequests
<1>9. ASSUME NEW u \in Users, SetCredential(u) PROVE NewIsAlone'
  <2>1. req[u].pc = "set" /\ UNCHANGED <<job, valid>>
    BY <1>9 DEF SetCredential, At, store, login, loop
  <2>2. req[u].id \in Ids /\ HasNew(u) /\ req[u].new \in Credential
    BY <2>1 DEF HandlerKnows, HasNew
  <2>3. Others(u) /\ req'[u].pc \notin {"remove", "old", "set"}
    BY <1>9, GoToStep, DoneStep DEF SetCredential, Steps, Idle
  <2>4. UNCHANGED cred \/ (/\ cred' = [cred EXCEPT ![req[u].id] = req[u].new]
                           /\ cred'[req[u].id] = req[u].new)
    BY <1>9, <2>2 DEF SetCredential, KeyringOK
  <2>5. \A v \in Users : HasNew(v)' => v # u /\ HasNew(v) /\ req'[v] = req[v]
    BY <2>3 DEF HasNew, Others
  <2>6. \A v \in Users : HasNew(v)' =>
          cred'[req[v].id] = cred[req[v].id] \/ (req[v].id = req[u].id /\ cred'[req[v].id] = req[u].new)
    BY <2>2, <2>4, <2>5 DEF KeyringOK, HandlerKnows, HasNew
  <2>7. \A v \in Users : HasNew(v)' => (cred[req[v].id] # None => cred[req[v].id].login # Exchanged(v))'
    BY <2>2, <2>5, <2>6 DEF NewIsAlone, Exchanged
  <2> QED
    BY <2>1, <2>5, <2>7 DEF NewIsAlone, Exchanged, Accepted
<1>10. ASSUME NEW u \in Users, Restore(u) PROVE NewIsAlone'
  <2>1. req[u].pc = "restore"
    BY <1>10 DEF Restore, At
  <2> QED
    BY <2>1 DEF JobIsCurrent
<1>11. ASSUME NEW u \in Users, SaveAccounts(u) PROVE NewIsAlone'
  BY <1>11, CredentialAssumption, SaveStep DEF NewIsAlone, HasNew, Exchanged,
     Accepted, Others, Keeps, Idle
<1>12. ASSUME NEW u \in Users, SaveFails(u) PROVE NewIsAlone'
  BY <1>12, CredentialAssumption, MoveStep, SaveFailsMoves DEF NewIsAlone, HasNew,
     Exchanged, Accepted, Others, Keeps, Idle, Passes, Moves
<1>13. ASSUME NEW u \in Users, EraseCredential(u) PROVE NewIsAlone'
  <2>1. /\ Others(u) /\ UNCHANGED <<job, valid>> /\ ~HasNew(u)' /\ req[u].pc = "erase"
    BY <1>13, GoToStep, DoneStep DEF EraseCredential, At, store, login, loop, Steps, Idle, HasNew
  <2>2. \A i \in Ids : cred'[i] = cred[i] \/ cred'[i] = None
    BY <1>13 DEF EraseCredential, KeyringOK
  <2>3. \A v \in Users : HasNew(v)' => v # u /\ HasNew(v) /\ req'[v] = req[v] /\ req[v].id \in Ids
    BY <2>1 DEF HasNew, Others, HandlerKnows
  <2> QED
    BY <2>1, <2>2, <2>3 DEF NewIsAlone, Exchanged, Accepted
<1>14. CASE CollectNext
  BY <1>14, CredentialAssumption DEF NewIsAlone, HasNew, Exchanged, Accepted, Others,
     Keeps, Idle, JobOK, Rest, CollectFails, CollectNext, store, login
<1>15. CASE CheckEnabled
  BY <1>15, CredentialAssumption DEF NewIsAlone, HasNew, Exchanged, Accepted, Others,
     Keeps, Idle, JobOK, Rest, CollectFails, CheckEnabled, Collects, store, Stage
<1>16. CASE GetCredential
  <2>1. UNCHANGED <<cred, req, valid>> /\ job.id \in Ids
    BY <1>16 DEF GetCredential, Collects, JobKnows
  <2>2. CASE job' = Rest
    BY <2>1, <2>2 DEF NewIsAlone, HasNew, Exchanged, Accepted, Rest
  <2>3. ASSUME NEW at, cred[job.id] # None, job' = [job EXCEPT !.at = at, !.held = cred[job.id]]
        PROVE  NewIsAlone'
    <3>1. job'.id = job.id /\ job'.held = cred[job.id]
      BY <2>3 DEF JobOK
    <3> QED
      BY <2>1, <3>1 DEF NewIsAlone, HasNew, Exchanged, Accepted
  <2> QED
    BY <1>16, <2>2, <2>3 DEF GetCredential, CollectFails
<1>17. ASSUME NEW at \in {"refresh", "refresh_again"}, NEW then \in {"store", "store_again"}, RefreshToken(at, then) PROVE NewIsAlone'
  <2>1. /\ UNCHANGED <<cred, req>> /\ job.id \in Ids /\ job.held \in Credential
        /\ job' = Rest \/ (job'.id = job.id /\ job'.held.login = job.held.login)
        /\ Rotate \/ UNCHANGED valid
    BY <1>17, RefreshStep
  <2>2. job'.held # None /\ job'.id \in Ids => job'.id = job.id /\ job'.held.login = job.held.login
    BY <2>1, NoneAssumption DEF Rest
  <2>3. \A i \in Ids, l \in Logins :
          (i = job.id => l # job.held.login) => valid'[i][l] = valid[i][l]
    BY <2>1, RotateTyped DEF KeyringOK
  <2>4. \A u \in Users : HasNew(u) => req[u].id \in Ids /\ Exchanged(u) \in Logins
    BY DEF HandlerKnows, HasNew, Exchanged, Credential
  <2> QED
    BY <2>1, <2>2, <2>3, <2>4, CredentialAssumption DEF NewIsAlone, HasNew, Exchanged, Accepted
<1>18. ASSUME NEW at \in {"store", "store_again"}, NEW then \in {"usage", "usage_again"}, StoreToken(at, then) PROVE NewIsAlone'
  <2>1. /\ UNCHANGED <<req, valid>> /\ job.id \in Ids /\ job.held \in Credential
        /\ job' = Rest \/ (job'.id = job.id /\ job'.held = job.held)
        /\ UNCHANGED cred \/ cred' = [cred EXCEPT ![job.id] = job.held]
    BY <1>18 DEF StoreToken, Collects, JobKnows, JobOK, Stage, CollectFails
  <2>2. job.held # None
    BY <2>1, CredentialAssumption
  <2>3. \A i \in Ids : cred'[i] = cred[i] \/ (i = job.id /\ cred'[i] = job.held)
    BY <2>1 DEF KeyringOK
  <2>4. job'.held # None => job'.held = job.held /\ job'.id = job.id
    BY <2>1 DEF Rest
  <2>5. \A u \in Users : HasNew(u) => req[u].id \in Ids
    BY DEF HandlerKnows, HasNew
  <2>6. \A u \in Users : HasNew(u) =>
           (cred[req[u].id] # None => cred[req[u].id].login # Exchanged(u))'
    BY <2>1, <2>2, <2>3, <2>5 DEF NewIsAlone, Exchanged
  <2> QED
    BY <2>1, <2>4, <2>6 DEF NewIsAlone, HasNew, Exchanged, Accepted
<1>19. CASE AskUsage
  BY <1>19, CredentialAssumption DEF NewIsAlone, HasNew, Exchanged, Accepted, Others,
     Keeps, Idle, JobOK, Rest, CollectFails, AskUsage, Collects, store, Stage
<1>20. CASE AskUsageAgain
  BY <1>20, CredentialAssumption DEF NewIsAlone, HasNew, Exchanged, Accepted, Others,
     Keeps, Idle, JobOK, Rest, CollectFails, AskUsageAgain, Collects, store, Stage
<1>21. CASE PublishLimits
  BY <1>21, CredentialAssumption DEF NewIsAlone, HasNew, Exchanged, Accepted, Others,
     Keeps, Idle, JobOK, Rest, CollectFails, PublishLimits, Collects, store, Stage
<1>22. CASE PublishMetrics
  BY <1>22, CredentialAssumption DEF NewIsAlone, HasNew, Exchanged, Accepted, Others,
     Keeps, Idle, JobOK, Rest, CollectFails, PublishMetrics, Collects, store
<1>23. CASE Crash
  BY <1>23, CredentialAssumption DEF NewIsAlone, HasNew, Exchanged, Accepted, Others,
     Keeps, Idle, JobOK, Rest, CollectFails, Crash, login
<1>24. CASE UNCHANGED <<cred, valid, req, job>>
  BY <1>24 DEF NewIsAlone, HasNew, Exchanged, Accepted, Others, Keeps, Idle
<1> QED
  BY <1>1, <1>2, <1>3, <1>4, <1>5, <1>6, <1>7, <1>8, <1>9, <1>10, <1>11, <1>12, <1>13,
     <1>14, <1>15, <1>16, <1>17, <1>18, <1>19, <1>20, <1>21, <1>22, <1>23, <1>24,
     CredChanges, ValidChanges, ReqChanges, JobChanges DEF Asks, Walks

\* The run loop has tokens that are accepted.
LEMMA CurrentStep ==
  ASSUME RequestsOK, SessionsOK, KeyringOK, StoreOK, JobOK, SpentOK, QueueOK,
     HandlerKnows, SlotKeepsId, JobKnows, TokenInv, NewIsAlone, JobIsCurrent,
     TokenIsCurrent, spent.faults = 0, ~Fault, [Next]_vars
  PROVE  JobIsCurrent'
<1>1. ASSUME NEW u \in Users, Walks(u) PROVE JobIsCurrent'
  <2>1. Others(u) /\ alive /\ alive' = alive /\ (req'[u] = Idle \/ Passes(u))
    BY <1>1, MoveStep DEF Moves
  <2>2. UNCHANGED <<greet, job, valid>> /\ req[u].pc # "save"
    BY <1>1, WalkFrame
  <2>3. req'[u].pc # "restore"
    BY <2>1, <2>2 DEF Passes, Idle
  <2>4. alive'
    BY <2>1 DEF StoreOK
  <2> QED
    BY <2>1, <2>2, <2>3, <2>4 DEF JobIsCurrent, Accepted, Others
<1>2. ASSUME NEW u \in Users, Asks(u) PROVE JobIsCurrent'
  BY <1>2, AskSteps DEF JobIsCurrent, Accepted, Others, Keeps, Idle, OnlyRequests
<1>3. ASSUME NEW u \in Users, CheckExists(u) PROVE JobIsCurrent'
  <2>1. /\ Others(u) /\ UNCHANGED <<alive, greet, job, valid>> /\ req'[u].pc # "restore"
    BY <1>3, ExistsStep DEF Idle, OnlyRequests
  <2> QED
    BY <2>1 DEF JobIsCurrent, Accepted, Others
<1>4. ASSUME NEW u \in Users, InsertSession(u) PROVE JobIsCurrent'
  <2>1. Others(u) /\ alive /\ alive' = alive /\ (req'[u] = Idle \/ Passes(u))
    BY <1>4, MoveStep DEF Moves
  <2>2. UNCHANGED <<greet, job, valid>> /\ req[u].pc # "save"
    BY <1>4, SessionMoves
  <2>3. req'[u].pc # "restore"
    BY <2>1, <2>2 DEF Passes, Idle
  <2>4. alive'
    BY <2>1 DEF StoreOK
  <2> QED
    BY <2>1, <2>2, <2>3, <2>4 DEF JobIsCurrent, Accepted, Others
<1>5. ASSUME NEW u \in Users, CheckSession(u) PROVE JobIsCurrent'
  <2>1. /\ Others(u) /\ UNCHANGED <<alive, greet, job, valid>> /\ req'[u].pc # "restore"
    BY <1>5, SessionStep DEF Idle, OnlyRequests
  <2> QED
    BY <2>1 DEF JobIsCurrent, Accepted, Others
<1>6. ASSUME NEW u \in Users, ExchangeCode(u) PROVE JobIsCurrent'
  <2>1. /\ Others(u) /\ UNCHANGED <<alive, greet, job, valid>> /\ req'[u].pc # "restore"
    BY <1>6, ExchangeStep DEF Idle
  <2> QED
    BY <2>1 DEF JobIsCurrent, Accepted, Others
<1>7. ASSUME NEW u \in Users, RemoveSession(u) PROVE JobIsCurrent'
  <2>1. Others(u) /\ alive /\ alive' = alive /\ (req'[u] = Idle \/ Passes(u))
    BY <1>7, MoveStep DEF Moves
  <2>2. UNCHANGED <<greet, job, valid>> /\ req[u].pc # "save"
    BY <1>7, SessionMoves
  <2>3. req'[u].pc # "restore"
    BY <2>1, <2>2 DEF Passes, Idle
  <2>4. alive'
    BY <2>1 DEF StoreOK
  <2> QED
    BY <2>1, <2>2, <2>3, <2>4 DEF JobIsCurrent, Accepted, Others
<1>8. ASSUME NEW u \in Users, GetOld(u) PROVE JobIsCurrent'
  <2>1. /\ Others(u) /\ UNCHANGED <<alive, greet, job, valid>> /\ req'[u].pc # "restore"
    BY <1>8, OldStep DEF Idle, OnlyRequests
  <2> QED
    BY <2>1 DEF JobIsCurrent, Accepted, Others
<1>9. ASSUME NEW u \in Users, SetCredential(u) PROVE JobIsCurrent'
  <2>1. Others(u) /\ alive /\ alive' = alive /\ (req'[u] = Idle \/ Passes(u))
    BY <1>9, MoveStep DEF Moves
  <2>2. UNCHANGED <<greet, job, valid>> /\ req[u].pc # "save"
    BY <1>9, CredentialMoves
  <2>3. req'[u].pc # "restore"
    BY <2>1, <2>2 DEF Passes, Idle
  <2>4. alive'
    BY <2>1 DEF StoreOK
  <2> QED
    BY <2>1, <2>2, <2>3, <2>4 DEF JobIsCurrent, Accepted, Others
<1>10. ASSUME NEW u \in Users, Restore(u) PROVE JobIsCurrent'
  <2>1. Others(u) /\ alive /\ alive' = alive /\ (req'[u] = Idle \/ Passes(u))
    BY <1>10, MoveStep DEF Moves
  <2>2. UNCHANGED <<greet, job, valid>> /\ req[u].pc # "save"
    BY <1>10, CredentialMoves
  <2>3. req'[u].pc # "restore"
    BY <2>1, <2>2 DEF Passes, Idle
  <2>4. alive'
    BY <2>1 DEF StoreOK
  <2> QED
    BY <2>1, <2>2, <2>3, <2>4 DEF JobIsCurrent, Accepted, Others
<1>11. ASSUME NEW u \in Users, SaveAccounts(u) PROVE JobIsCurrent'
  <2>1. /\ Others(u) /\ UNCHANGED <<alive, greet, job, valid>> /\ req'[u].pc # "restore"
    BY <1>11, SaveStep DEF Idle
  <2> QED
    BY <2>1 DEF JobIsCurrent, Accepted, Others
<1>12. ASSUME NEW u \in Users, SaveFails(u) PROVE JobIsCurrent'
  BY <1>12, MoveStep, SaveFailsMoves DEF JobIsCurrent, Accepted, Others, Keeps, Idle,
     Passes, Moves
<1>13. ASSUME NEW u \in Users, EraseCredential(u) PROVE JobIsCurrent'
  <2>1. Others(u) /\ alive /\ alive' = alive /\ (req'[u] = Idle \/ Passes(u))
    BY <1>13, MoveStep DEF Moves
  <2>2. UNCHANGED <<greet, job, valid>> /\ req[u].pc # "save"
    BY <1>13, CredentialMoves
  <2>3. req'[u].pc # "restore"
    BY <2>1, <2>2 DEF Passes, Idle
  <2>4. alive'
    BY <2>1 DEF StoreOK
  <2> QED
    BY <2>1, <2>2, <2>3, <2>4 DEF JobIsCurrent, Accepted, Others
<1>14. ASSUME NEW i \in Ids, Greet(i) PROVE JobIsCurrent'
  BY <1>14 DEF JobIsCurrent, Accepted, Others, Keeps, Idle, JobOK, Rest, CollectFails,
     Greet, store, login
<1>15. CASE CollectNext
  BY <1>15 DEF JobIsCurrent, Accepted, Others, Keeps, Idle, JobOK, Rest, CollectFails,
     CollectNext, store, login
<1>16. CASE CheckEnabled
  BY <1>16 DEF JobIsCurrent, Accepted, Others, Keeps, Idle, JobOK, Rest, CollectFails,
     CheckEnabled, Collects, store, Stage
<1>17. CASE GetCredential
  <2>1. UNCHANGED <<alive, greet, req, valid, cred>> /\ job.at = "get" /\ job.id \in Ids
    BY <1>17 DEF GetCredential, Collects, JobKnows
  <2>2. CASE job' = Rest
    BY <2>1, <2>2 DEF JobIsCurrent, Rest
  <2>3. ASSUME NEW at, cred[job.id] # None, job' = [job EXCEPT !.at = at, !.held = cred[job.id]]
        PROVE  JobIsCurrent'
    <3>1. job'.id = job.id /\ job'.held = cred[job.id]
      BY <2>3 DEF JobOK
    <3>2. valid[job.id][cred[job.id].login] = cred[job.id].token
      BY <2>1, <2>3 DEF TokenIsCurrent, Accepted
    <3> QED
      BY <2>1, <3>1, <3>2 DEF JobIsCurrent, Accepted
  <2> QED
    BY <1>17, <2>2, <2>3 DEF GetCredential, CollectFails
<1>18. ASSUME NEW at \in {"refresh", "refresh_again"}, NEW then \in {"store", "store_again"}, RefreshToken(at, then) PROVE JobIsCurrent'
  <2>1. UNCHANGED <<alive, greet, req>> /\ job.id \in Ids /\ job.held \in Credential
    BY <1>18, RefreshStep
  <2>2. CASE job' = Rest
    BY <2>1, <2>2 DEF JobIsCurrent, Rest
  <2>3. CASE job'.id = job.id /\ job'.held = job.held /\ UNCHANGED valid /\ job.at = at
    BY <2>1, <2>3 DEF JobIsCurrent, Accepted
  <2>4. CASE /\ Rotate /\ job'.id = job.id
             /\ job'.held = [login |-> job.held.login, token |-> job.held.token + 1]
    <3>1. valid'[job.id][job.held.login] = job.held.token + 1
      BY <2>1, <2>4, RotateTyped DEF KeyringOK, Credential
    <3> QED
      BY <2>1, <2>4, <3>1 DEF JobIsCurrent, Accepted
  <2> QED
    BY <1>18, <2>2, <2>3, <2>4, RefreshStep
<1>19. ASSUME NEW at \in {"store", "store_again"}, NEW then \in {"usage", "usage_again"}, StoreToken(at, then) PROVE JobIsCurrent'
  BY <1>19 DEF JobIsCurrent, Accepted, Others, Keeps, Idle, JobOK, Rest, CollectFails,
     StoreToken, Collects, store, Stage
<1>20. CASE AskUsage
  BY <1>20 DEF JobIsCurrent, Accepted, Others, Keeps, Idle, JobOK, Rest, CollectFails,
     AskUsage, Collects, store, Stage
<1>21. CASE AskUsageAgain
  BY <1>21 DEF JobIsCurrent, Accepted, Others, Keeps, Idle, JobOK, Rest, CollectFails,
     AskUsageAgain, Collects, store, Stage
<1>22. CASE PublishLimits
  BY <1>22 DEF JobIsCurrent, Accepted, Others, Keeps, Idle, JobOK, Rest, CollectFails,
     PublishLimits, Collects, store, Stage
<1>23. CASE PublishMetrics
  BY <1>23 DEF JobIsCurrent, Accepted, Others, Keeps, Idle, JobOK, Rest, CollectFails,
     PublishMetrics, Collects, store
<1>24. CASE Crash
  BY <1>24 DEF JobIsCurrent, Accepted, Others, Keeps, Idle, JobOK, Rest, CollectFails,
     Crash, login
<1>25. CASE UNCHANGED <<alive, valid, req, greet, job>>
  BY <1>25 DEF JobIsCurrent, Accepted, Others, Keeps, Idle
<1> QED
  BY <1>1, <1>2, <1>3, <1>4, <1>5, <1>6, <1>7, <1>8, <1>9, <1>10, <1>11, <1>12, <1>13,
     <1>14, <1>15, <1>16, <1>17, <1>18, <1>19, <1>20, <1>21, <1>22, <1>23, <1>24,
     <1>25, AliveChanges, ValidChanges, ReqChanges, GreetChanges, JobChanges DEF Asks,
     Walks

\* The keyring has tokens that are accepted.
LEMMA KeyringStep ==
  ASSUME RequestsOK, SessionsOK, KeyringOK, StoreOK, JobOK, SpentOK, QueueOK,
     HandlerKnows, SlotKeepsId, JobKnows, TokenInv, NewIsAlone, JobIsCurrent,
     TokenIsCurrent, spent.faults = 0, ~Fault, [Next]_vars
  PROVE  TokenIsCurrent'
<1>1. ASSUME NEW u \in Users, Asks(u) PROVE TokenIsCurrent'
  BY <1>1, AskSteps DEF TokenIsCurrent, Accepted, OnlyRequests
<1>2. ASSUME NEW u \in Users, ExchangeCode(u) PROVE TokenIsCurrent'
  BY <1>2, ExchangeStep DEF TokenIsCurrent, Accepted, OnlyRequests
<1>3. ASSUME NEW u \in Users, GetOld(u) PROVE TokenIsCurrent'
  BY <1>3, OldStep DEF TokenIsCurrent, Accepted, OnlyRequests
<1>4. ASSUME NEW u \in Users, SetCredential(u) PROVE TokenIsCurrent'
  BY <1>4 DEF TokenIsCurrent, Accepted, NewIsAlone, HasNew, HandlerKnows, KeyringOK,
     SetCredential, At, Idle, store, login, loop
<1>5. ASSUME NEW u \in Users, Restore(u) PROVE TokenIsCurrent'
  BY <1>5 DEF TokenIsCurrent, Accepted, JobIsCurrent, Restore, At, Idle, store, login,
     loop
<1>6. ASSUME NEW u \in Users, SaveFails(u) PROVE TokenIsCurrent'
  BY <1>6 DEF TokenIsCurrent, Accepted, SaveFails, At, Idle, login, loop
<1>7. ASSUME NEW u \in Users, GetForStatus(u) PROVE TokenIsCurrent'
  BY <1>7 DEF TokenIsCurrent, Accepted, GetForStatus, At, Idle, store, login, loop
<1>8. ASSUME NEW u \in Users, EraseCredential(u) PROVE TokenIsCurrent'
  BY <1>8 DEF TokenIsCurrent, Accepted, KeyringOK, HandlerKnows, EraseCredential, At,
     Idle, store, login, loop
<1>9. CASE CollectNext
  BY <1>9 DEF TokenIsCurrent, Accepted, JobOK, Rest, CollectFails, CollectNext, store,
     login
<1>10. CASE CheckEnabled
  BY <1>10 DEF TokenIsCurrent, Accepted, JobOK, Rest, CollectFails, CheckEnabled,
     Collects, store, Stage
<1>11. CASE GetCredential
  BY <1>11 DEF TokenIsCurrent, Accepted, JobOK, Rest, CollectFails, GetCredential,
     Collects, store
<1>12. ASSUME NEW at \in {"refresh", "refresh_again"}, NEW then \in {"store", "store_again"}, RefreshToken(at, then) PROVE TokenIsCurrent'
  <2>1. /\ UNCHANGED cred /\ job.id \in Ids /\ job.held \in Credential /\ job.at = at
        /\ (job' = Rest /\ UNCHANGED valid) \/ (job'.at = then /\ job'.id = job.id)
        /\ Rotate \/ UNCHANGED valid
    BY <1>12, RefreshStep DEF Rest
  <2>2. \A i \in Ids, l \in Logins : i # job.id => valid'[i][l] = valid[i][l]
    BY <2>1, RotateTyped DEF KeyringOK
  <2>3. \A i \in Ids : cred[i] # None => cred[i].login \in Logins
    BY DEF KeyringOK, Credential
  <2> QED
    BY <2>1, <2>2, <2>3 DEF TokenIsCurrent, Accepted
<1>13. ASSUME NEW at \in {"store", "store_again"}, NEW then \in {"usage", "usage_again"}, StoreToken(at, then) PROVE TokenIsCurrent'
  BY <1>13 DEF TokenIsCurrent, Accepted, JobOK, Rest, CollectFails, KeyringOK,
     JobKnows, JobIsCurrent, StoreToken, Collects, store, Stage
<1>14. CASE AskUsage
  BY <1>14 DEF TokenIsCurrent, Accepted, JobOK, Rest, CollectFails, AskUsage,
     Collects, store, Stage
<1>15. CASE AskUsageAgain
  BY <1>15 DEF TokenIsCurrent, Accepted, JobOK, Rest, CollectFails, AskUsageAgain,
     Collects, store, Stage
<1>16. CASE PublishLimits
  BY <1>16 DEF TokenIsCurrent, Accepted, JobOK, Rest, CollectFails, PublishLimits,
     Collects, store, Stage
<1>17. CASE PublishMetrics
  BY <1>17 DEF TokenIsCurrent, Accepted, JobOK, Rest, CollectFails, PublishMetrics,
     Collects, store
<1>18. CASE Crash
  BY <1>18 DEF TokenIsCurrent, Accepted, JobOK, Rest, CollectFails, Crash, Idle, login
<1>19. CASE UNCHANGED <<cred, valid, job, spent>>
  BY <1>19 DEF TokenIsCurrent, Accepted
<1> QED
  BY <1>1, <1>2, <1>3, <1>4, <1>5, <1>6, <1>7, <1>8, <1>9, <1>10, <1>11, <1>12, <1>13,
     <1>14, <1>15, <1>16, <1>17, <1>18, <1>19, CredChanges, ValidChanges, JobChanges,
     SpentChanges DEF Asks

\* So it stays as long as nothing fails.
LEMMA CurrentKept ==
  ASSUME KeyringOK, RequestsOK, SessionsOK, StoreOK, JobOK, SpentOK, QueueOK, HandlerKnows,
         SlotKeepsId, JobKnows, TokenInv, CurrentInv, [Next]_vars
  PROVE  CurrentInv'
<1> SUFFICES ASSUME spent'.faults = 0 PROVE (NewIsAlone /\ JobIsCurrent /\ TokenIsCurrent)'
  BY DEF CurrentInv
<1>1. spent.faults = 0 /\ ~Fault
  BY Faultless
<1>2. NewIsAlone /\ JobIsCurrent /\ TokenIsCurrent
  BY <1>1 DEF CurrentInv
<1> QED
  BY <1>1, <1>2, AloneStep, CurrentStep, KeyringStep

-----------------------------------------------------------------------------
(* Accounts and their credentials. *)

\* Memory and file are written together.
LEMMA FileStep ==
  ASSUME RequestsOK, SessionsOK, KeyringOK, StoreOK, JobOK, SpentOK, QueueOK,
     HandlerKnows, OneHandler, FileIsMemory, DeadIsIdle, OrderInv,
     AccountHasCredential, [Next]_vars
  PROVE  FileIsMemory'
<1>1. ASSUME NEW u \in Users, SaveAccounts(u) PROVE FileIsMemory'
  BY <1>1, SaveStep DEF FileIsMemory
<1>2. ASSUME NEW u \in Users, SaveFails(u) PROVE FileIsMemory'
  BY <1>2 DEF FileIsMemory, SaveFails, At, Idle, login, loop
<1>3. CASE Crash
  BY <1>3 DEF FileIsMemory, Crash, Idle, Rest, login
<1>4. CASE UNCHANGED <<alive, mem, file>>
  BY <1>4 DEF FileIsMemory
<1> QED
  BY <1>1, <1>2, <1>3, <1>4, AliveChanges, MemChanges, FileChanges

\* Only a running Agent handles requests.
LEMMA DeadStep ==
  ASSUME RequestsOK, SessionsOK, KeyringOK, StoreOK, JobOK, SpentOK, QueueOK,
     HandlerKnows, OneHandler, FileIsMemory, DeadIsIdle, OrderInv,
     AccountHasCredential, [Next]_vars
  PROVE  DeadIsIdle'
<1>1. ASSUME NEW u \in Users, Moves(u) PROVE DeadIsIdle'
  BY <1>1, MoveStep DEF DeadIsIdle, StoreOK, Passes
<1>2. ASSUME NEW u \in Users, Asks(u) PROVE DeadIsIdle'
  BY <1>2, AskSteps DEF DeadIsIdle, StoreOK, OnlyRequests
<1>3. ASSUME NEW u \in Users, CheckExists(u) PROVE DeadIsIdle'
  BY <1>3, ExistsStep DEF DeadIsIdle, StoreOK, OnlyRequests
<1>4. ASSUME NEW u \in Users, CheckSession(u) PROVE DeadIsIdle'
  BY <1>4, SessionStep DEF DeadIsIdle, StoreOK, OnlyRequests
<1>5. ASSUME NEW u \in Users, ExchangeCode(u) PROVE DeadIsIdle'
  <2>1. alive /\ alive' = alive
    BY <1>5, ExchangeStep
  <2> QED
    BY <2>1 DEF DeadIsIdle, StoreOK
<1>6. ASSUME NEW u \in Users, GetOld(u) PROVE DeadIsIdle'
  BY <1>6, OldStep DEF DeadIsIdle, StoreOK, OnlyRequests
<1>7. ASSUME NEW u \in Users, SaveAccounts(u) PROVE DeadIsIdle'
  BY <1>7, SaveStep DEF DeadIsIdle, StoreOK
<1>8. CASE Crash
  BY <1>8 DEF DeadIsIdle, Crash
<1>9. CASE UNCHANGED <<alive, req>>
  BY <1>9 DEF DeadIsIdle, StoreOK
<1> QED
  BY <1>1, <1>2, <1>3, <1>4, <1>5, <1>6, <1>7, <1>8, <1>9, AliveChanges, ReqChanges
     DEF Asks, Moves, Walks

\* Elsewhere nothing changes.
Elsewhere(i) == \A j \in Ids \ {i} :
    /\ mem'[j] = mem[j]
    /\ Absent(j) => Absent(j)'
    /\ cred[j] # None => cred'[j] # None

\* One handler at a time works on an account.
LEMMA OrderFrame ==
  ASSUME RequestsOK, HandlerKnows, OneHandler, OrderInv, NEW u \in Users, Others(u),
         Elsewhere(req[u].id), ~Crossing => InOrder(u)'
  PROVE  OrderInv'
<1> SUFFICES ASSUME ~Crossing, NEW v \in Users, v # u PROVE InOrder(v)'
  BY DEF OrderInv
<1>1. InOrder(v) /\ req'[v] = req[v]
  BY DEF OrderInv, Others
<1>2. CASE req[v].pc = "idle"
  BY <1>1, <1>2 DEF InOrder
<1>3. CASE req[v].pc # "idle"
  <2>1. req[v].id \in Ids /\ req[v].id # req[u].id
    BY <1>3, NoneAssumption DEF HandlerKnows, OneHandler
  <2>2. PICK j \in Ids : j = req[v].id /\ j # req[u].id
    BY <2>1
  <2>3. /\ mem'[j] = mem[j] /\ (Absent(j) => Absent(j)') /\ (cred[j] # None => cred'[j] # None)
    BY <2>2 DEF Elsewhere
  <2>4. req'[v].id = j
    BY <1>1, <2>2
  <2> QED
    BY <1>1, <2>2, <2>3, <2>4 DEF InOrder, Absent
<1> QED
  BY <1>2, <1>3

\* The order of the calls is kept.
LEMMA OrderStep ==
  ASSUME RequestsOK, SessionsOK, KeyringOK, StoreOK, JobOK, SpentOK, QueueOK,
     HandlerKnows, OneHandler, FileIsMemory, DeadIsIdle, OrderInv,
     AccountHasCredential, JobKnows, [Next]_vars
  PROVE  OrderInv'
<1>1. ASSUME NEW u \in Users, Walks(u) PROVE OrderInv'
  <2>1. req[u].id \in Ids /\ Others(u) /\ (req'[u] = Idle \/ Passes(u))
    BY <1>1, MoveStep, WalkFrame DEF HandlerKnows, Moves
  <2>2. UNCHANGED <<mem, file, cred>>
    BY <1>1, WalkFrame
  <2>3. Elsewhere(req[u].id)
    BY <2>2 DEF Elsewhere, Absent
  <2>4. ~Crossing => InOrder(u)'
    <3>1. CASE req'[u] = Idle
      BY <3>1 DEF InOrder, Idle
    <3>2. CASE Passes(u) /\ req[u].pc \notin {"set", "save"}
      BY <2>2, <3>2 DEF OrderInv, InOrder, Absent, Passes, Keeps
    <3> QED
      BY <1>1, <2>1, <3>1, <3>2, WalkFrame
  <2> QED
    BY <2>1, <2>3, <2>4, OrderFrame
<1>2. ASSUME NEW u \in Users, Asks(u) PROVE OrderInv'
  <2>1. /\ Others(u) /\ OnlyRequests /\ req'[u].pc \notin {"erase", "unlist", "withdraw",
             "withdraw_metrics", "set", "restore", "get", "register"}
        /\ req'[u].pc = "save" => req'[u].op # "complete"
    BY <1>2, AskSteps
  <2>2. Elsewhere(req[u].id)
    BY <2>1 DEF Elsewhere, Absent, OnlyRequests
  <2>3. InOrder(u)'
    BY <2>1 DEF InOrder
  <2> QED
    BY <2>1, <2>2, <2>3, OrderFrame
<1>3. ASSUME NEW u \in Users, CheckExists(u) PROVE OrderInv'
  <2>1. req[u].id \in Ids /\ Others(u)
    BY <1>3, ExistsStep DEF HandlerKnows
  <2>2. Elsewhere(req[u].id)
    BY <1>3, ExistsStep DEF Elsewhere, Absent, OnlyRequests
  <2>3. ~Crossing => InOrder(u)'
    BY <1>3, ExistsStep DEF OrderInv, InOrder, Absent, Keeps, Idle, OnlyRequests
  <2> QED
    BY <2>1, <2>2, <2>3, OrderFrame
<1>4. ASSUME NEW u \in Users, InsertSession(u) PROVE OrderInv'
  <2>1. req[u].id \in Ids /\ Others(u)
    BY <1>4, GoToStep, DoneStep DEF HandlerKnows, At, Steps, InsertSession
  <2>2. Elsewhere(req[u].id)
    BY <1>4, <2>1 DEF Elsewhere, Absent, At, store, login, loop, InsertSession
  <2>3. ~Crossing => InOrder(u)'
    <3>1. CASE Done(u)
      BY <3>1, DoneStep DEF InOrder, Idle
    <3>2. CASE ~Done(u)
      BY <1>4, <2>1, <3>2, GoToStep DEF OrderInv, InOrder, Absent, Keeps, Steps, At, store, login, loop, InsertSession
    <3> QED
      BY <3>1, <3>2
  <2> QED
    BY <2>1, <2>2, <2>3, OrderFrame
<1>5. ASSUME NEW u \in Users, CheckSession(u) PROVE OrderInv'
  <2>1. req[u].id \in Ids /\ Others(u)
    BY <1>5, SessionStep DEF HandlerKnows
  <2>2. Elsewhere(req[u].id)
    BY <1>5, SessionStep DEF Elsewhere, Absent, OnlyRequests
  <2>3. ~Crossing => InOrder(u)'
    BY <1>5, SessionStep DEF OrderInv, InOrder, Absent, Keeps, Idle, OnlyRequests
  <2> QED
    BY <2>1, <2>2, <2>3, OrderFrame
<1>6. ASSUME NEW u \in Users, ExchangeCode(u) PROVE OrderInv'
  <2>1. req[u].id \in Ids /\ Others(u)
    BY <1>6, ExchangeMoves DEF HandlerKnows
  <2>2. Elsewhere(req[u].id)
    BY <1>6, ExchangeMoves DEF Elsewhere, Absent, OnlyRequests
  <2>3. ~Crossing => InOrder(u)'
    BY <1>6, ExchangeMoves DEF OrderInv, InOrder, Absent, Keeps, Idle, OnlyRequests
  <2> QED
    BY <2>1, <2>2, <2>3, OrderFrame
<1>7. ASSUME NEW u \in Users, RemoveSession(u) PROVE OrderInv'
  <2>1. req[u].id \in Ids /\ Others(u)
    BY <1>7, GoToStep, DoneStep DEF HandlerKnows, At, Steps, RemoveSession
  <2>2. Elsewhere(req[u].id)
    BY <1>7, <2>1 DEF Elsewhere, Absent, At, store, login, loop, RemoveSession
  <2>3. ~Crossing => InOrder(u)'
    <3>1. CASE Done(u)
      BY <3>1, DoneStep DEF InOrder, Idle
    <3>2. CASE ~Done(u)
      BY <1>7, <2>1, <3>2, GoToStep DEF OrderInv, InOrder, Absent, Keeps, Steps, At, store, login, loop, RemoveSession
    <3> QED
      BY <3>1, <3>2
  <2> QED
    BY <2>1, <2>2, <2>3, OrderFrame
<1>8. ASSUME NEW u \in Users, GetOld(u) PROVE OrderInv'
  <2>1. req[u].id \in Ids /\ Others(u)
    BY <1>8, OldStep DEF HandlerKnows
  <2>2. Elsewhere(req[u].id)
    BY <1>8, OldStep DEF Elsewhere, Absent, OnlyRequests
  <2>3. ~Crossing => InOrder(u)'
    BY <1>8, OldStep, <2>1 DEF OrderInv, InOrder, Absent, Keeps, Idle, OnlyRequests, AccountHasCredential
  <2> QED
    BY <2>1, <2>2, <2>3, OrderFrame
<1>9. ASSUME NEW u \in Users, SetCredential(u) PROVE OrderInv'
  <2>1. req[u].id \in Ids /\ Others(u)
    BY <1>9, GoToStep, DoneStep DEF HandlerKnows, At, Steps, SetCredential
  <2>2. Elsewhere(req[u].id)
    BY <1>9, <2>1 DEF Elsewhere, Absent, At, store, login, loop, SetCredential, KeyringOK
  <2>3. ~Crossing => InOrder(u)'
    <3>1. CASE Done(u)
      BY <3>1, DoneStep DEF InOrder, Idle
    <3>2. CASE ~Done(u)
      BY <1>9, <2>1, <3>2, GoToStep, CredentialAssumption DEF OrderInv, InOrder, Absent, Keeps, Steps, At, store, login, loop, SetCredential, KeyringOK, HandlerKnows
    <3> QED
      BY <3>1, <3>2
  <2> QED
    BY <2>1, <2>2, <2>3, OrderFrame
<1>10. ASSUME NEW u \in Users, Restore(u) PROVE OrderInv'
  <2>1. req[u].id \in Ids /\ Others(u)
    BY <1>10, GoToStep, DoneStep DEF HandlerKnows, At, Steps, Restore
  <2>2. Elsewhere(req[u].id)
    BY <1>10, <2>1 DEF Elsewhere, Absent, At, store, login, loop, Restore, KeyringOK
  <2>3. ~Crossing => InOrder(u)'
    <3>1. CASE Done(u)
      BY <3>1, DoneStep DEF InOrder, Idle
    <3>2. CASE ~Done(u)
      BY <1>10, <2>1, <3>2, GoToStep DEF OrderInv, InOrder, Absent, Keeps, Steps, At, store, login, loop, Restore
    <3> QED
      BY <3>1, <3>2
  <2> QED
    BY <2>1, <2>2, <2>3, OrderFrame
<1>11. ASSUME NEW u \in Users, SaveAccounts(u) PROVE OrderInv'
  <2>1. req[u].id \in Ids /\ Others(u)
    BY <1>11, SaveStep DEF HandlerKnows
  <2>2. CASE UNCHANGED <<mem, file>> /\ req'[u] = Idle
    BY <1>11, <2>1, <2>2, SaveStep, OrderFrame DEF Elsewhere, Absent, InOrder, Idle
  <2>3. CASE mem' = NextList(u) /\ file' = NextList(u) /\ req'[u] # Idle
    <3>1. \A i \in Ids : mem'[i] = file'[i] /\ (i # req[u].id => mem'[i] = mem[i])
      BY <2>1, <2>3 DEF NextList, StoreOK, Lists
    <3>2. mem'[req[u].id] = IF req[u].op = "delete" THEN "none" ELSE Switch(req[u].on)
      BY <2>1, <2>3 DEF NextList, StoreOK, Lists
    <3>3. Elsewhere(req[u].id)
      BY <1>11, <3>1, SaveStep DEF Elsewhere, Absent
    <3>4. InOrder(u)'
      BY <1>11, <2>1, <2>3, <3>1, <3>2, SaveStep DEF InOrder, Absent, Keeps
    <3> QED
      BY <2>1, <3>3, <3>4, OrderFrame
  <2> QED
    <3>1. Idle.pc = "idle"
      BY DEF Idle
    <3> QED
      BY <1>11, <2>2, <2>3, <3>1, SaveStep
<1>12. ASSUME NEW u \in Users, SaveFails(u) PROVE OrderInv'
  <2>1. req[u].id \in Ids /\ Others(u)
    BY <1>12, GoToStep, DoneStep DEF HandlerKnows, At, Steps, SaveFails
  <2>2. Elsewhere(req[u].id)
    BY <1>12, <2>1 DEF Elsewhere, Absent, At, store, login, loop, SaveFails
  <2>3. ~Crossing => InOrder(u)'
    <3>1. CASE Done(u)
      BY <3>1, DoneStep DEF InOrder, Idle
    <3>2. CASE ~Done(u)
      BY <1>12, <2>1, <3>2, GoToStep DEF OrderInv, InOrder, Absent, Keeps, Steps, At, store, login, loop, SaveFails
    <3> QED
      BY <3>1, <3>2
  <2> QED
    BY <2>1, <2>2, <2>3, OrderFrame
<1>13. ASSUME NEW u \in Users, EraseCredential(u) PROVE OrderInv'
  <2>1. req[u].id \in Ids /\ Others(u)
    BY <1>13, GoToStep, DoneStep DEF HandlerKnows, At, Steps, EraseCredential
  <2>2. Elsewhere(req[u].id)
    BY <1>13, <2>1 DEF Elsewhere, Absent, At, store, login, loop, EraseCredential, KeyringOK
  <2>3. ~Crossing => InOrder(u)'
    <3>1. CASE Done(u)
      BY <3>1, DoneStep DEF InOrder, Idle
    <3>2. CASE ~Done(u)
      BY <1>13, <2>1, <3>2, GoToStep DEF OrderInv, InOrder, Absent, Keeps, Steps, At, store, login, loop, EraseCredential
    <3> QED
      BY <3>1, <3>2
  <2> QED
    BY <2>1, <2>2, <2>3, OrderFrame
<1>14. ASSUME NEW at \in {"store", "store_again"}, NEW then \in {"usage", "usage_again"}, StoreToken(at, then) PROVE OrderInv'
  <2>1. /\ UNCHANGED <<mem, file, req>> /\ job.id \in Ids /\ job.held \in Credential
        /\ UNCHANGED cred \/ cred' = [cred EXCEPT ![job.id] = job.held]
    BY <1>14 DEF StoreToken, Collects, JobKnows, store
  <2>2. \A i \in Ids : cred[i] # None => cred'[i] # None
    BY <2>1, CredentialAssumption DEF KeyringOK
  <2>3. \A u \in Users : req[u].pc = "save" => req[u].id \in Ids
    BY DEF HandlerKnows
  <2> QED
    BY <2>1, <2>2, <2>3 DEF OrderInv, InOrder, Absent
<1>15. CASE Crash
  <2>1. \A u \in Users : req'[u] = Idle
    BY <1>15 DEF Crash
  <2> QED
    BY <2>1 DEF OrderInv, InOrder, Idle
<1>16. CASE UNCHANGED <<mem, file, cred, req>>
  BY <1>16 DEF OrderInv, InOrder, Absent
<1> QED
  BY <1>1, <1>2, <1>3, <1>4, <1>5, <1>6, <1>7, <1>8, <1>9, <1>10, <1>11, <1>12, <1>13,
     <1>14, <1>15, <1>16, MemChanges, FileChanges, CredChanges, ReqChanges DEF Asks,
     Walks

\* The list that a handler writes has the accounts that have a credential.
LEMMA NextListHasCredential ==
  ASSUME ~Crossing, StoreOK, RequestsOK, HandlerKnows, OrderInv, AccountHasCredential,
         NEW u \in Users, req[u].pc = "save", Known(u), NEW i \in Ids, NextList(u)[i] # "none"
  PROVE  cred[i] # None
<1>1. CASE i # req[u].id
  BY <1>1 DEF NextList, StoreOK, Lists, AccountHasCredential
<1>2. CASE i = req[u].id
  <2>1. req[u].op \in {"complete", "update"}
    BY <1>2 DEF NextList, StoreOK, Lists, HandlerKnows
  <2> QED
    BY <1>2, <2>1 DEF Known, OrderInv, InOrder, AccountHasCredential
<1> QED
  BY <1>1, <1>2

\* Accounts have their credentials.
LEMMA AccountStep ==
  ASSUME RequestsOK, SessionsOK, KeyringOK, StoreOK, JobOK, SpentOK, QueueOK,
     HandlerKnows, OneHandler, FileIsMemory, DeadIsIdle, OrderInv,
     AccountHasCredential, JobKnows, [Next]_vars
  PROVE  AccountHasCredential'
<1>1. ASSUME NEW u \in Users, SetCredential(u) PROVE AccountHasCredential'
  <2>1. /\ UNCHANGED <<mem, file>> /\ req[u].id \in Ids /\ req[u].new \in Credential
        /\ UNCHANGED cred \/ cred' = [cred EXCEPT ![req[u].id] = req[u].new]
    BY <1>1 DEF SetCredential, At, store, HandlerKnows
  <2> QED
    BY <2>1, CredentialAssumption DEF AccountHasCredential, KeyringOK
<1>2. ASSUME NEW u \in Users, Restore(u) PROVE AccountHasCredential'
  <2>1. /\ UNCHANGED <<mem, file>> /\ req[u].pc = "restore" /\ req[u].id \in Ids
        /\ UNCHANGED cred \/ cred' = [cred EXCEPT ![req[u].id] = req[u].old]
    BY <1>2 DEF Restore, At, store, HandlerKnows
  <2>2. ~Crossing => req[u].old # None \/ Absent(req[u].id)
    BY <2>1 DEF OrderInv, InOrder, HandlerKnows
  <2> QED
    BY <2>1, <2>2 DEF AccountHasCredential, Absent, KeyringOK
<1>3. ASSUME NEW u \in Users, SaveAccounts(u) PROVE AccountHasCredential'
  <2>1. UNCHANGED cred /\ req[u].pc = "save"
    BY <1>3, SaveStep
  <2>2. CASE UNCHANGED <<mem, file>>
    BY <2>1, <2>2 DEF AccountHasCredential
  <2>3. CASE Known(u) /\ mem' = NextList(u) /\ file' = NextList(u)
    BY <2>1, <2>3, NextListHasCredential DEF AccountHasCredential
  <2> QED
    BY <1>3, <2>2, <2>3, SaveStep
<1>4. ASSUME NEW u \in Users, SaveFails(u) PROVE AccountHasCredential'
  BY <1>4 DEF AccountHasCredential, SaveFails, At, Idle, login, loop
<1>5. ASSUME NEW u \in Users, EraseCredential(u) PROVE AccountHasCredential'
  <2>1. /\ UNCHANGED <<mem, file>> /\ req[u].pc = "erase" /\ req[u].id \in Ids
        /\ UNCHANGED cred \/ cred' = [cred EXCEPT ![req[u].id] = None]
    BY <1>5 DEF EraseCredential, At, store, HandlerKnows
  <2>2. ~Crossing => Absent(req[u].id)
    BY <2>1 DEF OrderInv, InOrder
  <2> QED
    BY <2>1, <2>2 DEF AccountHasCredential, Absent, KeyringOK
<1>6. ASSUME NEW at \in {"store", "store_again"}, NEW then \in {"usage", "usage_again"}, StoreToken(at, then) PROVE AccountHasCredential'
  <2>1. /\ UNCHANGED <<mem, file>> /\ job.id \in Ids /\ job.held \in Credential
        /\ UNCHANGED cred \/ cred' = [cred EXCEPT ![job.id] = job.held]
    BY <1>6 DEF StoreToken, Collects, JobKnows, store
  <2> QED
    BY <2>1, CredentialAssumption DEF AccountHasCredential, KeyringOK
<1>7. CASE Crash
  <2>1. PICK disk \in MayBeOnDisk :
          /\ file' = disk
          /\ mem' = IF Loads(disk) THEN disk ELSE [i \in Ids |-> "none"]
    BY <1>7 DEF Crash
  <2>2. UNCHANGED cred
    BY <1>7 DEF Crash
  <2>3. ASSUME ~Crossing, disk # Torn, NEW i \in Ids, disk[i] # "none"
        PROVE  cred[i] # None
    <3>1. CASE disk = file
      BY <2>3, <3>1 DEF AccountHasCredential
    <3>2. CASE disk # file
      <4>1. PICK u \in Users : req[u].pc = "save" /\ Known(u) /\ disk = NextList(u)
        BY <2>1, <2>3, <3>2 DEF MayBeOnDisk
      <4> QED
        BY <2>3, <4>1, NextListHasCredential
    <3> QED
      BY <3>1, <3>2
  <2>4. \A i \in Ids : mem'[i] # "none" => Loads(disk) /\ disk[i] # "none"
    BY <2>1
  <2> QED
    BY <2>1, <2>2, <2>3, <2>4 DEF AccountHasCredential, Loads
<1>8. CASE UNCHANGED <<mem, file, cred>>
  BY <1>8 DEF AccountHasCredential
<1> QED
  BY <1>1, <1>2, <1>3, <1>4, <1>5, <1>6, <1>7, <1>8, MemChanges, FileChanges,
     CredChanges

-----------------------------------------------------------------------------
(* What is shown. *)

\* A handler that does not register leaves the listed accounts as they are.
LEMMA ListedFrame ==
  ASSUME ListedIsOn, NEW u \in Users, Others(u), UNCHANGED <<mem, listed>>, ~Registers(u)
  PROVE  ListedIsOn'
  BY DEF ListedIsOn, Registering, Registers, Others

\* A handler on its way changes nothing that is about to be shown, except of its
\* account, which it takes off, or will ask for.
LEMMA ComesFrame ==
  ASSUME CollectionComes, NEW u \in Users, Others(u), UNCHANGED <<todo, job>>,
         Range(queue) \subseteq Range(queue'),
         \/ ~AsksFor(u)
         \/ AsksFor(u)' /\ req'[u].id = req[u].id
         \/ \A i \in Ids : i = req[u].id => mem'[i] # "on" \/ i \in Range(queue'),
         \A i \in Ids : \/ mem'[i] # "on"
                        \/ AsksFor(u)' /\ req'[u].id = i
                        \/ mem'[i] = mem[i] /\ cred'[i] = cred[i] /\ shown'[i] = shown[i]
  PROVE  CollectionComes'
<1> SUFFICES ASSUME NEW i \in Ids, mem'[i] = "on", ~Asking(i)', i \notin Range(queue')
             PROVE  ((job.id = i /\ WillShow(i)) \/ (job.id # i /\ (i \in todo \/ Shows(i))))'
  BY DEF CollectionComes
<1>1. mem'[i] = mem[i] /\ cred'[i] = cred[i] /\ shown'[i] = shown[i]
  BY DEF Asking
<1>2. ~Asking(i)
  <2> SUFFICES ASSUME NEW v \in Users, req[v].id = i, AsksFor(v) PROVE FALSE
    BY DEF Asking
  <2>1. CASE v = u
    BY <2>1 DEF Asking
  <2>2. CASE v # u
    BY <2>2 DEF Asking, AsksFor, Others
  <2> QED
    BY <2>1, <2>2
<1>3. mem[i] = "on" /\ i \notin Range(queue)
  BY <1>1
<1>4. (job.id = i /\ WillShow(i)) \/ (job.id # i /\ (i \in todo \/ Shows(i)))
  BY <1>2, <1>3 DEF CollectionComes, Asking, WillShow, Shows
<1> QED
  BY <1>1, <1>4 DEF WillShow, Shows

\* An enabled account is listed as enabled.
LEMMA ListedStep ==
  ASSUME RequestsOK, SessionsOK, KeyringOK, StoreOK, JobOK, SpentOK, QueueOK,
     TokenInv, HandlerKnows, OneHandler, JobKnows, NewIsAlone, JobIsCurrent,
     TokenIsCurrent, AccountInv, ~Crossing, spent.faults = 0, ~Fault, ListedIsOn,
     [Next]_vars
  PROVE  ListedIsOn'
<1>1. ASSUME NEW u \in Users, Asks(u) PROVE ListedIsOn'
  <2>1. Others(u) /\ UNCHANGED <<mem, listed>> /\ ~Registers(u)
    BY <1>1, AskSteps DEF Registers, OnlyRequests, Idle
  <2> QED
    BY <2>1, ListedFrame
<1>2. ASSUME NEW u \in Users, CheckExists(u) PROVE ListedIsOn'
  <2>1. Others(u) /\ UNCHANGED <<mem, listed>> /\ ~Registers(u)
    BY <1>2, ExistsStep DEF Registers, OnlyRequests, Idle
  <2> QED
    BY <2>1, ListedFrame
<1>3. ASSUME NEW u \in Users, CheckUnused(u) PROVE ListedIsOn'
  <2>1. Others(u) /\ UNCHANGED <<mem, listed>> /\ ~Registers(u)
    BY <1>3, GoToStep, DoneStep DEF Registers, CheckUnused, At, store, login, loop, Steps
  <2> QED
    BY <2>1, ListedFrame
<1>4. ASSUME NEW u \in Users, CheckLimit(u) PROVE ListedIsOn'
  <2>1. Others(u) /\ UNCHANGED <<mem, listed>> /\ ~Registers(u)
    BY <1>4, GoToStep, DoneStep DEF Registers, CheckLimit, At, store, login, loop, Steps
  <2> QED
    BY <2>1, ListedFrame
<1>5. ASSUME NEW u \in Users, InsertSession(u) PROVE ListedIsOn'
  <2>1. Others(u) /\ UNCHANGED <<mem, listed>> /\ ~Registers(u)
    BY <1>5, GoToStep, DoneStep DEF Registers, InsertSession, At, store, login, loop, Steps
  <2> QED
    BY <2>1, ListedFrame
<1>6. ASSUME NEW u \in Users, CheckSession(u) PROVE ListedIsOn'
  <2>1. Others(u) /\ UNCHANGED <<mem, listed>> /\ ~Registers(u)
    BY <1>6, SessionStep DEF Registers, OnlyRequests, Idle
  <2> QED
    BY <2>1, ListedFrame
<1>7. ASSUME NEW u \in Users, CheckUnique(u) PROVE ListedIsOn'
  <2>1. Others(u) /\ UNCHANGED <<mem, listed>> /\ ~Registers(u)
    BY <1>7, GoToStep, DoneStep DEF Registers, CheckUnique, At, store, login, loop, Steps
  <2> QED
    BY <2>1, ListedFrame
<1>8. ASSUME NEW u \in Users, ExchangeCode(u) PROVE ListedIsOn'
  <2>1. Others(u) /\ UNCHANGED <<mem, listed>> /\ ~Registers(u)
    BY <1>8, ExchangeMoves DEF Registers, OnlyRequests, Idle
  <2> QED
    BY <2>1, ListedFrame
<1>9. ASSUME NEW u \in Users, RemoveSession(u) PROVE ListedIsOn'
  <2>1. Others(u) /\ UNCHANGED <<mem, listed>> /\ ~Registers(u)
    BY <1>9, GoToStep, DoneStep DEF Registers, RemoveSession, At, store, login, loop, Steps
  <2> QED
    BY <2>1, ListedFrame
<1>10. ASSUME NEW u \in Users, GetOld(u) PROVE ListedIsOn'
  <2>1. Others(u) /\ UNCHANGED <<mem, listed>> /\ ~Registers(u)
    BY <1>10, OldStep DEF Registers, OnlyRequests, Idle
  <2> QED
    BY <2>1, ListedFrame
<1>11. ASSUME NEW u \in Users, SetCredential(u) PROVE ListedIsOn'
  <2>1. Others(u) /\ UNCHANGED <<mem, listed>> /\ ~Registers(u)
    BY <1>11, GoToStep, DoneStep DEF Registers, SetCredential, At, store, login, loop, Steps
  <2> QED
    BY <2>1, ListedFrame
<1>12. ASSUME NEW u \in Users, Restore(u) PROVE ListedIsOn'
  <2>1. Others(u) /\ UNCHANGED <<mem, listed>> /\ ~Registers(u)
    BY <1>12, GoToStep, DoneStep DEF Registers, Restore, At, store, login, loop, Steps
  <2> QED
    BY <2>1, ListedFrame
<1>13. ASSUME NEW u \in Users, SaveAccounts(u) PROVE ListedIsOn'
  <2>1. Others(u) /\ UNCHANGED listed /\ ~Registers(u) /\ req[u].id \in Ids
    BY <1>13, SaveStep DEF Registers, HandlerKnows
  <2>2. CASE UNCHANGED mem
    BY <2>1, <2>2, ListedFrame
  <2>3. CASE /\ mem' = NextList(u) /\ req'[u].id = req[u].id
             /\ req[u].op = "delete" \/ req'[u].pc \in {"get", "register"}
    <3>1. \A i \in Ids : i # req[u].id => mem'[i] = mem[i]
      BY <2>3 DEF NextList, StoreOK, Lists
    <3>2. req[u].op = "delete" => mem'[req[u].id] = "none"
      BY <2>1, <2>3 DEF NextList, StoreOK, Lists
    <3> QED
      BY <2>1, <2>3, <3>1, <3>2 DEF ListedIsOn, Registering, Registers, Others
  <2> QED
    BY <1>13, <2>2, <2>3, SaveStep DEF Keeps
<1>14. ASSUME NEW u \in Users, SaveFails(u) PROVE ListedIsOn'
  <2>1. Others(u) /\ UNCHANGED <<mem, listed>> /\ ~Registers(u)
    BY <1>14, GoToStep, DoneStep DEF Registers, SaveFails, At, store, login, loop, Steps
  <2> QED
    BY <2>1, ListedFrame
<1>15. ASSUME NEW u \in Users, GetForStatus(u) PROVE ListedIsOn'
  <2>1. Others(u) /\ UNCHANGED <<mem, listed>> /\ Registers(u)' /\ req'[u].id = req[u].id
    BY <1>15, GoToStep DEF GetForStatus, At, store, Steps, Keeps, Registers
  <2> QED
    BY <2>1 DEF ListedIsOn, Registering, Registers, Others
<1>16. ASSUME NEW u \in Users, Register(u) PROVE ListedIsOn'
  <2>1. /\ Others(u) /\ UNCHANGED mem /\ req[u].pc = "register" /\ req[u].id \in Ids
        /\ listed' = [listed EXCEPT ![req[u].id] = Switch(req[u].on)]
    BY <1>16, GoToStep DEF Register, At, store, Steps, HandlerKnows
  <2>2. mem[req[u].id] = Switch(req[u].on)
    BY <2>1 DEF AccountInv, OrderInv, InOrder
  <2> QED
    BY <2>1, <2>2 DEF ListedIsOn, Registering, Registers, Others, SessionsOK, Switch
<1>17. ASSUME NEW u \in Users, Refresh(u) PROVE ListedIsOn'
  <2>1. Others(u) /\ UNCHANGED <<mem, listed>> /\ ~Registers(u)
    BY <1>17, GoToStep, DoneStep DEF Registers, Refresh, At, store, login, loop, Steps
  <2> QED
    BY <2>1, ListedFrame
<1>18. ASSUME NEW u \in Users, EraseCredential(u) PROVE ListedIsOn'
  <2>1. Others(u) /\ UNCHANGED <<mem, listed>> /\ ~Registers(u)
    BY <1>18, GoToStep, DoneStep DEF Registers, EraseCredential, At, store, login, loop, Steps
  <2> QED
    BY <2>1, ListedFrame
<1>19. ASSUME NEW u \in Users, Unlist(u) PROVE ListedIsOn'
  <2>1. /\ Others(u) /\ UNCHANGED mem /\ req[u].pc = "unlist" /\ req[u].id \in Ids
        /\ listed' = [listed EXCEPT ![req[u].id] = "none"]
    BY <1>19, GoToStep DEF Unlist, At, store, Steps, HandlerKnows
  <2>2. mem[req[u].id] = "none"
    BY <2>1 DEF AccountInv, OrderInv, InOrder, Absent
  <2> QED
    BY <2>1, <2>2 DEF ListedIsOn, Registering, Registers, Others, SessionsOK
<1>20. ASSUME NEW u \in Users, WithdrawLimits(u) PROVE ListedIsOn'
  <2>1. Others(u) /\ UNCHANGED <<mem, listed>> /\ ~Registers(u)
    BY <1>20, GoToStep, DoneStep DEF Registers, WithdrawLimits, At, store, login, loop, Steps
  <2> QED
    BY <2>1, ListedFrame
<1>21. ASSUME NEW u \in Users, WithdrawMetrics(u) PROVE ListedIsOn'
  <2>1. Others(u) /\ UNCHANGED <<mem, listed>> /\ ~Registers(u)
    BY <1>21, GoToStep, DoneStep DEF Registers, WithdrawMetrics, At, store, login, loop, Steps
  <2> QED
    BY <2>1, ListedFrame
<1>22. ASSUME NEW i \in Ids, ForeignSource(i) PROVE ListedIsOn'
  <2>1. /\ UNCHANGED <<mem, req>> /\ ~Registering(i) /\ listed[i] # "on"
        /\ \A j \in Ids : j # i => listed'[j] = listed[j]
    BY <1>22 DEF ForeignSource, store, Working, Registering, SessionsOK
  <2> QED
    BY <2>1 DEF ListedIsOn, Registering, Registers
<1>23. ASSUME NEW i \in Ids, Greet(i) PROVE ListedIsOn'
  BY <1>23 DEF Greet, JobIsCurrent
<1>24. CASE Crash
  BY <1>24 DEF Crash
<1>25. CASE UNCHANGED <<mem, listed, req>>
  BY <1>25 DEF ListedIsOn, Registering, Registers
<1> QED
  BY <1>1, <1>2, <1>3, <1>4, <1>5, <1>6, <1>7, <1>8, <1>9, <1>10, <1>11, <1>12, <1>13,
     <1>14, <1>15, <1>16, <1>17, <1>18, <1>19, <1>20, <1>21, <1>22, <1>23, <1>24,
     <1>25, MemChanges, ListedChanges, ReqChanges DEF Asks

\* A step of a collection keeps what comes for the other accounts, and must say
\* what comes for its own.
LEMMA ComesNext ==
  ASSUME CollectionComes, UNCHANGED <<mem, req, todo, queue>>, NEW k \in Ids, job.id = k,
         \A i \in Ids : i # k => /\ job'.id # i
                                 /\ cred'[i] = cred[i] /\ shown'[i] = shown[i],
         \/ mem[k] = "on" /\ ~Asking(k) /\ WillShow(k) => job'.id = k /\ WillShow(k)'
         \/ mem[k] = "on" /\ ~Asking(k) /\ WillShow(k) => job'.id # k /\ Shows(k)'
  PROVE  CollectionComes'
<1> SUFFICES ASSUME NEW i \in Ids, mem[i] = "on", ~Asking(i), i \notin Range(queue)
             PROVE  ((job.id = i /\ WillShow(i)) \/ (job.id # i /\ (i \in todo \/ Shows(i))))'
  BY DEF CollectionComes, Asking, AsksFor
<1>1. (job.id = i /\ WillShow(i)) \/ (job.id # i /\ (i \in todo \/ Shows(i)))
  BY DEF CollectionComes, Asking, WillShow, Shows
<1>2. CASE i = k
  BY <1>1, <1>2
<1>3. CASE i # k
  BY <1>1, <1>3 DEF Shows
<1> QED
  BY <1>2, <1>3

\* What is shown, or comes, is of the stored login.
LEMMA ComesStep ==
  ASSUME RequestsOK, SessionsOK, KeyringOK, StoreOK, JobOK, SpentOK, QueueOK,
     TokenInv, HandlerKnows, OneHandler, JobKnows, NewIsAlone, JobIsCurrent,
     TokenIsCurrent, AccountInv, ~Crossing, spent.faults = 0, ~Fault, ShownOK,
     ListedIsOn, CollectionComes, [Next]_vars
  PROVE  CollectionComes'
<1>1. ASSUME NEW u \in Users, Asks(u) PROVE CollectionComes'
  <2>1. Others(u) /\ UNCHANGED <<mem, cred, todo, job, queue, shown>> /\ ~AsksFor(u)
    BY <1>1, AskSteps DEF AsksFor, OnlyRequests, Idle
  <2> QED
    BY <2>1, ComesFrame
<1>2. ASSUME NEW u \in Users, CheckExists(u) PROVE CollectionComes'
  <2>1. Others(u) /\ UNCHANGED <<mem, cred, todo, job, queue, shown>> /\ ~AsksFor(u)
    BY <1>2, ExistsStep DEF AsksFor, OnlyRequests, Idle
  <2> QED
    BY <2>1, ComesFrame
<1>3. ASSUME NEW u \in Users, CheckUnused(u) PROVE CollectionComes'
  <2>1. Others(u) /\ UNCHANGED <<mem, cred, todo, job, queue, shown>> /\ ~AsksFor(u)
    BY <1>3, GoToStep, DoneStep DEF AsksFor, CheckUnused, At, store, login, loop, Steps
  <2> QED
    BY <2>1, ComesFrame
<1>4. ASSUME NEW u \in Users, CheckLimit(u) PROVE CollectionComes'
  <2>1. Others(u) /\ UNCHANGED <<mem, cred, todo, job, queue, shown>> /\ ~AsksFor(u)
    BY <1>4, GoToStep, DoneStep DEF AsksFor, CheckLimit, At, store, login, loop, Steps
  <2> QED
    BY <2>1, ComesFrame
<1>5. ASSUME NEW u \in Users, InsertSession(u) PROVE CollectionComes'
  <2>1. Others(u) /\ UNCHANGED <<mem, cred, todo, job, queue, shown>> /\ ~AsksFor(u)
    BY <1>5, GoToStep, DoneStep DEF AsksFor, InsertSession, At, store, login, loop, Steps
  <2> QED
    BY <2>1, ComesFrame
<1>6. ASSUME NEW u \in Users, CheckSession(u) PROVE CollectionComes'
  <2>1. Others(u) /\ UNCHANGED <<mem, cred, todo, job, queue, shown>> /\ ~AsksFor(u)
    BY <1>6, SessionStep DEF AsksFor, OnlyRequests, Idle
  <2> QED
    BY <2>1, ComesFrame
<1>7. ASSUME NEW u \in Users, CheckUnique(u) PROVE CollectionComes'
  <2>1. Others(u) /\ UNCHANGED <<mem, cred, todo, job, queue, shown>> /\ ~AsksFor(u)
    BY <1>7, GoToStep, DoneStep DEF AsksFor, CheckUnique, At, store, login, loop, Steps
  <2> QED
    BY <2>1, ComesFrame
<1>8. ASSUME NEW u \in Users, ExchangeCode(u) PROVE CollectionComes'
  <2>1. Others(u) /\ UNCHANGED <<mem, cred, todo, job, queue, shown>> /\ ~AsksFor(u)
    BY <1>8, ExchangeMoves DEF AsksFor, OnlyRequests, Idle
  <2> QED
    BY <2>1, ComesFrame
<1>9. ASSUME NEW u \in Users, RemoveSession(u) PROVE CollectionComes'
  <2>1. Others(u) /\ UNCHANGED <<mem, cred, todo, job, queue, shown>> /\ ~AsksFor(u)
    BY <1>9, GoToStep, DoneStep DEF AsksFor, RemoveSession, At, store, login, loop, Steps
  <2> QED
    BY <2>1, ComesFrame
<1>10. ASSUME NEW u \in Users, GetOld(u) PROVE CollectionComes'
  <2>1. Others(u) /\ UNCHANGED <<mem, cred, todo, job, queue, shown>> /\ ~AsksFor(u)
    BY <1>10, OldStep DEF AsksFor, OnlyRequests, Idle
  <2> QED
    BY <2>1, ComesFrame
<1>11. ASSUME NEW u \in Users, SetCredential(u) PROVE CollectionComes'
  <2>1. req[u].pc = "set" /\ UNCHANGED <<mem, todo, job, queue, shown>>
    BY <1>11 DEF SetCredential, At, store, loop
  <2>2. /\ Others(u) /\ req'[u].pc = "save" /\ req'[u].op = req[u].op /\ req'[u].id = req[u].id
    BY <1>11, GoToStep DEF SetCredential, Steps, Keeps
  <2>3. ~AsksFor(u) /\ AsksFor(u)'
    BY <2>1, <2>2 DEF AsksFor, HandlerKnows
  <2>4. \A i \in Ids : i # req[u].id => cred'[i] = cred[i]
    BY <1>11 DEF SetCredential, KeyringOK
  <2> QED
    BY <2>1, <2>2, <2>3, <2>4, ComesFrame
<1>12. ASSUME NEW u \in Users, Restore(u) PROVE CollectionComes'
  BY <1>12 DEF Restore, At, JobIsCurrent
<1>13. ASSUME NEW u \in Users, SaveAccounts(u) PROVE CollectionComes'
  <2>1. /\ Others(u) /\ UNCHANGED <<cred, todo, job, queue, shown>> /\ req[u].pc = "save"
        /\ req[u].id \in Ids
    BY <1>13, SaveStep DEF HandlerKnows
  <2>2. CASE ~Known(u) /\ UNCHANGED mem
    <3>1. ~AsksFor(u)
      BY <2>1, <2>2 DEF AsksFor, Known
    <3> QED
      BY <2>1, <2>2, <3>1, ComesFrame
  <2>3. CASE /\ mem' = NextList(u) /\ req'[u].id = req[u].id
             /\ \/ req[u].op = "delete"
                \/ req'[u].pc \in {"get", "register"}
    <3>1. \A i \in Ids : i # req[u].id => mem'[i] = mem[i]
      BY <2>3 DEF NextList, StoreOK, Lists
    <3>2. req[u].op = "delete" => mem'[req[u].id] = "none"
      BY <2>1, <2>3 DEF NextList, StoreOK, Lists
    <3>3. req[u].op = "delete" => ~AsksFor(u)
      BY <2>1 DEF AsksFor
    <3>4. req[u].op # "delete" => AsksFor(u)'
      BY <2>3 DEF AsksFor
    <3> QED
      BY <2>1, <2>3, <3>1, <3>2, <3>3, <3>4, ComesFrame
  <2> QED
    BY <1>13, <2>2, <2>3, SaveStep DEF Keeps
<1>14. ASSUME NEW u \in Users, SaveFails(u) PROVE CollectionComes'
  BY <1>14 DEF SaveFails
<1>15. ASSUME NEW u \in Users, GetForStatus(u) PROVE CollectionComes'
  <2>1. /\ Others(u) /\ UNCHANGED <<mem, cred, todo, job, queue, shown>>
        /\ AsksFor(u)' /\ req'[u].id = req[u].id
    BY <1>15, GoToStep DEF AsksFor, GetForStatus, At, store, login, loop, Steps, Keeps
  <2> QED
    BY <2>1, ComesFrame
<1>16. ASSUME NEW u \in Users, Register(u) PROVE CollectionComes'
  <2>1. /\ Others(u) /\ UNCHANGED <<mem, cred, todo, job, queue, shown>>
        /\ AsksFor(u)' /\ req'[u].id = req[u].id
    BY <1>16, GoToStep DEF AsksFor, Register, At, store, login, loop, Steps, Keeps
  <2> QED
    BY <2>1, ComesFrame
<1>17. ASSUME NEW u \in Users, Refresh(u) PROVE CollectionComes'
  <2>1. /\ Others(u) /\ UNCHANGED <<mem, cred, todo, job, shown>> /\ req[u].id \in Ids
    BY <1>17, DoneStep DEF Refresh, At, store, HandlerKnows
  <2>2. CASE mem[req[u].id] = "none" /\ UNCHANGED queue
    BY <2>1, <2>2, ComesFrame
  <2>3. CASE Len(queue) < TriggerCap /\ queue' = Append(queue, req[u].id)
    <3>1. Range(queue') = Range(queue) \cup {req[u].id}
      BY <2>1, <2>3, QueueSend
    <3> QED
      BY <2>1, <3>1, ComesFrame
  <2> QED
    BY <1>17, <2>2, <2>3 DEF Refresh
<1>18. ASSUME NEW u \in Users, EraseCredential(u) PROVE CollectionComes'
  <2>1. /\ Others(u) /\ UNCHANGED <<mem, shown, todo, job, queue>> /\ req[u].id \in Ids
        /\ req[u].pc = "erase" /\ ~AsksFor(u)
        /\ \A i \in Ids : i # req[u].id => cred'[i] = cred[i]
    BY <1>18, GoToStep, DoneStep DEF EraseCredential, At, store, loop, Steps, HandlerKnows, AsksFor,
       KeyringOK, ShownOK
  <2>2. mem[req[u].id] = "none"
    BY <2>1 DEF AccountInv, OrderInv, InOrder, Absent
  <2> QED
    BY <2>1, <2>2, ComesFrame
<1>19. ASSUME NEW u \in Users, Unlist(u) PROVE CollectionComes'
  <2>1. Others(u) /\ UNCHANGED <<mem, cred, todo, job, queue, shown>> /\ ~AsksFor(u)
    BY <1>19, GoToStep, DoneStep DEF AsksFor, Unlist, At, store, login, loop, Steps
  <2> QED
    BY <2>1, ComesFrame
<1>20. ASSUME NEW u \in Users, WithdrawLimits(u) PROVE CollectionComes'
  <2>1. /\ Others(u) /\ UNCHANGED <<mem, cred, todo, job, queue>> /\ req[u].id \in Ids
        /\ req[u].pc = "withdraw" /\ ~AsksFor(u)
        /\ \A i \in Ids : i # req[u].id => shown'[i] = shown[i]
    BY <1>20, GoToStep, DoneStep DEF WithdrawLimits, At, store, loop, Steps, HandlerKnows, AsksFor,
       KeyringOK, ShownOK
  <2>2. mem[req[u].id] = "none"
    BY <2>1 DEF AccountInv, OrderInv, InOrder, Absent
  <2> QED
    BY <2>1, <2>2, ComesFrame
<1>21. ASSUME NEW u \in Users, WithdrawMetrics(u) PROVE CollectionComes'
  <2>1. /\ Others(u) /\ UNCHANGED <<mem, cred, todo, job, queue>> /\ req[u].id \in Ids
        /\ req[u].pc = "withdraw_metrics" /\ ~AsksFor(u)
        /\ \A i \in Ids : i # req[u].id => shown'[i] = shown[i]
    BY <1>21, GoToStep, DoneStep DEF WithdrawMetrics, At, store, loop, Steps, HandlerKnows, AsksFor,
       KeyringOK, ShownOK
  <2>2. mem[req[u].id] = "none"
    BY <2>1 DEF AccountInv, OrderInv, InOrder, Absent
  <2> QED
    BY <2>1, <2>2, ComesFrame
<1>22. CASE TakeTrigger
  <2>1. /\ UNCHANGED <<mem, cred, req, job, shown>> /\ todo = {} /\ job = Rest
        /\ queue # <<>> /\ queue' = Tail(queue) /\ todo' = {Head(queue)} \cap Present
    BY <1>22 DEF TakeTrigger, Loop, Resting, store
  <2>2. Range(queue) = Range(queue') \cup {Head(queue)}
    BY <2>1, QueueTake
  <2>3. \A i \in Ids : job.id # i
    BY <2>1, NoneAssumption DEF Rest
  <2>4. \A i \in Ids : i = Head(queue) /\ mem[i] = "on" => i \in todo'
    BY <2>1 DEF Present
  <2> QED
    BY <2>1, <2>2, <2>3, <2>4 DEF CollectionComes, Shows, Asking, AsksFor
<1>23. CASE TakeAll
  <2>1. UNCHANGED <<mem, cred, req, job, queue, shown>> /\ todo = {} /\ job = Rest
    BY <1>23 DEF TakeAll, Loop, Resting, store
  <2>2. \A i \in Ids : job.id # i
    BY <2>1, NoneAssumption DEF Rest
  <2> QED
    BY <2>1, <2>2 DEF CollectionComes, Shows, Asking, AsksFor
<1>24. CASE TakeDue
  <2>1. UNCHANGED <<mem, cred, req, job, queue, shown>> /\ todo = {} /\ job = Rest
    BY <1>24 DEF TakeDue, Loop, Resting, store
  <2>2. \A i \in Ids : job.id # i
    BY <2>1, NoneAssumption DEF Rest
  <2> QED
    BY <2>1, <2>2 DEF CollectionComes, Shows, Asking, AsksFor
<1>25. CASE CollectNext
  <2>1. UNCHANGED <<mem, cred, req, queue, shown>> /\ job = Rest
    BY <1>25 DEF CollectNext, store
  <2>2. PICK k \in todo : todo' = todo \ {k} /\ job'.id = k /\ job'.at = "check"
    BY <1>25 DEF CollectNext
  <2>3. \A i \in Ids : job.id # i
    BY <2>1, NoneAssumption DEF Rest
  <2> QED
    BY <2>1, <2>2, <2>3 DEF CollectionComes, WillShow, Shows, Asking, AsksFor
<1>26. CASE CheckEnabled
  <2>1. /\ UNCHANGED <<mem, listed, req, todo, queue, cred, shown>> /\ job.id \in Ids
        /\ job.at = "check"
    BY <1>26 DEF CheckEnabled, Collects, store, JobKnows
  <2>2. CASE job' = Rest /\ listed[job.id] # "on"
    <3>1. mem[job.id] = "on" => Asking(job.id)
      BY <2>1, <2>2 DEF ListedIsOn, Registering, Registers, Asking, AsksFor
    <3>2. \A i \in Ids : job'.id # i
      BY <2>2, NoneAssumption DEF Rest
    <3> QED
      BY <2>1, <3>1, <3>2, ComesNext
  <2>3. CASE job'.at = "get" /\ job'.id = job.id
    BY <2>1, <2>3, ComesNext DEF WillShow
  <2> QED
    BY <1>26, <2>2, <2>3 DEF CheckEnabled, Stage, JobOK
<1>27. CASE GetCredential
  <2>1. /\ UNCHANGED <<mem, req, todo, queue, cred, shown>> /\ job.id \in Ids
        /\ job.at = "get"
    BY <1>27 DEF GetCredential, Collects, store, JobKnows
  <2>2. CASE job' = Rest /\ cred[job.id] = None
    <3>1. mem[job.id] # "on"
      BY <2>1, <2>2 DEF AccountInv, AccountHasCredential
    <3>2. \A i \in Ids : job'.id # i
      BY <2>2, NoneAssumption DEF Rest
    <3> QED
      BY <2>1, <3>1, <3>2, ComesNext
  <2>3. ASSUME NEW at \in {"refresh", "usage"}, job' = [job EXCEPT !.at = at, !.held = cred[job.id]]
        PROVE  CollectionComes'
    <3>1. job'.at = at /\ job'.id = job.id /\ job'.held = cred[job.id]
      BY <2>3 DEF JobOK
    <3>2. PICK k \in Ids : k = job.id
      BY <2>1
    <3>3. WillShow(k)'
      BY <2>1, <3>1, <3>2 DEF WillShow
    <3> QED
      BY <2>1, <3>1, <3>2, <3>3, ComesNext
  <2> QED
    BY <1>27, <2>2, <2>3 DEF GetCredential, CollectFails
<1>28. ASSUME NEW at \in {"refresh", "refresh_again"}, NEW then \in {"store", "store_again"}, RefreshToken(at, then) PROVE CollectionComes'
  <2>1. /\ UNCHANGED <<mem, req, todo, queue, cred, shown>> /\ job.id \in Ids
        /\ job.at = at /\ Accepted(job.id, job.held)
    BY <1>28, RefreshStep DEF JobIsCurrent
  <2>2. job'.at = then /\ job'.id = job.id
    BY <1>28, <2>1, RefreshStep
  <2>3. PICK k \in Ids : k = job.id
    BY <2>1
  <2>4. WillShow(k)'
    BY <2>2 DEF WillShow
  <2> QED
    BY <2>1, <2>2, <2>3, <2>4, ComesNext
<1>29. ASSUME NEW at \in {"store", "store_again"}, NEW then \in {"usage", "usage_again"}, StoreToken(at, then) PROVE CollectionComes'
  <2>1. /\ UNCHANGED <<mem, req, todo, queue, shown>> /\ job.id \in Ids
        /\ cred' = [cred EXCEPT ![job.id] = job.held]
        /\ job'.at = then /\ job'.id = job.id /\ job'.held = job.held
    BY <1>29 DEF StoreToken, Collects, store, JobKnows, CollectFails, Stage, JobOK
  <2>2. PICK k \in Ids : k = job.id
    BY <2>1
  <2>3. cred'[k] = job.held /\ \A i \in Ids : i # k => cred'[i] = cred[i]
    BY <2>1, <2>2 DEF KeyringOK
  <2>4. WillShow(k)'
    BY <2>1, <2>3 DEF WillShow
  <2> QED
    BY <2>1, <2>2, <2>3, <2>4, ComesNext
<1>30. CASE AskUsage
  <2>1. /\ UNCHANGED <<mem, req, todo, queue, cred, shown>> /\ job.id \in Ids
        /\ job.at \in {"usage", "usage_again"} /\ job'.at \in {"limits", "refresh_again"}
        /\ job'.id = job.id /\ job'.held = job.held
    BY <1>30 DEF AskUsage, Collects, store, JobKnows, CollectFails, Stage, JobOK
  <2>2. PICK k \in Ids : k = job.id
    BY <2>1
  <2>3. WillShow(k) => WillShow(k)'
    BY <2>1 DEF WillShow
  <2> QED
    BY <2>1, <2>2, <2>3, ComesNext
<1>31. CASE AskUsageAgain
  <2>1. /\ UNCHANGED <<mem, req, todo, queue, cred, shown>> /\ job.id \in Ids
        /\ job.at \in {"usage", "usage_again"} /\ job'.at \in {"limits", "refresh_again"}
        /\ job'.id = job.id /\ job'.held = job.held
    BY <1>31 DEF AskUsageAgain, Collects, store, JobKnows, CollectFails, Stage, JobOK
  <2>2. PICK k \in Ids : k = job.id
    BY <2>1
  <2>3. WillShow(k) => WillShow(k)'
    BY <2>1 DEF WillShow
  <2> QED
    BY <2>1, <2>2, <2>3, ComesNext
<1>32. CASE PublishLimits
  <2>1. /\ UNCHANGED <<mem, req, todo, queue, cred>> /\ job.id \in Ids /\ job.at = "limits"
        /\ job'.at = "metrics" /\ job'.id = job.id /\ job'.held = job.held
        /\ shown' = [shown EXCEPT ![job.id].limits = job.held.login]
    BY <1>32 DEF PublishLimits, Collects, store, JobKnows, Stage, JobOK
  <2>2. PICK k \in Ids : k = job.id
    BY <2>1
  <2>3. shown'[k].limits = job.held.login /\ \A i \in Ids : i # k => shown'[i] = shown[i]
    BY <2>1, <2>2 DEF ShownOK
  <2>4. WillShow(k) => WillShow(k)'
    BY <2>1, <2>3 DEF WillShow
  <2> QED
    BY <2>1, <2>2, <2>3, <2>4, ComesNext
<1>33. CASE PublishMetrics
  <2>1. /\ UNCHANGED <<mem, req, todo, queue, cred>> /\ job.id \in Ids /\ job.at = "metrics"
        /\ job' = Rest /\ shown' = [shown EXCEPT ![job.id].metrics = job.held.login]
    BY <1>33 DEF PublishMetrics, Collects, store, JobKnows
  <2>2. PICK k \in Ids : k = job.id
    BY <2>1
  <2>3. /\ shown'[k].limits = shown[k].limits /\ shown'[k].metrics = job.held.login
        /\ \A i \in Ids : i # k => shown'[i] = shown[i]
    BY <2>1, <2>2 DEF ShownOK
  <2>4. \A i \in Ids : job'.id # i
    BY <2>1, NoneAssumption DEF Rest
  <2>5. WillShow(k) => Shows(k)'
    BY <2>1, <2>3 DEF WillShow, Shows
  <2> QED
    BY <2>1, <2>2, <2>3, <2>4, <2>5, ComesNext
<1>34. CASE Crash
  BY <1>34 DEF Crash
<1>35. CASE UNCHANGED <<mem, cred, req, todo, job, queue, shown>>
  BY <1>35 DEF CollectionComes, WillShow, Shows, Asking, AsksFor
<1> QED
  BY <1>1, <1>2, <1>3, <1>4, <1>5, <1>6, <1>7, <1>8, <1>9, <1>10, <1>11, <1>12, <1>13,
     <1>14, <1>15, <1>16, <1>17, <1>18, <1>19, <1>20, <1>21, <1>22, <1>23, <1>24,
     <1>25, <1>26, <1>27, <1>28, <1>29, <1>30, <1>31, <1>32, <1>33, <1>34, <1>35,
     MemChanges, CredChanges, ReqChanges, TodoChanges, JobChanges, QueueChanges,
     ShownChanges DEF Asks

-----------------------------------------------------------------------------
(* The invariants. *)

\* The initial states have their types, no handler and no collection.
LEMMA InitTyped ==
  ASSUME Init
  PROVE  /\ TypeOK /\ Fresh
         /\ \A u \in Users : req[u] = Idle
<1>1. StoreOK /\ SessionsOK
  BY DEF Init, StoreOK, SessionsOK, Lists
<1>2. KeyringOK
  BY Bounds DEF Init, KeyringOK, Logins, Credential
<1>3. RequestsOK /\ JobOK
  BY RestTyped DEF Init, RequestsOK, JobOK
<1>4. QueueOK
  BY EmptySeq, Bounds DEF Init, QueueOK
<1>5. ShownOK /\ SpentOK
  BY Bounds DEF Init, ShownOK, SpentOK, Logins, Blank
<1>6. Fresh /\ \A u \in Users : req[u] = Idle
  BY DEF Init, Fresh
<1> QED
  BY <1>1, <1>2, <1>3, <1>4, <1>5, <1>6, TypeParts

\* The initial states satisfy the invariant.
LEMMA InitInv == Init => OAuthInv
<1> SUFFICES ASSUME Init PROVE OAuthInv
  OBVIOUS
<1>1. TypeOK /\ Fresh /\ \A u \in Users : req[u] = Idle
  BY InitTyped
<1>2. /\ StoreOK /\ KeyringOK /\ SessionsOK /\ RequestsOK /\ QueueOK /\ JobOK /\ ShownOK
      /\ SpentOK
  BY <1>1, TypeParts
<1>3. HandlerKnows /\ SlotKeepsId /\ OneHandler /\ DeadIsIdle /\ OrderInv
  <2>1. /\ Idle.pc = "idle" /\ Idle.id = None /\ Idle.slot = None
    BY DEF Idle
  <2>2. HandlerKnows /\ DeadIsIdle /\ OrderInv
    BY <1>1, <2>1 DEF HandlerKnows, DeadIsIdle, OrderInv, InOrder
  <2>3. SlotKeepsId /\ OneHandler
    BY <1>1, <2>1 DEF SlotKeepsId, OneHandler
  <2> QED
    BY <2>2, <2>3
<1>4. JobKnows
  BY <1>1 DEF JobKnows, Fresh, Rest
<1>5. \A i \in Ids, c \in Credential : Held(i, c) => c = [login |-> 0, token |-> 0]
  BY <1>1, CredentialAssumption DEF Held, Fresh, Rest, Idle
<1>6. TokenInv
  <2>1. HeldIsIssued
    BY <1>1, <1>5, Bounds DEF HeldIsIssued, Fresh, Logins
  <2>2. NothingIssued
    BY <1>1 DEF NothingIssued, Fresh
  <2>3. LostIsNotHeld
    BY <1>1, Bounds DEF LostIsNotHeld, Fresh
  <2> QED
    BY <2>1, <2>2, <2>3 DEF TokenInv
<1>7. NewIsAlone /\ JobIsCurrent
  BY <1>1 DEF NewIsAlone, HasNew, JobIsCurrent, Fresh, Rest, Idle
<1>8. TokenIsCurrent
  BY <1>1, Bounds DEF TokenIsCurrent, Fresh, Accepted, Logins
<1>9. FileIsMemory /\ AccountHasCredential
  BY <1>1, CredentialAssumption, Bounds DEF FileIsMemory, AccountHasCredential, Fresh, Credential, Logins
<1>10. ListedIsOn /\ CollectionComes
  <2>1. \A i \in Ids : job.id # i
    BY <1>1, NoneAssumption DEF Fresh, Rest
  <2> QED
    BY <1>1, <2>1 DEF ListedIsOn, CollectionComes, Shows, Fresh
<1> QED
  BY <1>1, <1>3, <1>4, <1>6, <1>7, <1>8, <1>9, <1>10 DEF OAuthInv, CurrentInv, AccountInv, ShownInv

\* The invariant is inductive.
LEMMA InvStep == OAuthInv /\ [Next]_vars => OAuthInv'
<1> SUFFICES ASSUME OAuthInv, [Next]_vars PROVE OAuthInv'
  OBVIOUS
<1>1. /\ StoreOK /\ KeyringOK /\ SessionsOK /\ RequestsOK /\ QueueOK /\ JobOK /\ ShownOK
      /\ SpentOK
  BY TypeParts DEF OAuthInv
<1>2. HandlerKnows /\ SlotKeepsId /\ OneHandler /\ JobKnows /\ TokenInv
  BY DEF OAuthInv
<1>3. FileIsMemory /\ DeadIsIdle /\ OrderInv /\ AccountHasCredential
  BY DEF OAuthInv, AccountInv
<1>4. /\ StoreOK' /\ KeyringOK' /\ SessionsOK' /\ RequestsOK' /\ QueueOK' /\ JobOK' /\ ShownOK'
      /\ SpentOK'
  BY <1>1, <1>2, StoreTyped, KeyringTyped, SessionsTyped, RequestsTyped, QueueTyped, JobTyped,
     ShownTyped, SpentTyped
<1>5. TypeOK'
  BY <1>4 DEF TypeOK, StoreOK, KeyringOK, SessionsOK, RequestsOK, QueueOK, JobOK, ShownOK, SpentOK
<1>6. HandlerKnows' /\ SlotKeepsId' /\ OneHandler' /\ JobKnows' /\ TokenInv'
  BY <1>1, <1>2, <1>4, HandlerStep, SlotStep, OneStep, JobStep, TokenStep
<1>7. CurrentInv'
  BY <1>1, <1>2, CurrentKept DEF OAuthInv
<1>8. AccountInv'
  BY <1>1, <1>2, <1>3, FileStep, DeadStep, OrderStep, AccountStep DEF AccountInv
<1>9. ShownInv'
  <2> SUFFICES ASSUME Smooth' PROVE (ListedIsOn /\ CollectionComes)'
    BY DEF ShownInv
  <2>1. ~Crossing /\ spent.faults = 0 /\ ~Fault
    BY <1>1, <1>2, Faultless DEF Smooth
  <2>2. NewIsAlone /\ JobIsCurrent /\ TokenIsCurrent /\ AccountInv /\ ListedIsOn /\ CollectionComes
    BY <2>1 DEF OAuthInv, CurrentInv, ShownInv, Smooth
  <2> QED
    BY <1>1, <1>2, <2>1, <2>2, ListedStep, ComesStep
<1> QED
  BY <1>5, <1>6, <1>7, <1>8, <1>9 DEF OAuthInv

\* The invariant holds in every state the Agent can be in.
THEOREM Invariant == Spec => []OAuthInv
  BY InitInv, InvStep, PTL DEF Spec

\* Every variable keeps its type: accounts, credentials and tokens, sessions, requests,
\* the run loop and its queue.
THEOREM OAuthTypes == Spec => []TypeOK
<1>1. OAuthInv => TypeOK
  BY DEF OAuthInv
<1> QED
  BY <1>1, Invariant, PTL

\* When requests about one account do not overlap, an account in memory or in the file
\* has a credential in the keyring, whichever call fails and wherever the Agent ends.
THEOREM AccountCredential == Spec => []AccountHasCredential
<1>1. OAuthInv => AccountHasCredential
  BY DEF OAuthInv, AccountInv
<1> QED
  BY <1>1, Invariant, PTL

\* Until a call fails, the token endpoint accepts the token in the keyring, unless the
\* run loop is about to store the next one, also when requests overlap.
THEOREM TokenCurrent == Spec => []TokenIsCurrent
<1>1. OAuthInv => TokenIsCurrent
  BY DEF OAuthInv, CurrentInv, TokenIsCurrent
<1> QED
  BY <1>1, Invariant, PTL

\* Once everything is at rest, what is shown of an enabled account comes from the login
\* whose credential the keyring holds.
THEOREM ShownStored == Spec => []ShownIsStored
<1>1. OAuthInv => ShownIsStored
  <2> SUFFICES ASSUME OAuthInv, Quiet, Smooth, NEW i \in Ids, mem[i] = "on"
               PROVE  Shows(i)
    BY DEF ShownIsStored, Smooth, Shows
  <2>1. CollectionComes
    BY DEF OAuthInv, ShownInv
  <2>2. ~Asking(i)
    BY DEF Quiet, Asking, AsksFor, Idle
  <2>3. i \notin Range(queue)
    BY NothingCarried DEF Quiet
  <2>4. job.id # i /\ todo = {}
    BY NoneAssumption DEF Quiet, Resting, Rest
  <2> QED
    BY <2>1, <2>2, <2>3, <2>4 DEF CollectionComes, Shows
<1> QED
  BY <1>1, Invariant, PTL

=============================================================================
