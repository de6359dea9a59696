------------------------------- MODULE Pairing -------------------------------
(***************************************************************************)
(* The passkey of a BLE pairing (PairingBroker and windows_pair of ble.rs): *)
(* Windows asks for the passkey that the device shows, a task registers the *)
(* request, shows it in the snapshot and waits, and a user answers or       *)
(* cancels it through the web API.  There is one place for a request.       *)
(*                                                                         *)
(* The broker's lock, the device's status and the oneshot channel are three *)
(* pieces of state: a task or a handler may be overtaken between them.      *)
(***************************************************************************)
EXTENDS Naturals, FiniteSets

CONSTANTS
    Requests,  \* request identifiers: each ceremony gets a new one
    Users,     \* requests of the web API handled at the same time
    None,      \* nothing
    MaxOps     \* bound: requests of the users

ASSUME PairingAssumption ==
    /\ None \notin Requests \cup {"passkey", "cancelled", "timeout"}
    /\ MaxOps \in Nat

VARIABLES
    ceremony,  \* the pairing operation of Windows that is under way
    task,      \* the task of each request
    pending,   \* PairingBroker.pending
    sender,    \* who has the sender of the channel of each request
    status,    \* device.pairing: the request that the console shows
    mail,      \* the passkey sent through it: the request it was entered for
    outcome,   \* what the wait for the passkey came to
    used,      \* the passkey that each ceremony was given
    user,      \* what each handler is doing
    told,      \* requests whose passkey was accepted, or that were cancelled
    ops        \* bound used up

vars == <<ceremony, task, pending, sender, mail, status, outcome, used, user, told, ops>>

NoCeremony == [id |-> None, at |-> "none"]
NoUser == [at |-> "idle", id |-> None]

Init ==
    /\ ceremony = NoCeremony
    /\ task = [r \in Requests |-> "none"]
    /\ pending = None
    /\ sender = [r \in Requests |-> "none"]
    /\ mail = [r \in Requests |-> None]
    /\ status = None
    /\ outcome = [r \in Requests |-> None]
    /\ used = [r \in Requests |-> None]
    /\ user = [u \in Users |-> NoUser]
    /\ told = [accepted |-> {}, cancelled |-> {}]
    /\ ops = 0

-----------------------------------------------------------------------------
(* windows_pair: the operation of Windows, awaited by the supervisor        *)

\* Windows asks for the passkey: the event handler spawns the task.
Ask(r) ==
    /\ ceremony = NoCeremony
    /\ task[r] = "none"
    /\ ceremony' = [id |-> r, at |-> "asked"]
    /\ task' = [task EXCEPT ![r] = "spawned"]
    /\ UNCHANGED <<pending, sender, mail, status, outcome, used, user, told, ops>>

\* The operation is over: it was given the passkey, or the device or Windows gave
\* up.
EndOperation ==
    /\ ceremony.at = "asked"
    /\ ceremony' = [ceremony EXCEPT !.at = "over"]
    /\ UNCHANGED <<task, pending, sender, mail, status, outcome, used, user, told, ops>>

-----------------------------------------------------------------------------
(* request_pin                                                             *)

Move(r, at) == task' = [task EXCEPT ![r] = at]

Register(r) ==
    /\ task[r] = "spawned"
    /\ IF pending # None
       THEN Move(r, "ended") /\ UNCHANGED <<pending, sender>>
       ELSE /\ pending' = r
            /\ sender' = [sender EXCEPT ![r] = "broker"]
            /\ Move(r, "registered")
    /\ UNCHANGED <<ceremony, mail, status, outcome, used, user, told, ops>>

Show(r) ==
    /\ task[r] = "registered"
    /\ status' = r
    /\ Move(r, "waiting")
    /\ UNCHANGED <<ceremony, pending, sender, mail, outcome, used, user, told, ops>>

Ends(r, how) ==
    /\ outcome' = [outcome EXCEPT ![r] = how]
    /\ UNCHANGED <<ceremony, pending, sender, mail, status, used, user, told, ops>>

Receive(r) ==
    /\ task[r] = "waiting" /\ sender[r] = "sent"
    /\ Move(r, "finishing")
    /\ Ends(r, "passkey")

SenderDropped(r) ==
    /\ task[r] = "waiting" /\ sender[r] = "dropped"
    /\ Move(r, "finishing")
    /\ Ends(r, "cancelled")

\* PAIRING_PIN_TIMEOUT: the receiver is dropped after the timer was looked at, and
\* takes what was sent in between with it.
TimeOut(r) ==
    /\ task[r] = "waiting"
    /\ Move(r, "late")
    /\ Ends(r, "timeout")

DropReceiver(r) ==
    /\ task[r] = "late"
    /\ Move(r, "finishing")
    /\ UNCHANGED <<ceremony, pending, sender, mail, status, outcome, used, user, told, ops>>

\* Faulty FreePlace: only an answered request gives its place back.
FreePlaceOfPasskey(r) ==
    /\ task[r] = "finishing"
    /\ Move(r, "clearing")
    /\ pending' = IF pending = r /\ outcome[r] = "passkey" THEN None ELSE pending
    /\ UNCHANGED <<ceremony, sender, mail, status, outcome, used, user, told, ops>>

\* finish: the broker first, then the status.
FreePlace(r) ==
    /\ task[r] = "finishing"
    /\ Move(r, "clearing")
    /\ pending' = IF pending = r THEN None ELSE pending
    /\ sender' = [sender EXCEPT ![r] =
                    IF pending = r /\ @ = "broker" THEN "dropped" ELSE @]
    /\ UNCHANGED <<ceremony, mail, status, outcome, used, user, told, ops>>

\* clear_status leaves the status of another request alone.
Cleared(r) == IF status = r THEN None ELSE status

\* Faulty ClearStatus: a wait that failed returns before finish has cleared.
ClearStatusOfPasskey(r) ==
    /\ task[r] = "clearing"
    /\ status' = IF outcome[r] = "passkey" THEN Cleared(r) ELSE status
    /\ Move(r, "done")
    /\ UNCHANGED <<ceremony, pending, sender, mail, outcome, used, user, told, ops>>

ClearStatus(r) ==
    /\ task[r] = "clearing"
    /\ status' = Cleared(r)
    /\ Move(r, "done")
    /\ UNCHANGED <<ceremony, pending, sender, mail, outcome, used, user, told, ops>>

\* AcceptWithPin, if there is one, and the deferral.
Accept(r) ==
    /\ task[r] = "done"
    /\ used' = IF outcome[r] = "passkey" THEN [used EXCEPT ![r] = mail[r]] ELSE used
    /\ Move(r, "ended")
    /\ UNCHANGED <<ceremony, pending, sender, mail, status, outcome, user, told, ops>>

-----------------------------------------------------------------------------
(* cancel_active: at the end of windows_pair, and by every handler that asks *)
(* for a connection                                                        *)

\* Faulty TakePending: the channel is closed whoever has the sender.
TakePendingAndClose ==
    /\ pending' = None
    /\ sender' = [r \in Requests |-> IF r = pending THEN "dropped" ELSE sender[r]]

\* Whoever is pending loses its place, and its sender with it unless a handler has
\* taken that.
TakePending ==
    /\ pending' = None
    /\ sender' = [r \in Requests |->
                    IF r = pending /\ sender[r] = "broker" THEN "dropped" ELSE sender[r]]

CancelAtEnd ==
    /\ ceremony.at = "over"
    /\ ceremony' = IF pending = None THEN NoCeremony
                   ELSE [id |-> pending, at |-> "clear"]
    /\ TakePending
    /\ UNCHANGED <<task, mail, status, outcome, used, user, told, ops>>

ClearAtEnd ==
    /\ ceremony.at = "clear"
    /\ status' = Cleared(ceremony.id)
    /\ ceremony' = NoCeremony
    /\ UNCHANGED <<task, pending, sender, mail, outcome, used, user, told, ops>>

-----------------------------------------------------------------------------
(* The web API                                                             *)

MayAsk(u) ==
    /\ user[u] = NoUser
    /\ ops < MaxOps
    /\ ops' = ops + 1

Turn(u, at, r) == user' = [user EXCEPT ![u] = [at |-> at, id |-> r]]
Done(u) == user' = [user EXCEPT ![u] = NoUser]

\* What a user may have seen in the console: a request that was shown once.
Seen == {r \in Requests : task[r] \notin {"none", "spawned", "registered"}}

\* Faulty TakeReply: the passkey goes to whatever request is pending.
TakeAnyReply(u) == \E r \in Seen :
    /\ MayAsk(u)
    /\ IF pending # None /\ sender[pending] = "broker"
       THEN /\ sender' = [sender EXCEPT ![pending] = "user"]
            /\ user' = [user EXCEPT ![u] = [at |-> "send", id |-> pending]]
            /\ mail' = [mail EXCEPT ![pending] = r]
       ELSE UNCHANGED <<sender, user, mail>>
    /\ UNCHANGED <<ceremony, task, pending, status, outcome, used, told>>

\* submit_pin of a well-formed passkey: the sender is taken under the lock (and what
\* it will send is known)...
TakeReply(u) == \E r \in Seen :
    /\ MayAsk(u)
    /\ IF pending = r /\ sender[r] = "broker"
       THEN /\ sender' = [sender EXCEPT ![r] = "user"]
            /\ Turn(u, "send", r)
            /\ mail' = [mail EXCEPT ![r] = r]
       ELSE UNCHANGED <<sender, user, mail>>
    /\ UNCHANGED <<ceremony, task, pending, status, outcome, used, told>>

\* ...and used after it.  A receiver that is gone makes the request fail.
Send(u) == LET r == user[u].id IN
    /\ user[u].at = "send"
    /\ IF task[r] \in {"registered", "waiting", "late"}
       THEN /\ sender' = [sender EXCEPT ![r] = "sent"]
            /\ told' = [told EXCEPT !.accepted = @ \cup {r}]
       ELSE UNCHANGED <<sender, told>>
    /\ Done(u)
    /\ UNCHANGED <<ceremony, task, pending, mail, status, outcome, used, ops>>

\* cancel, and clear_status after it.
Cancel(u) == \E r \in Seen :
    /\ MayAsk(u)
    /\ IF pending = r
       THEN TakePending /\ Turn(u, "cancelled", r)
       ELSE UNCHANGED <<pending, sender, user>>
    /\ UNCHANGED <<ceremony, task, mail, status, outcome, used, told>>

\* cancel_active in scan, connect_device, auto_connect and disconnect.
CancelActive(u) ==
    /\ MayAsk(u)
    /\ IF pending # None
       THEN TakePending /\ Turn(u, "clear", pending)
       ELSE UNCHANGED <<pending, sender, user>>
    /\ UNCHANGED <<ceremony, task, mail, status, outcome, used, told>>

ClearFor(u) == LET r == user[u].id IN
    /\ user[u].at \in {"cancelled", "clear"}
    /\ status' = Cleared(r)
    /\ told' = IF user[u].at = "cancelled" THEN [told EXCEPT !.cancelled = @ \cup {r}]
               ELSE told
    /\ Done(u)
    /\ UNCHANGED <<ceremony, task, pending, sender, mail, outcome, used, ops>>

\* DeviceGateway::activate: the device's status is reset with the transport.
Reset(u) ==
    /\ MayAsk(u)
    /\ status' = None
    /\ UNCHANGED <<ceremony, task, pending, sender, mail, outcome, used, user, told>>

-----------------------------------------------------------------------------
Task(r) ==
    \/ Register(r) \/ Show(r) \/ Receive(r) \/ SenderDropped(r) \/ DropReceiver(r)
    \/ FreePlace(r) \/ ClearStatus(r) \/ Accept(r)

Handler(u) ==
    TakeReply(u) \/ Send(u) \/ Cancel(u) \/ CancelActive(u) \/ ClearFor(u) \/ Reset(u)

Next ==
    \/ \E r \in Requests : Ask(r) \/ Task(r) \/ TimeOut(r)
    \/ EndOperation \/ CancelAtEnd \/ ClearAtEnd
    \/ \E u \in Users : Handler(u)

Spec == Init /\ [][Next]_vars

\* A task and a handler go on, the timer of a wait fires, windows_pair returns once
\* its operation is over.  Nothing says when an operation ends or a user answers.
Fairness ==
    /\ \A r \in Requests : WF_vars(Task(r)) /\ WF_vars(TimeOut(r))
    /\ WF_vars(CancelAtEnd) /\ WF_vars(ClearAtEnd)
    /\ \A u \in Users : WF_vars(Send(u)) /\ WF_vars(ClearFor(u))

FairSpec == Spec /\ Fairness

-----------------------------------------------------------------------------
(* Types                                                                   *)

\* Every variable has its type, and the pending request is one whose task works.
TypeOK ==
    /\ ceremony \in [id : Requests \cup {None}, at : {"none", "asked", "over", "clear"}]
    /\ task \in [Requests -> {"none", "spawned", "registered", "waiting", "late",
                              "finishing", "clearing", "done", "ended"}]
    /\ pending \in Requests \cup {None}
    /\ pending # None => task[pending] \in {"registered", "waiting", "late", "finishing"}
    /\ sender \in [Requests -> {"none", "broker", "user", "sent", "dropped"}]
    /\ mail \in [Requests -> Requests \cup {None}]
    /\ status \in Requests \cup {None}
    /\ outcome \in [Requests -> {None, "passkey", "cancelled", "timeout"}]
    /\ used \in [Requests -> Requests \cup {None}]
    /\ user \in [Users -> [at : {"idle", "send", "cancelled", "clear"},
                           id : Requests \cup {None}]]
    /\ told \in [accepted : SUBSET Requests, cancelled : SUBSET Requests]
    /\ ops \in 0..MaxOps

-----------------------------------------------------------------------------
(* Safety                                                                  *)

\* A ceremony is only given the passkey that was entered for it, also when one
\* request follows another, and only one whose submission was accepted.
PasskeyIsOwn == \A r \in Requests :
    used[r] # None => used[r] = r /\ r \in told.accepted

\* A passkey that was accepted reaches its ceremony, whoever cancels afterwards: the
\* wait for it can only have timed out at that very moment.
AcceptedIsUsed == \A r \in Requests :
    r \in told.accepted /\ task[r] = "ended" =>
        used[r] = r \/ outcome[r] = "timeout"

\* The console never shows a request whose task has ended, which nobody would take
\* down any more.
ShownIsAlive == status # None => task[status] # "ended"

-----------------------------------------------------------------------------
(* Liveness                                                                *)

\* The place for a request is free again, whatever happens to the operation, the
\* user or the device.
PlaceIsFreed == \A r \in Requests : pending = r ~> pending # r

=============================================================================
