---------------------------- MODULE PairingProofs ----------------------------
(***************************************************************************)
(* The invariants of Pairing for any number of requests and users.  They    *)
(* rest on who has the sender of a request's channel: it goes from the      *)
(* broker to one handler at most, and once it has sent, or is dropped,      *)
(* nobody has it any more.                                                  *)
(***************************************************************************)
EXTENDS Pairing, TLAPS

\* A handler that goes on knows the request it works on.
HandlerKnows == \A u \in Users : user[u].at # "idle" => user[u].id \in Requests

\* The channel of a request is there once its task has registered.
ChannelIsOpened == \A r \in Requests :
    task[r] \in {"none", "spawned"} => sender[r] = "none" /\ outcome[r] = None

\* A handler that will send has the sender, alone, with what was entered for the
\* request.
SenderIsHeld == \A u \in Users :
    user[u].at = "send" =>
        /\ sender[user[u].id] = "user"
        /\ mail[user[u].id] = user[u].id
        /\ \A v \in Users : user[v].at = "send" /\ user[v].id = user[u].id => v = u

\* What was sent was entered for the request and accepted, and the other way round.
SentIsAccepted == \A r \in Requests :
    /\ sender[r] = "sent" <=> r \in told.accepted
    /\ sender[r] = "sent" => mail[r] = r

\* A wait ends in a passkey only if one was sent, as cancelled only if the sender is
\* gone.
OutcomeIsRight == \A r \in Requests :
    /\ outcome[r] = "passkey" => sender[r] = "sent"
    /\ outcome[r] = "cancelled" => sender[r] = "dropped"
    /\ task[r] \in {"late", "finishing", "clearing", "done"} => outcome[r] # None
    /\ task[r] = "ended" /\ outcome[r] = None => sender[r] = "none"

\* A request is shown while its task waits or clears up.
ShownIsWaiting ==
    status # None => task[status] \in {"waiting", "late", "finishing", "clearing"}

\* The task gives the passkey it received to the ceremony before it ends.
GivenAtEnd == \A r \in Requests :
    task[r] = "ended" /\ outcome[r] = "passkey" => used[r] = r

PairingInv ==
    /\ TypeOK /\ HandlerKnows /\ ChannelIsOpened /\ SenderIsHeld /\ SentIsAccepted
    /\ OutcomeIsRight /\ ShownIsWaiting /\ GivenAtEnd /\ PasskeyIsOwn

-----------------------------------------------------------------------------
(* Types, and what a handler knows. *)

\* At the start no request is registered and nobody asks.
LEMMA InitInv == Init => PairingInv
  BY PairingAssumption DEF Init, PairingInv, TypeOK, HandlerKnows, ChannelIsOpened,
     SenderIsHeld, SentIsAccepted, OutcomeIsRight, ShownIsWaiting, GivenAtEnd,
     PasskeyIsOwn, NoCeremony, NoUser

\* Each step of the tasks, of Windows and of the handlers keeps the types; a pending
\* request gives its place back before its task goes on.
LEMMA TypeStep ==
  ASSUME TypeOK, HandlerKnows, [Next]_vars
  PROVE  TypeOK'
<1>1. ASSUME NEW r \in Requests, Ask(r) PROVE TypeOK'
  BY <1>1 DEF TypeOK, Ask
<1>2. CASE EndOperation
  BY <1>2 DEF TypeOK, EndOperation
<1>3. ASSUME NEW r \in Requests, Register(r) PROVE TypeOK'
  BY <1>3 DEF TypeOK, Register, Move
<1>4. ASSUME NEW r \in Requests, Show(r) PROVE TypeOK'
  BY <1>4 DEF TypeOK, Show, Move
<1>5. ASSUME NEW r \in Requests, Receive(r) PROVE TypeOK'
  BY <1>5 DEF TypeOK, Receive, Move, Ends
<1>6. ASSUME NEW r \in Requests, SenderDropped(r) PROVE TypeOK'
  BY <1>6 DEF TypeOK, SenderDropped, Move, Ends
<1>7. ASSUME NEW r \in Requests, TimeOut(r) PROVE TypeOK'
  BY <1>7 DEF TypeOK, TimeOut, Move, Ends
<1>8. ASSUME NEW r \in Requests, DropReceiver(r) PROVE TypeOK'
  BY <1>8 DEF TypeOK, DropReceiver, Move
<1>9. ASSUME NEW r \in Requests, FreePlace(r) PROVE TypeOK'
  BY <1>9 DEF TypeOK, FreePlace, Move
<1>10. ASSUME NEW r \in Requests, ClearStatus(r) PROVE TypeOK'
  BY <1>10 DEF TypeOK, ClearStatus, Move, Cleared
<1>11. ASSUME NEW r \in Requests, Accept(r) PROVE TypeOK'
  BY <1>11 DEF TypeOK, Accept, Move
<1>12. CASE CancelAtEnd
  BY <1>12 DEF TypeOK, CancelAtEnd, NoCeremony, TakePending
<1>13. CASE ClearAtEnd
  BY <1>13 DEF TypeOK, ClearAtEnd, NoCeremony, Cleared
<1>14. ASSUME NEW u \in Users, TakeReply(u) PROVE TypeOK'
  BY <1>14, PairingAssumption DEF TypeOK, TakeReply, MayAsk, Turn
<1>15. ASSUME NEW u \in Users, Send(u) PROVE TypeOK'
  BY <1>15 DEF TypeOK, HandlerKnows, Send, Done, NoUser
<1>16. ASSUME NEW u \in Users, Cancel(u) PROVE TypeOK'
  BY <1>16, PairingAssumption DEF TypeOK, Cancel, MayAsk, TakePending, Turn
<1>17. ASSUME NEW u \in Users, CancelActive(u) PROVE TypeOK'
  BY <1>17, PairingAssumption DEF TypeOK, CancelActive, MayAsk, TakePending, Turn
<1>18. ASSUME NEW u \in Users, ClearFor(u) PROVE TypeOK'
  BY <1>18 DEF TypeOK, HandlerKnows, ClearFor, Cleared, Done, NoUser
<1>19. ASSUME NEW u \in Users, Reset(u) PROVE TypeOK'
  BY <1>19, PairingAssumption DEF TypeOK, Reset, MayAsk
<1>20. CASE UNCHANGED vars
  BY <1>20 DEF TypeOK, vars
<1> QED
  BY <1>1, <1>2, <1>3, <1>4, <1>5, <1>6, <1>7, <1>8, <1>9, <1>10, <1>11, <1>12,
     <1>13, <1>14, <1>15, <1>16, <1>17, <1>18, <1>19, <1>20 DEF Next, Task, Handler

\* A handler only goes on with a request it was asked about or found pending.
LEMMA HandlerStep ==
  ASSUME TypeOK, HandlerKnows, [Next]_vars
  PROVE  HandlerKnows'
<1>1. ASSUME NEW u \in Users, TakeReply(u) PROVE HandlerKnows'
  <2>1. PICK r \in Requests : UNCHANGED user \/ Turn(u, "send", r)
    BY <1>1 DEF TakeReply, Seen
  <2> QED
    BY <2>1 DEF TypeOK, HandlerKnows, Turn
<1>2. ASSUME NEW u \in Users, Send(u) PROVE HandlerKnows'
  BY <1>2 DEF HandlerKnows, Send, Done, NoUser
<1>3. ASSUME NEW u \in Users, Cancel(u) PROVE HandlerKnows'
  BY <1>3 DEF TypeOK, HandlerKnows, Cancel, Turn, Seen
<1>4. ASSUME NEW u \in Users, CancelActive(u) PROVE HandlerKnows'
  BY <1>4 DEF TypeOK, HandlerKnows, CancelActive, Turn
<1>5. ASSUME NEW u \in Users, ClearFor(u) PROVE HandlerKnows'
  BY <1>5 DEF HandlerKnows, ClearFor, Done, NoUser
<1>6. CASE UNCHANGED <<user>>
  BY <1>6 DEF HandlerKnows
<1> QED
  BY <1>1, <1>2, <1>3, <1>4, <1>5, <1>6 DEF Next, Task, Handler, vars, Ask,
     EndOperation, Register, Show, Receive, SenderDropped, TimeOut, DropReceiver,
     FreePlace, ClearStatus, Accept, CancelAtEnd, ClearAtEnd, Reset, Move, Ends

-----------------------------------------------------------------------------
(* The sender of a channel. *)

\* All that whoever takes the pending request away does to a channel: it drops a
\* sender that the broker has.
OnlyDrops == \A r \in Requests :
    \/ sender'[r] = sender[r]
    \/ sender[r] = "broker" /\ sender'[r] = "dropped"

\* cancel and cancel_active leave a sender alone that a handler has taken.
LEMMA TakeDrops == TypeOK /\ TakePending => OnlyDrops
  BY DEF TypeOK, TakePending, OnlyDrops

\* Only the task opens the channel, when it registers; nobody sees it before.
LEMMA OpenedStep ==
  ASSUME TypeOK, ChannelIsOpened, [Next]_vars
  PROVE  ChannelIsOpened'
<1>1. ASSUME NEW r \in Requests, Ask(r) PROVE ChannelIsOpened'
  BY <1>1 DEF ChannelIsOpened, Ask
<1>2. ASSUME NEW r \in Requests, Register(r) PROVE ChannelIsOpened'
  BY <1>2 DEF TypeOK, ChannelIsOpened, Register, Move
<1>3. ASSUME NEW r \in Requests, Show(r) PROVE ChannelIsOpened'
  BY <1>3 DEF ChannelIsOpened, Show, Move
<1>4. ASSUME NEW r \in Requests, Receive(r) PROVE ChannelIsOpened'
  BY <1>4 DEF ChannelIsOpened, Receive, Move, Ends
<1>5. ASSUME NEW r \in Requests, SenderDropped(r) PROVE ChannelIsOpened'
  BY <1>5 DEF ChannelIsOpened, SenderDropped, Move, Ends
<1>6. ASSUME NEW r \in Requests, TimeOut(r) PROVE ChannelIsOpened'
  BY <1>6 DEF ChannelIsOpened, TimeOut, Move, Ends
<1>7. ASSUME NEW r \in Requests, DropReceiver(r) PROVE ChannelIsOpened'
  BY <1>7 DEF ChannelIsOpened, DropReceiver, Move
<1>8. ASSUME NEW r \in Requests, FreePlace(r) PROVE ChannelIsOpened'
  BY <1>8 DEF ChannelIsOpened, FreePlace, Move
<1>9. ASSUME NEW r \in Requests, ClearStatus(r) PROVE ChannelIsOpened'
  BY <1>9 DEF ChannelIsOpened, ClearStatus, Move
<1>10. ASSUME NEW r \in Requests, Accept(r) PROVE ChannelIsOpened'
  BY <1>10 DEF ChannelIsOpened, Accept, Move
<1>11. CASE CancelAtEnd
  BY <1>11, TakeDrops DEF ChannelIsOpened, OnlyDrops, CancelAtEnd
<1>12. ASSUME NEW u \in Users, TakeReply(u) PROVE ChannelIsOpened'
  BY <1>12 DEF TypeOK, ChannelIsOpened, TakeReply
<1>13. ASSUME NEW u \in Users, Send(u) PROVE ChannelIsOpened'
  BY <1>13 DEF TypeOK, ChannelIsOpened, Send
<1>14. ASSUME NEW u \in Users, Cancel(u) PROVE ChannelIsOpened'
  BY <1>14, TakeDrops DEF ChannelIsOpened, OnlyDrops, Cancel
<1>15. ASSUME NEW u \in Users, CancelActive(u) PROVE ChannelIsOpened'
  BY <1>15, TakeDrops DEF ChannelIsOpened, OnlyDrops, CancelActive
<1>16. CASE UNCHANGED <<task, sender, outcome>>
  BY <1>16 DEF ChannelIsOpened
<1> QED
  BY <1>1, <1>2, <1>3, <1>4, <1>5, <1>6, <1>7, <1>8, <1>9, <1>10, <1>11, <1>12,
     <1>13, <1>14, <1>15, <1>16 DEF Next, Task, Handler, vars, EndOperation,
     ClearAtEnd, ClearFor, Reset

\* Two handlers never hold the same sender: the second one does not find it in the
\* broker.
LEMMA HeldStep ==
  ASSUME TypeOK, HandlerKnows, ChannelIsOpened, SenderIsHeld, [Next]_vars
  PROVE  SenderIsHeld'
<1>1. ASSUME NEW r \in Requests, Register(r) PROVE SenderIsHeld'
  BY <1>1 DEF TypeOK, HandlerKnows, SenderIsHeld, ChannelIsOpened, Register
<1>2. ASSUME NEW r \in Requests, FreePlace(r) PROVE SenderIsHeld'
  BY <1>2 DEF SenderIsHeld, FreePlace
<1>3. CASE CancelAtEnd
  BY <1>3, TakeDrops DEF HandlerKnows, SenderIsHeld, OnlyDrops, CancelAtEnd
<1>4. ASSUME NEW u \in Users, TakeReply(u) PROVE SenderIsHeld'
  BY <1>4 DEF TypeOK, HandlerKnows, SenderIsHeld, TakeReply, Turn, Seen
<1>5. ASSUME NEW u \in Users, Send(u) PROVE SenderIsHeld'
  BY <1>5 DEF TypeOK, HandlerKnows, SenderIsHeld, Send, Done, NoUser
<1>6. ASSUME NEW u \in Users, Cancel(u) PROVE SenderIsHeld'
  BY <1>6, TakeDrops DEF TypeOK, HandlerKnows, SenderIsHeld, OnlyDrops, Cancel, Turn
<1>7. ASSUME NEW u \in Users, CancelActive(u) PROVE SenderIsHeld'
  BY <1>7, TakeDrops DEF TypeOK, HandlerKnows, SenderIsHeld, OnlyDrops,
     CancelActive, Turn, MayAsk, NoUser
<1>8. ASSUME NEW u \in Users, ClearFor(u) PROVE SenderIsHeld'
  BY <1>8 DEF SenderIsHeld, ClearFor, Done, NoUser
<1>9. CASE UNCHANGED <<sender, mail, user>>
  BY <1>9 DEF SenderIsHeld
<1> QED
  BY <1>1, <1>2, <1>3, <1>4, <1>5, <1>6, <1>7, <1>8, <1>9 DEF Next, Task, Handler,
     vars, Ask, EndOperation, Show, Receive, SenderDropped, TimeOut, DropReceiver,
     ClearStatus, Accept, ClearAtEnd, Reset, Move, Ends

\* Sending and being told so are one step, and no later one takes it back.
LEMMA SentStep ==
  ASSUME TypeOK, ChannelIsOpened, SenderIsHeld, SentIsAccepted, [Next]_vars
  PROVE  SentIsAccepted'
<1>1. ASSUME NEW r \in Requests, Register(r) PROVE SentIsAccepted'
  BY <1>1 DEF TypeOK, SentIsAccepted, ChannelIsOpened, Register
<1>2. ASSUME NEW r \in Requests, FreePlace(r) PROVE SentIsAccepted'
  BY <1>2 DEF SentIsAccepted, FreePlace
<1>3. CASE CancelAtEnd
  BY <1>3, TakeDrops DEF SentIsAccepted, OnlyDrops, CancelAtEnd
<1>4. ASSUME NEW u \in Users, TakeReply(u) PROVE SentIsAccepted'
  BY <1>4 DEF TypeOK, SentIsAccepted, TakeReply
<1>5. ASSUME NEW u \in Users, Send(u) PROVE SentIsAccepted'
  BY <1>5 DEF TypeOK, SenderIsHeld, SentIsAccepted, Send
<1>6. ASSUME NEW u \in Users, Cancel(u) PROVE SentIsAccepted'
  BY <1>6, TakeDrops DEF SentIsAccepted, OnlyDrops, Cancel
<1>7. ASSUME NEW u \in Users, CancelActive(u) PROVE SentIsAccepted'
  BY <1>7, TakeDrops DEF SentIsAccepted, OnlyDrops, CancelActive
<1>8. ASSUME NEW u \in Users, ClearFor(u) PROVE SentIsAccepted'
  BY <1>8 DEF SentIsAccepted, ClearFor
<1>9. CASE UNCHANGED <<sender, mail, told>>
  BY <1>9 DEF SentIsAccepted
<1> QED
  BY <1>1, <1>2, <1>3, <1>4, <1>5, <1>6, <1>7, <1>8, <1>9 DEF Next, Task, Handler,
     vars, Ask, EndOperation, Show, Receive, SenderDropped, TimeOut, DropReceiver,
     ClearStatus, Accept, ClearAtEnd, Reset, Move, Ends

-----------------------------------------------------------------------------
(* What a wait comes to, and what becomes of it. *)

\* What the task saw of the channel stays true of it.
LEMMA OutcomeStep ==
  ASSUME TypeOK, ChannelIsOpened, SenderIsHeld, OutcomeIsRight, [Next]_vars
  PROVE  OutcomeIsRight'
<1>1. ASSUME NEW r \in Requests, Ask(r) PROVE OutcomeIsRight'
  BY <1>1 DEF OutcomeIsRight, Ask
<1>2. ASSUME NEW r \in Requests, Register(r) PROVE OutcomeIsRight'
  BY <1>2 DEF TypeOK, OutcomeIsRight, ChannelIsOpened, Register, Move
<1>3. ASSUME NEW r \in Requests, Show(r) PROVE OutcomeIsRight'
  BY <1>3 DEF OutcomeIsRight, Show, Move
<1>4. ASSUME NEW r \in Requests, Receive(r) PROVE OutcomeIsRight'
  BY <1>4, PairingAssumption DEF TypeOK, OutcomeIsRight, Receive, Move, Ends
<1>5. ASSUME NEW r \in Requests, SenderDropped(r) PROVE OutcomeIsRight'
  BY <1>5, PairingAssumption DEF TypeOK, OutcomeIsRight, SenderDropped, Move, Ends
<1>6. ASSUME NEW r \in Requests, TimeOut(r) PROVE OutcomeIsRight'
  BY <1>6, PairingAssumption DEF TypeOK, OutcomeIsRight, TimeOut, Move, Ends
<1>7. ASSUME NEW r \in Requests, DropReceiver(r) PROVE OutcomeIsRight'
  BY <1>7 DEF OutcomeIsRight, DropReceiver, Move
<1>8. ASSUME NEW r \in Requests, FreePlace(r) PROVE OutcomeIsRight'
  BY <1>8 DEF OutcomeIsRight, FreePlace, Move
<1>9. ASSUME NEW r \in Requests, ClearStatus(r) PROVE OutcomeIsRight'
  BY <1>9 DEF OutcomeIsRight, ClearStatus, Move
<1>10. ASSUME NEW r \in Requests, Accept(r) PROVE OutcomeIsRight'
  BY <1>10 DEF OutcomeIsRight, Accept, Move
<1>11. CASE CancelAtEnd
  BY <1>11, TakeDrops DEF OutcomeIsRight, OnlyDrops, CancelAtEnd
<1>12. ASSUME NEW u \in Users, TakeReply(u) PROVE OutcomeIsRight'
  BY <1>12 DEF TypeOK, OutcomeIsRight, TakeReply
<1>13. ASSUME NEW u \in Users, Send(u) PROVE OutcomeIsRight'
  BY <1>13 DEF TypeOK, SenderIsHeld, OutcomeIsRight, Send
<1>14. ASSUME NEW u \in Users, Cancel(u) PROVE OutcomeIsRight'
  BY <1>14, TakeDrops DEF OutcomeIsRight, OnlyDrops, Cancel
<1>15. ASSUME NEW u \in Users, CancelActive(u) PROVE OutcomeIsRight'
  BY <1>15, TakeDrops DEF OutcomeIsRight, OnlyDrops, CancelActive
<1>16. CASE UNCHANGED <<task, sender, outcome>>
  BY <1>16 DEF OutcomeIsRight
<1> QED
  BY <1>1, <1>2, <1>3, <1>4, <1>5, <1>6, <1>7, <1>8, <1>9, <1>10, <1>11, <1>12,
     <1>13, <1>14, <1>15, <1>16 DEF Next, Task, Handler, vars, EndOperation,
     ClearAtEnd, ClearFor, Reset

\* A task takes its status down before it is done, and shows it once.
LEMMA ShownStep ==
  ASSUME TypeOK, ShownIsWaiting, [Next]_vars
  PROVE  ShownIsWaiting'
<1>1. ASSUME NEW r \in Requests, Ask(r) PROVE ShownIsWaiting'
  BY <1>1 DEF ShownIsWaiting, Ask
<1>2. ASSUME NEW r \in Requests, Register(r) PROVE ShownIsWaiting'
  BY <1>2 DEF TypeOK, ShownIsWaiting, Register, Move
<1>3. ASSUME NEW r \in Requests, Show(r) PROVE ShownIsWaiting'
  BY <1>3 DEF TypeOK, ShownIsWaiting, Show, Move
<1>4. ASSUME NEW r \in Requests, Receive(r) PROVE ShownIsWaiting'
  BY <1>4 DEF ShownIsWaiting, Receive, Move, Ends
<1>5. ASSUME NEW r \in Requests, SenderDropped(r) PROVE ShownIsWaiting'
  BY <1>5 DEF ShownIsWaiting, SenderDropped, Move, Ends
<1>6. ASSUME NEW r \in Requests, TimeOut(r) PROVE ShownIsWaiting'
  BY <1>6 DEF ShownIsWaiting, TimeOut, Move, Ends
<1>7. ASSUME NEW r \in Requests, DropReceiver(r) PROVE ShownIsWaiting'
  BY <1>7 DEF ShownIsWaiting, DropReceiver, Move
<1>8. ASSUME NEW r \in Requests, FreePlace(r) PROVE ShownIsWaiting'
  BY <1>8 DEF ShownIsWaiting, FreePlace, Move
<1>9. ASSUME NEW r \in Requests, ClearStatus(r) PROVE ShownIsWaiting'
  BY <1>9 DEF ShownIsWaiting, ClearStatus, Move, Cleared
<1>10. ASSUME NEW r \in Requests, Accept(r) PROVE ShownIsWaiting'
  BY <1>10 DEF ShownIsWaiting, Accept, Move
<1>11. CASE ClearAtEnd
  BY <1>11 DEF ShownIsWaiting, ClearAtEnd, Cleared
<1>12. ASSUME NEW u \in Users, ClearFor(u) PROVE ShownIsWaiting'
  BY <1>12 DEF ShownIsWaiting, ClearFor, Cleared
<1>13. ASSUME NEW u \in Users, Reset(u) PROVE ShownIsWaiting'
  BY <1>13 DEF ShownIsWaiting, Reset
<1>14. CASE UNCHANGED <<task, status>>
  BY <1>14 DEF ShownIsWaiting
<1> QED
  BY <1>1, <1>2, <1>3, <1>4, <1>5, <1>6, <1>7, <1>8, <1>9, <1>10, <1>11, <1>12,
     <1>13, <1>14 DEF Next, Task, Handler, vars, EndOperation, CancelAtEnd,
     TakeReply, Send, Cancel, CancelActive

\* A passkey received is a passkey sent: it is the request's own.
LEMMA GivenStep ==
  ASSUME TypeOK, ChannelIsOpened, SentIsAccepted, OutcomeIsRight, GivenAtEnd,
     [Next]_vars
  PROVE  GivenAtEnd'
<1>1. ASSUME NEW r \in Requests, Ask(r) PROVE GivenAtEnd'
  BY <1>1 DEF GivenAtEnd, Ask
<1>2. ASSUME NEW r \in Requests, Register(r) PROVE GivenAtEnd'
  BY <1>2, PairingAssumption DEF TypeOK, ChannelIsOpened, GivenAtEnd, Register, Move
<1>3. ASSUME NEW r \in Requests, Show(r) PROVE GivenAtEnd'
  BY <1>3 DEF GivenAtEnd, Show, Move
<1>4. ASSUME NEW r \in Requests, Receive(r) PROVE GivenAtEnd'
  BY <1>4 DEF GivenAtEnd, Receive, Move, Ends
<1>5. ASSUME NEW r \in Requests, SenderDropped(r) PROVE GivenAtEnd'
  BY <1>5 DEF GivenAtEnd, SenderDropped, Move, Ends
<1>6. ASSUME NEW r \in Requests, TimeOut(r) PROVE GivenAtEnd'
  BY <1>6 DEF GivenAtEnd, TimeOut, Move, Ends
<1>7. ASSUME NEW r \in Requests, DropReceiver(r) PROVE GivenAtEnd'
  BY <1>7 DEF GivenAtEnd, DropReceiver, Move
<1>8. ASSUME NEW r \in Requests, FreePlace(r) PROVE GivenAtEnd'
  BY <1>8 DEF GivenAtEnd, FreePlace, Move
<1>9. ASSUME NEW r \in Requests, ClearStatus(r) PROVE GivenAtEnd'
  BY <1>9 DEF GivenAtEnd, ClearStatus, Move
<1>10. ASSUME NEW r \in Requests, Accept(r) PROVE GivenAtEnd'
  BY <1>10 DEF TypeOK, SentIsAccepted, OutcomeIsRight, GivenAtEnd, Accept, Move
<1>11. CASE UNCHANGED <<task, outcome, used>>
  BY <1>11 DEF GivenAtEnd
<1> QED
  BY <1>1, <1>2, <1>3, <1>4, <1>5, <1>6, <1>7, <1>8, <1>9, <1>10, <1>11 DEF Next,
     Task, Handler, vars, EndOperation, CancelAtEnd, ClearAtEnd, TakeReply, Send,
     Cancel, CancelActive, ClearFor, Reset

\* Acceptance is never withdrawn, and only a received passkey is used.
LEMMA OwnStep ==
  ASSUME TypeOK, SentIsAccepted, OutcomeIsRight, PasskeyIsOwn, [Next]_vars
  PROVE  PasskeyIsOwn'
<1>1. ASSUME NEW r \in Requests, Accept(r) PROVE PasskeyIsOwn'
  BY <1>1 DEF SentIsAccepted, OutcomeIsRight, PasskeyIsOwn, Accept
<1>2. ASSUME NEW u \in Users, Send(u) PROVE PasskeyIsOwn'
  BY <1>2 DEF TypeOK, PasskeyIsOwn, Send
<1>3. ASSUME NEW u \in Users, ClearFor(u) PROVE PasskeyIsOwn'
  BY <1>3 DEF PasskeyIsOwn, ClearFor
<1>4. CASE UNCHANGED <<used, told>>
  BY <1>4 DEF PasskeyIsOwn
<1> QED
  BY <1>1, <1>2, <1>3, <1>4 DEF Next, Task, Handler, vars, Ask, EndOperation,
     Register, Show, Receive, SenderDropped, TimeOut, DropReceiver, FreePlace,
     ClearStatus, CancelAtEnd, ClearAtEnd, TakeReply, Cancel, CancelActive, Reset,
     Move, Ends

\* The parts need each other: together they are inductive.
LEMMA InvStep == PairingInv /\ [Next]_vars => PairingInv'
  BY TypeStep, HandlerStep, OpenedStep, HeldStep, SentStep, OutcomeStep, ShownStep,
     GivenStep, OwnStep DEF PairingInv

\* They hold in every reachable state.
LEMMA PairingInvariant == Spec => []PairingInv
  BY InitInv, InvStep, PTL DEF Spec

-----------------------------------------------------------------------------
(* The theorems. *)

\* Every variable has its type, and the pending request is one whose task works.
THEOREM PairingTypes == Spec => []TypeOK
<1>1. PairingInv => TypeOK
  BY DEF PairingInv
<1> QED
  BY <1>1, PairingInvariant, PTL

\* A ceremony of windows_pair is only given the passkey that was entered for it, and
\* whose submission submit_pin accepted.
THEOREM PasskeyOwn == Spec => []PasskeyIsOwn
<1>1. PairingInv => PasskeyIsOwn
  BY DEF PairingInv
<1> QED
  BY <1>1, PairingInvariant, PTL

\* A passkey that submit_pin accepted is used, unless request_pin timed out at that
\* very moment.
THEOREM AcceptedUsed == Spec => []AcceptedIsUsed
<1>1. ASSUME PairingInv PROVE AcceptedIsUsed
  <2> SUFFICES ASSUME NEW r \in Requests, r \in told.accepted, task[r] = "ended"
               PROVE  used[r] = r \/ outcome[r] = "timeout"
    BY DEF AcceptedIsUsed
  <2>1. sender[r] = "sent"
    BY <1>1 DEF PairingInv, SentIsAccepted
  <2>2. outcome[r] # None /\ outcome[r] # "cancelled"
    BY <1>1, <2>1 DEF PairingInv, OutcomeIsRight
  <2>3. CASE outcome[r] = "passkey"
    BY <1>1, <2>3 DEF PairingInv, GivenAtEnd
  <2> QED
    BY <1>1, <2>2, <2>3 DEF PairingInv, TypeOK
<1> QED
  BY <1>1, PairingInvariant, PTL

\* The status that request_pin shows is taken down before its task ends.
THEOREM ShownAlive == Spec => []ShownIsAlive
<1>1. PairingInv => ShownIsAlive
  BY DEF PairingInv, ShownIsWaiting, ShownIsAlive
<1> QED
  BY <1>1, PairingInvariant, PTL

=============================================================================
