--------------------------------- MODULE Rpc ---------------------------------
(***************************************************************************)
(* Requests over one device session (rpc.rs) and the part of the session    *)
(* loops of lan.rs and ble.rs that reads frames: an idle session handles    *)
(* the events that come, a request writes its frames and reads on until its *)
(* response is there, and every link error ends the session.                *)
(*                                                                         *)
(* The device is external: it answers a request it has received, may answer *)
(* it once more, and sends events when it likes, one message after the      *)
(* other.  BLE delivers a frame at a time and may lose some; LAN is a       *)
(* stream, read as a length and then a body.                                *)
(***************************************************************************)
EXTENDS Framing, FiniteSets

CONSTANTS
    Payloads,      \* payloads of the device's messages
    Requests,      \* lengths of the requests
    None,          \* nothing
    MaxSent,       \* bound: messages of the device in a session
    MaxCalls,      \* bound: requests in a session
    MaxWire,       \* bound: frames on their way
    MaxFaults,     \* bound: frames lost, assemblies that take too long, calls
                   \* that fail or time out, garbage read while idle
    MaxSessions    \* bound: sessions

ASSUME PayloadsAssumption ==
    /\ Payloads \subseteq Seq(Units)
    /\ \A p \in Payloads : Encodes(Len(p)) /\ Crc(p) \in Int
ASSUME BoundsAssumption ==
    /\ Requests \subseteq Nat
    /\ {MaxSent, MaxCalls, MaxWire, MaxFaults, MaxSessions} \subseteq Nat
    /\ MaxSessions > 0

\* Every frame of q is a frame of some payload.
Mixed(q) == \A f \in 0..FrameCount(Len(q)) - 1 : \E p \in Payloads :
    \A x \in Offset(f) + 1..Smaller(Offset(f + 1), Len(q)) : x <= Len(p) /\ q[x] = p[x]

\* The checksum tells a payload from data that was mixed out of several.
ASSUME ChecksumAssumption ==
    \A p \in Payloads : \A q \in [1..Len(p) -> Units] :
        Mixed(q) /\ Crc(q) = Crc(p) => q = p

VARIABLES
    lan,        \* the session's transport is LAN
    up,         \* the session is open
    call,       \* transact: the request under way
    calls,      \* requests made: next_id
    returned,   \* what transact last returned to its caller
    assembler,  \* FrameAssembler
    half,       \* read_frame has read a length and waits for the body
    astray,     \* the stream is read at a place where no frame begins
    wire,       \* frames on their way from the device
    asked,      \* the request the device has received and not answered
    answers,    \* the device's answer to each request
    sent,       \* messages of the device
    begun,      \* position in sent of the message whose start frame was last read
    got,        \* messages that feed has completed
    last,       \* position in sent of the last of them
    spent       \* bounds used up

reading == <<assembler, half, astray, wire, begun, got, last>>
device  == <<asked, answers, sent>>

vars == <<lan, up, call, calls, returned, reading, device, spent>>

Calm == [id |-> 0, left |-> 0]
Messages == [kind : {"response", "event"}, id : 0..MaxCalls, payload : Payloads]

\* A session whose handshake is over.
Opened ==
    /\ up' = TRUE
    /\ call' = Calm /\ calls' = 0 /\ returned' = None
    /\ assembler' = Cleared /\ half' = FALSE /\ astray' = FALSE /\ wire' = <<>>
    /\ begun' = 0 /\ got' = <<>> /\ last' = 0
    /\ asked' = 0 /\ answers' = [n \in 1..MaxCalls |-> None] /\ sent' = <<>>

Init ==
    /\ lan \in BOOLEAN
    /\ up = TRUE
    /\ call = Calm /\ calls = 0 /\ returned = None
    /\ assembler = Cleared /\ half = FALSE /\ astray = FALSE /\ wire = <<>>
    /\ begun = 0 /\ got = <<>> /\ last = 0
    /\ asked = 0 /\ answers = [n \in 1..MaxCalls |-> None] /\ sent = <<>>
    /\ spent = [faults |-> 0, sessions |-> 1]

Fault ==
    /\ spent.faults < MaxFaults
    /\ spent' = [spent EXCEPT !.faults = @ + 1]

-----------------------------------------------------------------------------
(* The device                                                              *)

\* Frames carry the position of their message in sent, for the history only.
Tagged(m, n) == [f \in 1..FrameCount(Len(m.payload)) |->
                    [frame |-> Frames(m)[f], of |-> n]]

DeviceSends(m) ==
    /\ up
    /\ Len(sent) < MaxSent
    /\ sent' = Append(sent, m)
    /\ wire' = wire \o Tagged(m, Len(sent) + 1)
    /\ Len(wire') <= MaxWire
    /\ UNCHANGED <<lan, up, call, calls, returned, assembler, half, astray,
                   begun, got, last, spent>>

Answer(n, p) == [kind |-> "response", id |-> n, payload |-> p]

DeviceAnswers ==
    /\ asked # 0
    /\ \E p \in Payloads :
         /\ DeviceSends(Answer(asked, p))
         /\ answers' = [answers EXCEPT ![asked] = p]
    /\ asked' = 0

DeviceRepeats == \E n \in 1..calls :
    /\ answers[n] # None
    /\ DeviceSends(Answer(n, answers[n]))
    /\ UNCHANGED <<asked, answers>>

DeviceEvent ==
    /\ \E p \in Payloads : DeviceSends([kind |-> "event", id |-> 0, payload |-> p])
    /\ UNCHANGED <<asked, answers>>

\* BLE: a notification does not arrive.
Lose ==
    /\ up /\ ~lan
    /\ Fault
    /\ \E f \in DOMAIN wire :
         wire' = [g \in 1..(Len(wire) - 1) |-> wire[IF g < f THEN g ELSE g + 1]]
    /\ UNCHANGED <<lan, up, call, calls, returned, assembler, half, astray,
                   begun, got, last, device>>

-----------------------------------------------------------------------------
(* transact                                                                *)

Free == up /\ call.id = 0

\* select! drops a read_frame that has read the length: the body is read as a
\* length next.
DropRead == astray' = (astray \/ half) /\ half' = FALSE

\* A request, or the heartbeat.  One that cannot be encoded uses up its id.  (Out of
\* place no request is answered any more, and the bound does not count them.)
Call ==
    /\ Free
    /\ calls < MaxCalls \/ astray
    /\ calls' = Smaller(calls + 1, MaxCalls)
    /\ \E n \in Requests :
         call' = IF Encodes(n) THEN [id |-> calls', left |-> FrameCount(n)] ELSE Calm
    /\ DropRead
    /\ UNCHANGED <<lan, up, returned, assembler, wire, begun, got, last, device, spent>>

\* The device has the request once its last frame is written.
WriteFrame ==
    /\ up /\ call.left > 0
    /\ call' = [call EXCEPT !.left = @ - 1]
    /\ asked' = IF call.left = 1 THEN call.id ELSE asked
    /\ UNCHANGED <<lan, up, calls, returned, reading, answers, sent, spent>>

\* Faulty EndSession: the caller gets its error and the session goes on.
KeepSession == call' = Calm /\ UNCHANGED <<up, half, wire>>

\* A link error: the caller gets it, and the loop ends the session.
EndSession ==
    /\ up' = FALSE
    /\ call' = Calm
    /\ wire' = <<>>
    /\ half' = FALSE

\* A write fails, or a write or the response takes too long.
CallFails ==
    /\ up /\ call.id # 0
    /\ Fault
    /\ EndSession
    /\ UNCHANGED <<lan, calls, returned, assembler, astray, begun, got, last, device>>

\* Out of place nothing may ever be read: the response takes too long.
CallTimesOut ==
    /\ up /\ call.id # 0
    /\ astray \/ (asked = 0 /\ wire = <<>> /\ call.left = 0)
    /\ EndSession
    /\ UNCHANGED <<lan, calls, returned, assembler, astray,
                   begun, got, last, device, spent>>

-----------------------------------------------------------------------------
(* Frames that arrive                                                      *)

\* LAN: the length of the next frame is there, its body is not.
ReadLength ==
    /\ up /\ lan /\ ~half /\ ~astray
    /\ call.left = 0
    /\ wire # <<>>
    /\ half' = TRUE
    /\ UNCHANGED <<lan, up, call, calls, returned, assembler, astray, wire, begun,
                   got, last, device, spent>>

\* Feeding a frame, and the messages it completes.
Fed1(frame, of) == LET fed == Feed(assembler, frame) IN
    /\ assembler' = fed.assembler
    /\ begun' = IF frame.start THEN of ELSE begun
    /\ got' = got \o fed.messages
    /\ last' = IF fed.messages = <<>> THEN last ELSE begun'

\* Faulty IsMine: the first response is taken.
IsAnyResponse(m) == m.kind = "response"

\* Of the responses only the one with the id of the request is taken.
IsMine(m) == m.kind = "response" /\ m.id = call.id

Returns(m) ==
    IF IsMine(m)
    THEN call' = Calm /\ returned' = [id |-> call.id, payload |-> m.payload]
    ELSE UNCHANGED <<call, returned>>

\* transact reads on: an error of feed is a link error.
ReadForCall == LET fed == Feed(assembler, Head(wire).frame) IN
    /\ up /\ ~astray
    /\ call.id # 0 /\ call.left = 0
    /\ wire # <<>>
    /\ Fed1(Head(wire).frame, Head(wire).of)
    /\ IF fed.refused
       THEN EndSession /\ UNCHANGED returned
       ELSE /\ wire' = Tail(wire)
            /\ half' = FALSE
            /\ IF fed.messages = <<>> THEN UNCHANGED <<call, returned>>
               ELSE Returns(fed.messages[1])
            /\ UNCHANGED up
    /\ UNCHANGED <<lan, calls, astray, device, spent>>

\* handle_frame in an idle session: an error is logged.
ReadIdle ==
    /\ Free /\ ~astray
    /\ wire # <<>>
    /\ Fed1(Head(wire).frame, Head(wire).of)
    /\ wire' = Tail(wire)
    /\ half' = FALSE
    /\ UNCHANGED <<lan, up, call, calls, returned, astray, device, spent>>

\* Out of place: the two bytes read as a length are outside the limits, which ends
\* the session...
ReadBadLength ==
    /\ up /\ astray
    /\ call.left = 0
    /\ EndSession
    /\ UNCHANGED <<lan, calls, returned, assembler, astray,
                   begun, got, last, device, spent>>

\* ...or bytes without a header are read as a frame.
ReadGarbage ==
    /\ up /\ astray
    /\ call.left = 0
    /\ wire # <<>>
    /\ Fault
    /\ Fed1(Garbage, 0)
    /\ IF call.id # 0 THEN EndSession ELSE UNCHANGED <<up, call, half, wire>>
    /\ UNCHANGED <<lan, calls, returned, astray, device>>

\* The frames of a message come slowly: five seconds since its first.
Age ==
    /\ up
    /\ assembler.active /\ ~assembler.old
    /\ Fault
    /\ assembler' = [assembler EXCEPT !.old = TRUE]
    /\ UNCHANGED <<lan, up, call, calls, returned, half, astray, wire,
                   begun, got, last, device>>

Reopen ==
    /\ ~up
    /\ spent.sessions < MaxSessions
    /\ spent' = [spent EXCEPT !.sessions = @ + 1]
    /\ Opened
    /\ lan' \in BOOLEAN

-----------------------------------------------------------------------------
Agent ==
    \/ Call \/ WriteFrame \/ CallFails \/ CallTimesOut
    \/ ReadLength \/ ReadForCall \/ ReadIdle \/ ReadBadLength \/ ReadGarbage
    \/ Age \/ Reopen

Device == DeviceAnswers \/ DeviceRepeats \/ DeviceEvent \/ Lose

Next == Agent \/ Device

Spec == Init /\ [][Next]_vars

-----------------------------------------------------------------------------
(* The heartbeat's timer fires again and again, a write goes on or takes too *)
(* long, and so does a wait.                                               *)
Fairness == WF_vars(Call /\ call'.id # 0) /\ WF_vars(WriteFrame) /\ WF_vars(CallTimesOut)

FairSpec == Spec /\ Fairness

-----------------------------------------------------------------------------
(* Types                                                                   *)

Assembler == [active : BOOLEAN, old : BOOLEAN, id : 0..MaxCalls, kind : Kinds,
              next : 0..SeqLimit - 1, length : 0..MaxLength, crc : Int,
              payload : Seq(Units)]

\* Every variable has its type; a request has no more frames than there are
\* sequence numbers, and an assembly no more data than it declared.
TypeOK ==
    /\ lan \in BOOLEAN /\ up \in BOOLEAN /\ half \in BOOLEAN /\ astray \in BOOLEAN
    /\ call \in [id : 0..MaxCalls, left : 0..SeqLimit - 1]
    /\ calls \in 0..MaxCalls
    /\ returned \in [id : 1..MaxCalls, payload : Payloads] \cup {None}
    /\ assembler \in Assembler
    /\ Len(assembler.payload) <= assembler.length
    /\ Len(wire) <= MaxWire
    /\ \A f \in DOMAIN wire : wire[f].of \in DOMAIN sent
    /\ asked \in 0..calls
    /\ answers \in [1..MaxCalls -> Payloads \cup {None}]
    /\ sent \in Seq(Messages) /\ Len(sent) <= MaxSent
    /\ got \in Seq(Messages)
    /\ begun \in 0..Len(sent)
    /\ last \in 0..begun
    /\ spent \in [faults : 0..MaxFaults, sessions : 1..MaxSessions]

-----------------------------------------------------------------------------
(* Safety                                                                  *)

\* What transact returns is what the device answered to that very request: no
\* late, repeated or mixed-up response is taken for it.
ReturnedIsAnswer == returned # None => returned.payload = answers[returned.id]

\* While nothing is lost or late, every message of the device is put together, by
\* transact or while idle, also when its frames come partly before a request.
NothingSkipped == up /\ ~astray /\ wire = <<>> /\ spent.faults = 0 => got = sent

\* The messages put together are messages the device sent in this session, whole,
\* in their order and at most once each, whatever frames were lost in between.
Channel == INSTANCE MessageChannel
ImplementsChannel == Channel!Spec

\* A session that has lost its place in the stream ends, at the latest with the
\* next heartbeat that can be sent.
AstrayEnds == astray ~> ~up

=============================================================================
