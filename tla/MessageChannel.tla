--------------------------- MODULE MessageChannel ---------------------------
(***************************************************************************)
(* What the frame channel of a session promises to rpc.rs: the messages of *)
(* the device arrive whole and in order, each at most once.  Some may not  *)
(* arrive.                                                                 *)
(***************************************************************************)
EXTENDS Naturals, Sequences

CONSTANT Messages

VARIABLES
    sent,  \* messages of the device in this session
    got,   \* messages that have arrived
    last   \* position in sent of the last one that has arrived

Init == sent = <<>> /\ got = <<>> /\ last = 0

Send(m) == sent' = Append(sent, m) /\ UNCHANGED <<got, last>>

Arrive(n) ==
    /\ n > last
    /\ got' = Append(got, sent[n])
    /\ last' = n
    /\ UNCHANGED sent

\* A new session starts with nothing.
Restart == sent' = <<>> /\ got' = <<>> /\ last' = 0

Next ==
    \/ \E m \in Messages : Send(m)
    \/ \E n \in DOMAIN sent : Arrive(n)
    \/ Restart

Spec == Init /\ [][Next]_<<sent, got, last>>

=============================================================================
