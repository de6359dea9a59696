------------------------------- MODULE Framing -------------------------------
(***************************************************************************)
(* The v4 frames of protocol.rs: a message is cut into numbered frames, of  *)
(* which the first declares its length and checksum, and FrameAssembler     *)
(* puts the frames back together.  The header's bytes are the fields of a   *)
(* record; a frame whose header cannot be read is Garbage.                  *)
(***************************************************************************)
EXTENDS Integers, Sequences

CONSTANTS
    Units,       \* the data a payload is a sequence of
    First,       \* payload room of a start frame: frame_bytes - 14
    Rest,        \* payload room of the others: frame_bytes - 8
    MaxLength,   \* MAX_MESSAGE_BYTES (8192)
    SeqLimit,    \* how many sequence numbers there are (2^16)
    Crc(_)       \* the checksum (crc32)

ASSUME FramingAssumption ==
    /\ {First, MaxLength} \subseteq Nat
    /\ {Rest, SeqLimit} \subseteq Nat \ {0}

Kinds == {"request", "response", "event"}

-----------------------------------------------------------------------------
(* encode_message                                                          *)

\* Faulty FrameCount: a last frame that is not full is forgotten.
FrameCountDown(n) == IF n <= First THEN 1 ELSE 1 + (n - First) \div Rest

\* Frames of a payload of length n: the first takes First units, the others Rest.
FrameCount(n) == IF n <= First THEN 1 ELSE 1 + (n - First + Rest - 1) \div Rest

\* Units sent before frame f, counted from 0.
Offset(f) == IF f = 0 THEN 0 ELSE First + (f - 1) * Rest

\* Faulty Encodes: any number of frames will do.
EncodesLong(n) == n > 0 /\ n <= MaxLength

\* The sequence number is counted on after the last frame too.
Encodes(n) == n > 0 /\ n <= MaxLength /\ FrameCount(n) < SeqLimit

Smaller(m, n) == IF m < n THEN m ELSE n

Frame(m, f) == LET n == Len(m.payload) IN
    [bad |-> FALSE, kind |-> m.kind, id |-> m.id, sequence |-> f,
     start |-> f = 0,
     end |-> f + 1 = FrameCount(n),
     length |-> n,                \* read in a start frame only
     crc |-> Crc(m.payload),      \* read in a start frame only
     chunk |-> SubSeq(m.payload, Offset(f) + 1, Smaller(Offset(f + 1), n))]

Frames(m) == [f \in 1..FrameCount(Len(m.payload)) |-> Frame(m, f - 1)]

\* Bytes without a header.
Garbage == [bad |-> TRUE, kind |-> "event", id |-> 0, sequence |-> 0, start |-> FALSE,
            end |-> FALSE, length |-> 0, crc |-> 0, chunk |-> <<>>]

-----------------------------------------------------------------------------
(* FrameAssembler                                                          *)

\* FrameAssembler::clear
Cleared == [active |-> FALSE, old |-> FALSE, id |-> 0, kind |-> "request",
            next |-> 0, length |-> 0, crc |-> 0, payload |-> <<>>]

\* What a start frame makes of the assembler, whatever it was assembling.
Started(frame) ==
    [Cleared EXCEPT !.active = TRUE, !.id = frame.id, !.kind = frame.kind,
                    !.length = frame.length, !.crc = frame.crc]

\* Faulty Continues: a continuation is taken for its number alone.
ContinuesAny(a, frame) == a.next = frame.sequence

Continues(a, frame) ==
    a.active /\ a.id = frame.id /\ a.kind = frame.kind /\ a.next = frame.sequence

Extended(a, frame) ==
    [a EXCEPT !.next = (@ + 1) % SeqLimit, !.payload = @ \o frame.chunk]

\* Faulty Intact: the checksum is not compared.
IntactLength(a) == Len(a.payload) = a.length

Intact(a) == Len(a.payload) = a.length /\ Crc(a.payload) = a.crc

\* What feed returns: an error, nothing yet, or the message.
Fed(a, refused, messages) == [assembler |-> a, refused |-> refused, messages |-> messages]
Refused(a) == Fed(a, TRUE, <<>>)

\* The fragment itself, once the header is read and a start frame has started.
FeedFragment(a, frame) ==
    IF ~Continues(a, frame) THEN Refused(Cleared)
    ELSE LET b == Extended(a, frame) IN
         IF Len(b.payload) > b.length THEN Refused(Cleared)
         ELSE IF ~frame.end THEN Fed(b, FALSE, <<>>)
         ELSE IF ~Intact(b) THEN Refused(Cleared)
         ELSE Fed(Cleared, FALSE, <<[kind |-> b.kind, id |-> b.id, payload |-> b.payload]>>)

\* FrameAssembler::feed.  An assembly that is too old is given up, and the frame
\* that finds it so is lost with it.
Feed(a, frame) ==
    IF a.active /\ a.old THEN Refused(Cleared)
    ELSE IF frame.bad \/ (frame.start /\ frame.sequence # 0) THEN Refused(a)
    ELSE IF ~frame.start THEN FeedFragment(a, frame)
    ELSE IF frame.length = 0 \/ frame.length > MaxLength THEN Refused(Cleared)
    ELSE FeedFragment(Started(frame), frame)

=============================================================================
