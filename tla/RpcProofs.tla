------------------------------ MODULE RpcProofs ------------------------------
(***************************************************************************)
(* The invariants of Rpc for any payloads, frame sizes, requests and        *)
(* bounds: types, that a caller gets the answer to its own request, that    *)
(* nothing is skipped as long as nothing is lost, and that the frames of a  *)
(* session implement MessageChannel.                                        *)
(***************************************************************************)
EXTENDS Rpc, SequenceTheorems, TLAPS

-----------------------------------------------------------------------------
(* Frames on their way.                                                    *)

WireFrame == [frame : [bad : {FALSE}, kind : Kinds, id : 0..MaxCalls, sequence : Nat,
                       start : BOOLEAN, end : BOOLEAN, length : Nat, crc : Int,
                       chunk : Seq(Units)],
              of : Nat]

\* The positions of the frames of a message.
Parts(m) == 0..FrameCount(Len(m.payload)) - 1

\* w is a frame of a message that the device has sent.
Genuine(w) ==
    /\ w.of \in DOMAIN sent
    /\ w.frame.sequence \in Parts(sent[w.of])
    /\ w.frame = Frame(sent[w.of], w.frame.sequence)

WireInv ==
    /\ wire \in Seq(WireFrame) /\ Len(wire) <= MaxWire
    /\ \A g \in DOMAIN wire : Genuine(wire[g])

\* v was sent before w.
Before(v, w) ==
    \/ v.of < w.of
    \/ v.of = w.of /\ v.frame.sequence < w.frame.sequence

\* Frames arrive in the order in which they were sent, and none of them twice.
OrderInv ==
    /\ \A g, h \in DOMAIN wire : g < h => Before(wire[g], wire[h])
    /\ \A g \in DOMAIN wire :
         /\ wire[g].of >= begun
         /\ wire[g].frame.sequence = 0 => wire[g].of > begun

-----------------------------------------------------------------------------
(* What is being put together.                                             *)

\* The data between two positions is that of p.
Agree(q, p, from, upto) == \A x \in from + 1..upto : x <= Len(p) /\ q[x] = p[x]

\* The assembly a is for the message m: it has as much data as its frames carry, each
\* frame that of some payload, and the data of a response is that of m.
Fits(a, m) ==
    /\ a \in Assembler /\ a.active
    /\ a.id = m.id /\ a.kind = m.kind
    /\ a.length = Len(m.payload) /\ a.crc = Crc(m.payload)
    /\ Len(a.payload) = Offset(a.next)
    /\ \A f \in 0..a.next - 1 :
         \E p \in Payloads : Agree(a.payload, p, Offset(f), Offset(f + 1))
    /\ m.kind = "response" => Agree(a.payload, m.payload, 0, Len(a.payload))

AssemblyInv ==
    /\ assembler.active =>
         /\ begun \in DOMAIN sent /\ begun > last
         /\ Fits(assembler, sent[begun])
         /\ Len(assembler.payload) <= assembler.length
    /\ ~assembler.active => assembler = Cleared

-----------------------------------------------------------------------------
(* Requests and answers.                                                   *)

\* The request under way is the last one, and only it can be with the device.
CallInv ==
    /\ call.id # 0 => call.id = calls
    /\ call.left > 0 => call.id # 0
    /\ astray => calls > 0
    /\ ~up => call = Calm
    /\ up /\ asked # 0 => asked = call.id /\ call.left = 0

\* The device has not answered the request under way.
Open == up /\ call.id # 0 /\ (call.left > 0 \/ asked # 0)

\* The responses sent are answers, which do not change: out of place, where request
\* numbers are not counted, nothing of this matters any more.
AnswerInv == ~astray =>
    /\ \A j \in DOMAIN sent : sent[j].kind = "response" =>
         /\ sent[j].id \in 1..calls
         /\ sent[j].payload = answers[sent[j].id]
         /\ Open => sent[j].id # call.id
    /\ \A n \in 1..MaxCalls : n > calls => answers[n] = None
    /\ Open => answers[call.id] = None

\* What was returned belongs to an earlier request than the one under way.
ReturnInv == returned # None =>
    /\ returned.id \in 1..calls
    /\ returned.payload = answers[returned.id]
    /\ call.id # 0 => returned.id # call.id
    /\ astray => returned.id < calls

-----------------------------------------------------------------------------
(* Nothing is lost.                                                        *)

\* w comes directly after v.
Next1(v, w) ==
    IF v.frame.end
    THEN w.of = v.of + 1 /\ w.frame.sequence = 0
    ELSE w.of = v.of /\ w.frame.sequence = v.frame.sequence + 1

\* What has arrived, is being put together and is on its way is all that was sent.
InStep ==
    /\ Len(got) <= Len(sent) /\ \A j \in DOMAIN got : got[j] = sent[j]
    /\ ~assembler.old
    /\ assembler.active =>
         /\ begun = Len(got) + 1
         /\ Agree(assembler.payload, sent[begun].payload, 0, Len(assembler.payload))
    /\ wire = <<>> => ~assembler.active /\ Len(got) = Len(sent)
    /\ wire # <<>> =>
         /\ wire[1].of = Len(got) + 1
         /\ wire[1].frame.sequence = assembler.next
         /\ \A g \in 1..Len(wire) - 1 : Next1(wire[g], wire[g + 1])
         /\ wire[Len(wire)].frame.end
         /\ wire[Len(wire)].of = Len(sent)

StreamInv == up /\ ~astray /\ spent.faults = 0 => InStep

\* The types, but for what the checksum alone says of the messages put together.
Received == [kind : Kinds, id : 0..MaxCalls, payload : Seq(Units)]

SessionOK ==
    /\ lan \in BOOLEAN /\ up \in BOOLEAN /\ half \in BOOLEAN /\ astray \in BOOLEAN
    /\ spent \in [faults : 0..MaxFaults, sessions : 1..MaxSessions]

CallOK ==
    /\ call \in [id : 0..MaxCalls, left : 0..SeqLimit - 1]
    /\ calls \in 0..MaxCalls
    /\ returned \in [id : 1..MaxCalls, payload : Payloads] \cup {None}
    /\ asked \in 0..calls
    /\ answers \in [1..MaxCalls -> Payloads \cup {None}]

MessagesOK ==
    /\ sent \in Seq(Messages) /\ Len(sent) <= MaxSent
    /\ got \in Seq(Received)
    /\ begun \in 0..Len(sent)
    /\ last \in 0..begun

RpcInv ==
    /\ SessionOK /\ CallOK /\ MessagesOK
    /\ WireInv /\ OrderInv /\ AssemblyInv
    /\ CallInv /\ AnswerInv /\ ReturnInv /\ StreamInv

-----------------------------------------------------------------------------
(* Frames of a payload.                                                    *)

\* Frame f of a payload of length n ends here.
Upto(f, n) == Smaller(Offset(f + 1), n)

LEMMA Division ==
  ASSUME NEW a \in Int, NEW b \in Nat \ {0}
  PROVE  /\ a \div b \in Int
         /\ (a \div b) * b <= a
         /\ a < (a \div b) * b + b
  OBVIOUS

LEMMA Times ==
  ASSUME NEW j \in Int, NEW k \in Int, NEW b \in Nat, j <= k
  PROVE  j * b \in Int /\ k * b \in Int /\ j * b <= k * b
  OBVIOUS

\* Frames begin one behind the other.
LEMMA Offsets ==
  ASSUME NEW f \in Nat
  PROVE  /\ Offset(f) \in Nat /\ Offset(f + 1) \in Nat
         /\ Offset(f) <= Offset(f + 1)
         /\ f > 0 => Offset(f) = First + (f - 1) * Rest
         /\ Offset(0) = 0
<1>1. First \in Nat /\ Rest \in Nat
  BY FramingAssumption
<1>2. f * Rest \in Nat /\ (f > 0 => (f - 1) * Rest \in Nat /\ (f - 1) * Rest <= f * Rest)
  BY <1>1, Times
<1>3. Offset(f + 1) = First + f * Rest
  BY <1>1 DEF Offset
<1>4. Offset(f) = IF f = 0 THEN 0 ELSE First + (f - 1) * Rest
  BY DEF Offset
<1> QED
  BY <1>1, <1>2, <1>3, <1>4 DEF Offset

LEMMA OffsetsGrow ==
  ASSUME NEW f \in Nat, NEW g \in 0..f
  PROVE  Offset(g) <= Offset(f)
<1>1. CASE g = 0
  BY <1>1, Offsets
<1>2. CASE g > 0
  <2>1. First \in Nat /\ Rest \in Nat
    BY FramingAssumption
  <2>2. (g - 1) * Rest <= (f - 1) * Rest /\ (g - 1) * Rest \in Int /\ (f - 1) * Rest \in Int
    BY <2>1, Times
  <2>3. Offset(g) = First + (g - 1) * Rest /\ Offset(f) = First + (f - 1) * Rest
    BY <1>2, Offsets
  <2> QED
    BY <2>1, <2>2, <2>3
<1> QED
  BY <1>1, <1>2

\* All frames but the last are full, and the last ends with the payload.
LEMMA FrameRoom ==
  ASSUME NEW n \in Nat \ {0}
  PROVE  /\ FrameCount(n) \in Nat \ {0}
         /\ \A f \in 0..FrameCount(n) - 1 :
              /\ Offset(f) \in 0..n /\ Upto(f, n) \in Offset(f)..n
              /\ Upto(f, n) = IF f + 1 = FrameCount(n) THEN n ELSE Offset(f + 1)
<1>1. First \in Nat /\ Rest \in Nat \ {0}
  BY FramingAssumption
<1>2. CASE n <= First
  <2>1. FrameCount(n) = 1
    BY <1>2 DEF FrameCount
  <2>2. Offset(0) = 0 /\ Offset(1) = First + 0 * Rest
    BY <1>1 DEF Offset
  <2>3. Upto(0, n) = n
    BY <1>1, <1>2, <2>2 DEF Upto, Smaller
  <2> QED
    BY <2>1, <2>2, <2>3
<1>3. CASE n > First
  <2> DEFINE k == (n - First + Rest - 1) \div Rest
  <2>1. k \in Int /\ k * Rest <= n - First + Rest - 1 /\ n - First + Rest - 1 < k * Rest + Rest
    BY <1>1, Division
  <2>2. FrameCount(n) = 1 + k
    BY <1>1, <1>3 DEF FrameCount
  <2> HIDE DEF k
  <2>3. k > 0
    <3> SUFFICES ASSUME k <= 0 PROVE FALSE
      BY <2>1
    <3>1. k * Rest <= 0 * Rest
      BY <1>1, <2>1, Times
    <3> QED
      BY <1>1, <1>3, <2>1, <3>1
  <2>4. (k - 1) * Rest = k * Rest - Rest
    BY <1>1, <2>1
  <2>5. ASSUME NEW f \in 0..k PROVE
          /\ Offset(f) \in 0..n /\ Upto(f, n) \in Offset(f)..n
          /\ Upto(f, n) = IF f = k THEN n ELSE Offset(f + 1)
    <3>1. Offset(f) \in Nat /\ Offset(f + 1) \in Nat /\ Offset(f) <= Offset(f + 1)
      BY Offsets
    <3>2. Offset(f + 1) = First + f * Rest
      BY <1>1 DEF Offset
    <3>3. f * Rest <= k * Rest
      BY <1>1, <2>1, Times
    <3>4. CASE f = k
      <4>1. Offset(f + 1) >= n
        BY <1>1, <2>1, <3>2, <3>4
      <4>2. Offset(f) = First + (k - 1) * Rest
        BY <2>3, <3>4, Offsets
      <4>3. Offset(f) <= n
        BY <1>1, <2>1, <2>4, <4>2
      <4> QED
        BY <3>1, <3>4, <4>1, <4>3 DEF Upto, Smaller
    <3>5. CASE f < k
      <4>1. f * Rest <= (k - 1) * Rest
        BY <1>1, <2>1, <3>5, Times
      <4>2. Offset(f + 1) <= n
        BY <1>1, <2>1, <2>4, <3>2, <4>1
      <4> QED
        BY <3>1, <3>5, <4>2 DEF Upto, Smaller
    <3> QED
      BY <2>1, <3>4, <3>5
  <2> QED
    BY <2>1, <2>2, <2>3, <2>5
<1> QED
  BY <1>1, <1>2, <1>3

\* A payload of the device has at least one unit, and fewer frames than there are
\* sequence numbers.
LEMMA PayloadTyped ==
  ASSUME NEW p \in Payloads
  PROVE  /\ p \in Seq(Units) /\ Len(p) \in Nat \ {0} /\ Len(p) <= MaxLength
         /\ FrameCount(Len(p)) \in 1..SeqLimit - 1
         /\ Crc(p) \in Int
<1>1. p \in Seq(Units) /\ Encodes(Len(p)) /\ Crc(p) \in Int
  BY PayloadsAssumption
<1>2. Len(p) \in Nat \ {0}
  BY <1>1, LenProperties DEF Encodes
<1> QED
  BY <1>1, <1>2, FrameRoom, FramingAssumption DEF Encodes

\* A frame carries its part of the payload.
LEMMA ChunkOf ==
  ASSUME NEW p \in Payloads, NEW f \in 0..FrameCount(Len(p)) - 1
  PROVE  LET c == SubSeq(p, Offset(f) + 1, Upto(f, Len(p))) IN
         /\ c \in Seq(Units)
         /\ Len(c) = Upto(f, Len(p)) - Offset(f)
         /\ \A x \in 1..Len(c) : c[x] = p[Offset(f) + x]
<1> DEFINE lo == Offset(f)  hi == Upto(f, Len(p))
<1>1. p \in Seq(Units) /\ Len(p) \in Nat \ {0}
  BY PayloadTyped
<1>2. lo \in 0..Len(p) /\ hi \in lo..Len(p)
  BY <1>1, FrameRoom
<1> HIDE DEF lo, hi
<1>3. /\ SubSeq(p, lo + 1, hi) \in Seq(Units)
      /\ Len(SubSeq(p, lo + 1, hi)) = hi - lo
      /\ \A x \in 1..hi - lo : SubSeq(p, lo + 1, hi)[x] = p[lo + x]
  BY <1>1, <1>2, SubSeqProperties
<1> QED
  BY <1>3 DEF lo, hi

-----------------------------------------------------------------------------
(* One frame                                                               *)

\* A message is its fields.
LEMMA MessageTyped ==
  ASSUME NEW m \in Messages
  PROVE  /\ m.kind \in Kinds /\ m.id \in 0..MaxCalls /\ m.payload \in Payloads
         /\ m = [kind |-> m.kind, id |-> m.id, payload |-> m.payload]
  BY DEF Messages, Kinds

\* What a frame of a message says.
LEMMA FrameTyped ==
  ASSUME NEW m \in Messages, NEW f \in Parts(m)
  PROVE  LET w == Frame(m, f)  n == Len(m.payload) IN
         /\ ~w.bad /\ w.kind = m.kind /\ w.id = m.id /\ w.sequence = f
         /\ w.start = (f = 0) /\ w.end = (f + 1 = FrameCount(n))
         /\ w.length = n /\ w.crc = Crc(m.payload)
         /\ w.chunk \in Seq(Units)
         /\ Len(w.chunk) = Upto(f, n) - Offset(f)
         /\ \A x \in 1..Len(w.chunk) : w.chunk[x] = m.payload[Offset(f) + x]
         /\ \A n1 \in Nat : [frame |-> w, of |-> n1] \in WireFrame
<1>1. m.payload \in Payloads /\ m.kind \in Kinds /\ m.id \in 0..MaxCalls
  BY MessageTyped
<1>2. Len(m.payload) \in Nat \ {0} /\ Crc(m.payload) \in Int /\ FrameCount(Len(m.payload)) \in Nat
  BY <1>1, PayloadTyped, FramingAssumption
<1>3. f \in Nat /\ f \in 0..FrameCount(Len(m.payload)) - 1
  BY <1>2 DEF Parts
<1> DEFINE c == SubSeq(m.payload, Offset(f) + 1, Upto(f, Len(m.payload)))
<1>4. /\ c \in Seq(Units) /\ Len(c) = Upto(f, Len(m.payload)) - Offset(f)
      /\ \A x \in 1..Len(c) : c[x] = m.payload[Offset(f) + x]
  BY <1>1, <1>3, ChunkOf
<1>5. Frame(m, f).chunk = c
  BY DEF Frame, Upto
<1> HIDE DEF c
<1>6. /\ ~Frame(m, f).bad /\ Frame(m, f).kind = m.kind /\ Frame(m, f).id = m.id
      /\ Frame(m, f).sequence = f /\ Frame(m, f).start = (f = 0)
      /\ Frame(m, f).end = (f + 1 = FrameCount(Len(m.payload)))
      /\ Frame(m, f).length = Len(m.payload) /\ Frame(m, f).crc = Crc(m.payload)
  BY DEF Frame
<1>7. \A n1 \in Nat : [frame |-> Frame(m, f), of |-> n1] \in WireFrame
  BY <1>1, <1>2, <1>3, <1>4, <1>5 DEF Frame, WireFrame
<1> QED
  BY <1>4, <1>5, <1>6, <1>7

\* One sequence behind the other.
LEMMA Joined ==
  ASSUME NEW S, NEW s \in Seq(S), NEW t \in Seq(S), NEW lo \in Nat, NEW hi \in Nat,
         Len(s) = lo, Len(t) = hi - lo, lo <= hi
  PROVE  /\ s \o t \in Seq(S) /\ Len(s \o t) = hi
         /\ \A x \in 1..lo : (s \o t)[x] = s[x]
         /\ \A x \in lo + 1..hi : (s \o t)[x] = t[x - lo]
<1>1. s \o t \in Seq(S) /\ Len(s \o t) = Len(s) + Len(t)
  BY ConcatProperties
<1>2. \A x \in 1..Len(s) + Len(t) :
        (s \o t)[x] = IF x <= Len(s) THEN s[x] ELSE t[x - Len(s)]
  BY ConcatProperties
<1> QED
  BY <1>1, <1>2

\* b is the assembly a with frame f of s.
ExtendedBy(b, a, s, f) ==
    /\ b = [a EXCEPT !.next = f + 1, !.payload = b.payload]
    /\ a.next = f /\ f + 1 \in 1..SeqLimit - 1
    /\ b.payload \in Seq(Units)
    /\ Len(b.payload) = Upto(f, Len(s.payload))
    /\ \A x \in 1..Offset(f) : b.payload[x] = a.payload[x]
    /\ Agree(b.payload, s.payload, Offset(f), Len(b.payload))

\* A frame that continues an assembly extends its data.
LEMMA Extension ==
  ASSUME NEW a, NEW m \in Messages, Fits(a, m), NEW s \in Messages, NEW f \in Parts(s),
         Continues(a, Frame(s, f))
  PROVE  /\ ExtendedBy(Extended(a, Frame(s, f)), a, s, f)
         /\ s.kind = m.kind /\ s.id = m.id
<1> DEFINE n == Len(s.payload)  c == Frame(s, f).chunk  lo == Offset(f)  hi == Upto(f, n)
<1>1. s.payload \in Payloads
  BY MessageTyped
<1>2. n \in Nat \ {0} /\ FrameCount(n) \in 1..SeqLimit - 1 /\ SeqLimit \in Nat
  BY <1>1, PayloadTyped, FramingAssumption
<1>3. f \in 0..FrameCount(n) - 1 /\ f + 1 \in 1..SeqLimit - 1
  BY <1>2 DEF Parts
<1>4. c \in Seq(Units) /\ Len(c) = hi - lo /\ \A x \in 1..Len(c) : c[x] = s.payload[lo + x]
  BY FrameTyped
<1>5. lo \in 0..n /\ hi \in lo..n
  BY <1>2, <1>3, FrameRoom
<1>6. a.next = f /\ a.id = s.id /\ a.kind = s.kind
  BY FrameTyped DEF Continues
<1>7. a.payload \in Seq(Units) /\ Len(a.payload) = lo /\ a.id = m.id /\ a.kind = m.kind
  BY <1>6 DEF Fits, Assembler
<1>8. (f + 1) % SeqLimit = f + 1
  BY <1>2, <1>3
<1>9. Extended(a, Frame(s, f)) = [a EXCEPT !.next = f + 1, !.payload = a.payload \o c]
  BY <1>6, <1>8 DEF Extended, Fits, Assembler
<1>10. Extended(a, Frame(s, f)).payload = a.payload \o c
  BY <1>9 DEF Fits, Assembler
<1> HIDE DEF c, lo, hi, n
<1>11. /\ a.payload \o c \in Seq(Units) /\ Len(a.payload \o c) = hi
       /\ \A x \in 1..lo : (a.payload \o c)[x] = a.payload[x]
       /\ \A x \in lo + 1..hi : (a.payload \o c)[x] = c[x - lo]
  <2>1. lo \in Nat /\ hi \in Nat /\ lo <= hi
    BY <1>2, <1>5
  <2>2. a.payload \in Seq(Units) /\ Len(a.payload) = lo
    BY <1>7
  <2> QED
    BY <1>4, <2>1, <2>2, Joined
<1>12. \A x \in lo + 1..hi : x <= Len(s.payload) /\ (a.payload \o c)[x] = s.payload[x]
  <2> SUFFICES ASSUME NEW x \in lo + 1..hi
               PROVE  x <= Len(s.payload) /\ (a.payload \o c)[x] = s.payload[x]
    OBVIOUS
  <2>1. lo \in Nat /\ hi \in Nat /\ lo <= hi /\ hi <= n /\ n \in Nat
    BY <1>2, <1>5
  <2>2. x - lo \in 1..Len(c) /\ lo + (x - lo) = x
    BY <1>4, <2>1
  <2>3. c[x - lo] = s.payload[x]
    BY <1>4, <2>2
  <2>4. (a.payload \o c)[x] = c[x - lo]
    BY <1>11
  <2> QED
    BY <2>1, <2>3, <2>4 DEF n
<1>13. Agree(a.payload \o c, s.payload, lo, hi)
  BY <1>12 DEF Agree
<1>14. /\ Extended(a, Frame(s, f)) = [a EXCEPT !.next = f + 1, !.payload = a.payload \o c]
       /\ Extended(a, Frame(s, f)).payload = a.payload \o c
  BY <1>9, <1>10 DEF c
<1> QED
  BY <1>3, <1>6, <1>7, <1>11, <1>13, <1>14 DEF ExtendedBy, lo, hi, n

-----------------------------------------------------------------------------
(* Feeding a frame                                                         *)

\* A start frame begins an assembly for its message.
LEMMA StartFits ==
  ASSUME NEW s \in Messages, 0 \in Parts(s)
  PROVE  /\ Fits(Started(Frame(s, 0)), s)
         /\ Continues(Started(Frame(s, 0)), Frame(s, 0))
<1> DEFINE w == Frame(s, 0)  n == Len(s.payload)
<1>1. /\ w.kind = s.kind /\ w.id = s.id /\ w.sequence = 0 /\ w.length = n
      /\ w.crc = Crc(s.payload)
  BY FrameTyped
<1>2. s.payload \in Payloads /\ s.kind \in Kinds /\ s.id \in 0..MaxCalls
  BY MessageTyped
<1>3. n \in 0..MaxLength /\ Crc(s.payload) \in Int /\ SeqLimit \in Nat \ {0} /\ MaxLength \in Nat
  BY <1>2, PayloadTyped, FramingAssumption
<1> HIDE DEF w, n
<1>4. /\ Cleared.next = 0 /\ Cleared.payload = <<>>
      /\ Cleared \in Assembler
  BY <1>3, EmptySeq, BoundsAssumption DEF Cleared, Assembler, Kinds
<1>5. Started(w) = [Cleared EXCEPT !.active = TRUE, !.id = s.id, !.kind = s.kind,
                                   !.length = n, !.crc = Crc(s.payload)]
  BY <1>1 DEF Started
<1>6. /\ Started(w) \in Assembler
      /\ Started(w).active /\ Started(w).id = s.id /\ Started(w).kind = s.kind
      /\ Started(w).next = 0 /\ Started(w).length = n /\ Started(w).crc = Crc(s.payload)
      /\ Started(w).payload = <<>>
  BY <1>2, <1>3, <1>4, <1>5 DEF Assembler
<1>7. Len(Started(w).payload) = Offset(Started(w).next)
  BY <1>6 DEF Offset
<1>8. \A f \in 0..Started(w).next - 1 :
        \E p \in Payloads : Agree(Started(w).payload, p, Offset(f), Offset(f + 1))
  BY <1>6
<1>9. Agree(Started(w).payload, s.payload, 0, Len(Started(w).payload))
  BY <1>6 DEF Agree
<1>10. Fits(Started(w), s)
  BY <1>6, <1>7, <1>8, <1>9 DEF Fits, n
<1> QED
  BY <1>1, <1>6, <1>10 DEF Continues, w

\* The two are one response, or different messages.
SameAnswer(s, m) == s.kind = "response" /\ m.kind = "response" /\ s.id = m.id =>
    s.payload = m.payload

\* An assembly whose message is not complete yet still fits it.
LEMMA Grows ==
  ASSUME NEW a, NEW m \in Messages, Fits(a, m), NEW s \in Messages, NEW f \in Parts(s),
         Continues(a, Frame(s, f)), SameAnswer(s, m), f + 1 # FrameCount(Len(s.payload))
  PROVE  Fits(Extended(a, Frame(s, f)), m)
<1> DEFINE b == Extended(a, Frame(s, f))  q == b.payload
<1>1. /\ ExtendedBy(b, a, s, f)
      /\ s.kind = m.kind /\ s.id = m.id
  BY Extension
<1>2. s.payload \in Payloads /\ Len(s.payload) \in Nat \ {0}
  BY MessageTyped, PayloadTyped
<1>3. f \in Nat /\ Len(q) = Offset(f + 1) /\ Offset(f) \in Nat /\ Offset(f + 1) \in Nat
  BY <1>1, <1>2, FrameRoom, Offsets DEF Parts, ExtendedBy
<1> HIDE DEF q, b
<1>4. /\ a \in Assembler /\ a.active /\ a.id = m.id /\ a.kind = m.kind
      /\ a.length = Len(m.payload) /\ a.crc = Crc(m.payload) /\ Len(a.payload) = Offset(f)
      /\ \A g \in 0..f - 1 :
           \E p \in Payloads : Agree(a.payload, p, Offset(g), Offset(g + 1))
      /\ m.kind = "response" => Agree(a.payload, m.payload, 0, Len(a.payload))
  BY <1>1 DEF Fits, ExtendedBy
<1>5. /\ b \in Assembler /\ b.active /\ b.id = m.id /\ b.kind = m.kind
      /\ b.length = Len(m.payload) /\ b.crc = Crc(m.payload)
      /\ b.next = f + 1 /\ b.payload = q
  <2>1. /\ b = [a EXCEPT !.next = f + 1, !.payload = q]
        /\ f + 1 \in 0..SeqLimit - 1 /\ q \in Seq(Units)
    BY <1>1 DEF ExtendedBy, q
  <2>2. a \in Assembler
    BY <1>4
  <2>3. /\ b \in Assembler
        /\ b.active = a.active /\ b.id = a.id /\ b.kind = a.kind
        /\ b.length = a.length /\ b.crc = a.crc /\ b.next = f + 1 /\ b.payload = q
    BY <2>1, <2>2 DEF Assembler
  <2> QED
    BY <1>4, <2>3
<1>6. ASSUME NEW g \in 0..f PROVE
        \E p \in Payloads : Agree(q, p, Offset(g), Offset(g + 1))
  <2>1. CASE g = f
    BY <1>1, <1>2, <1>3, <2>1 DEF ExtendedBy, q
  <2>2. CASE g < f
    <3>1. PICK p \in Payloads : Agree(a.payload, p, Offset(g), Offset(g + 1))
      BY <1>3, <1>4, <2>2
    <3>2. Offset(g) \in Nat /\ Offset(g + 1) \in Nat /\ Offset(g + 1) <= Offset(f)
      <4>1. g \in Nat /\ g + 1 \in 0..f
        BY <1>3, <2>2
      <4> QED
        BY <1>3, <4>1, OffsetsGrow, Offsets
    <3> QED
      BY <1>1, <1>3, <3>1, <3>2 DEF Agree, ExtendedBy, q
  <2> QED
    BY <1>3, <2>1, <2>2
<1>7. m.kind = "response" => Agree(q, m.payload, 0, Len(q))
  <2> SUFFICES ASSUME m.kind = "response" PROVE Agree(q, m.payload, 0, Len(q))
    OBVIOUS
  <2>1. s.payload = m.payload
    BY <1>1 DEF SameAnswer
  <2>2. Agree(a.payload, m.payload, 0, Offset(f))
    BY <1>4
  <2> QED
    BY <1>1, <1>3, <2>1, <2>2 DEF Agree, ExtendedBy, q
<1>8. b.next - 1 = f
  BY <1>3, <1>5
<1>9. Fits(b, m)
  BY <1>3, <1>5, <1>6, <1>7, <1>8 DEF Fits
<1> QED
  BY <1>9 DEF b

\* What a complete assembly for m hands on: a mixture of frames of payloads, with the
\* length and checksum of m; a response is m itself.
Completed(q, m) ==
    /\ q \in Seq(Units) /\ Len(q) = Len(m.payload) /\ Crc(q) = Crc(m.payload)
    /\ Mixed(q)
    /\ m.kind = "response" => q = m.payload

LEMMA Completes ==
  ASSUME NEW a, NEW m \in Messages, Fits(a, m), NEW s \in Messages, NEW f \in Parts(s),
         Continues(a, Frame(s, f)), SameAnswer(s, m), f + 1 = FrameCount(Len(s.payload)),
         Intact(Extended(a, Frame(s, f)))
  PROVE  LET b == Extended(a, Frame(s, f)) IN
         b.kind = m.kind /\ b.id = m.id /\ Completed(b.payload, m)
<1> DEFINE b == Extended(a, Frame(s, f))  q == b.payload  n == Len(m.payload)
<1>1. ExtendedBy(b, a, s, f) /\ s.kind = m.kind /\ s.id = m.id
  BY Extension
<1>2. s.payload \in Payloads /\ Len(s.payload) \in Nat \ {0}
  BY MessageTyped, PayloadTyped
<1>3. m.payload \in Payloads /\ m.payload \in Seq(Units) /\ n \in Nat \ {0}
  BY MessageTyped, PayloadTyped
<1>4. f \in Nat /\ Len(q) = Len(s.payload) /\ Offset(f) \in Nat /\ Offset(f) <= Len(q)
  BY <1>1, <1>2, FrameRoom, Offsets DEF Parts, ExtendedBy
<1>5. Len(q) = b.length /\ Crc(q) = b.crc
  BY DEF Intact
<1> HIDE DEF q, b
<1>6. /\ a \in Assembler /\ a.id = m.id /\ a.kind = m.kind
      /\ a.length = n /\ a.crc = Crc(m.payload) /\ Len(a.payload) = Offset(f)
      /\ \A g \in 0..f - 1 :
           \E p \in Payloads : Agree(a.payload, p, Offset(g), Offset(g + 1))
      /\ m.kind = "response" => Agree(a.payload, m.payload, 0, Len(a.payload))
  BY <1>1 DEF Fits, ExtendedBy
<1>7. /\ b.id = m.id /\ b.kind = m.kind /\ b.length = n /\ b.crc = Crc(m.payload)
  <2>1. b = [a EXCEPT !.next = f + 1, !.payload = q]
    BY <1>1 DEF ExtendedBy, q
  <2> QED
    BY <1>6, <2>1 DEF Assembler
<1>8. /\ q \in Seq(Units) /\ Len(q) = n /\ Len(s.payload) = n
      /\ \A x \in 1..Offset(f) : q[x] = a.payload[x]
      /\ Agree(q, s.payload, Offset(f), n)
  BY <1>1, <1>4, <1>5, <1>7 DEF ExtendedBy, q
<1>9. ASSUME NEW g \in 0..FrameCount(Len(q)) - 1
      PROVE  \E p \in Payloads :
               \A x \in Offset(g) + 1..Smaller(Offset(g + 1), Len(q)) :
                  x <= Len(p) /\ q[x] = p[x]
  <2>1. f = FrameCount(n) - 1 /\ FrameCount(n) \in Nat
    BY <1>3, <1>4, <1>8, FrameRoom
  <2>2. Smaller(Offset(g + 1), n) = IF g = f THEN n ELSE Offset(g + 1)
    <3>1. g \in 0..FrameCount(n) - 1 /\ (g + 1 = FrameCount(n)) = (g = f)
      BY <1>8, <2>1
    <3>2. Upto(g, n) = IF g + 1 = FrameCount(n) THEN n ELSE Offset(g + 1)
      BY <1>3, <3>1, FrameRoom
    <3>3. Upto(g, n) = IF g = f THEN n ELSE Offset(g + 1)
      BY <3>1, <3>2
    <3> QED
      BY <3>3 DEF Upto
  <2>3. CASE g = f
    BY <1>2, <1>8, <2>2, <2>3 DEF Agree
  <2>4. CASE g < f
    <3>1. PICK p \in Payloads : Agree(a.payload, p, Offset(g), Offset(g + 1))
      BY <1>4, <1>6, <2>4
    <3>2. Offset(g) \in Nat /\ Offset(g + 1) \in Nat /\ Offset(g + 1) <= Offset(f)
      <4>1. g \in Nat /\ g + 1 \in 0..f
        BY <1>4, <2>4
      <4> QED
        BY <1>4, <4>1, OffsetsGrow, Offsets
    <3>3. Smaller(Offset(g + 1), Len(q)) = Offset(g + 1)
      BY <1>8, <2>2, <2>4
    <3>4. \A x \in Offset(g) + 1..Offset(g + 1) : x <= Len(p) /\ q[x] = p[x]
      BY <1>4, <1>8, <3>1, <3>2 DEF Agree
    <3> QED
      BY <3>3, <3>4
  <2> QED
    BY <1>8, <2>1, <2>3, <2>4
<1>10. ASSUME m.kind = "response" PROVE q = m.payload
  <2>1. s.payload = m.payload
    BY <1>1, <1>10 DEF SameAnswer
  <2>2. \A x \in 1..n : q[x] = m.payload[x]
    BY <1>3, <1>4, <1>6, <1>8, <1>10, <2>1 DEF Agree
  <2> QED
    BY <1>3, <1>8, <2>2, SeqEqual
<1>11. Mixed(q)
  BY <1>9 DEF Mixed
<1>12. Completed(q, m)
  BY <1>5, <1>7, <1>8, <1>10, <1>11 DEF Completed
<1> QED
  BY <1>7, <1>12 DEF q, b

\* With the checksum it is m in any case.
LEMMA CompletedIs ==
  ASSUME NEW m \in Messages, NEW q, Completed(q, m)
  PROVE  q = m.payload
<1>1. m.payload \in Payloads
  BY MessageTyped
<1>2. q \in [1..Len(m.payload) -> Units]
  BY DEF Completed
<1> QED
  BY <1>1, <1>2, ChecksumAssumption DEF Completed

\* What an assembly for m, or none, becomes.
Assembling(a, m) ==
    \/ a = Cleared
    \/ a.active /\ Fits(a, m) /\ Len(a.payload) <= a.length

\* A fragment gives the message whole, or the assembly goes on or is given up.
FragmentGives(fed, m) ==
    \/ fed.messages = <<>> /\ Assembling(fed.assembler, m)
    \/ /\ ~fed.refused /\ fed.assembler = Cleared
       /\ \E q : Completed(q, m)
                 /\ fed.messages = <<[kind |-> m.kind, id |-> m.id, payload |-> q]>>

\* What feed gives: the message under way, or with a start frame its own.
FeedGives(fed, a, m, s, f) ==
    /\ f = 0 => FragmentGives(fed, s)
    /\ f # 0 /\ a.active => FragmentGives(fed, m)
    /\ f # 0 /\ ~a.active => fed = Refused(Cleared)

LEMMA RefusedFields ==
  ASSUME NEW a
  PROVE  Refused(a).assembler = a /\ Refused(a).refused /\ Refused(a).messages = <<>>
  BY DEF Fed, Refused

LEMMA ClearedFits ==
  ASSUME NEW m
  PROVE  FragmentGives(Refused(Cleared), m)
  BY RefusedFields DEF FragmentGives, Assembling

LEMMA FragmentStep ==
  ASSUME NEW a, NEW m \in Messages, Fits(a, m), NEW s \in Messages, NEW f \in Parts(s),
         SameAnswer(s, m)
  PROVE  FragmentGives(FeedFragment(a, Frame(s, f)), m)
<1> DEFINE w == Frame(s, f)  b == Extended(a, w)
<1>1. w.end = (f + 1 = FrameCount(Len(s.payload)))
  BY FrameTyped
<1>2. CASE ~Continues(a, w)
  BY <1>2, ClearedFits DEF FeedFragment
<1>3. CASE Continues(a, w) /\ Len(b.payload) > b.length
  BY <1>3, ClearedFits DEF FeedFragment
<1>4. CASE Continues(a, w) /\ ~(Len(b.payload) > b.length) /\ ~w.end
  <2>1. FeedFragment(a, w) = Fed(b, FALSE, <<>>)
    BY <1>4 DEF FeedFragment
  <2>2. Fits(b, m)
    BY <1>1, <1>4, Grows
  <2>3. b.active /\ Len(b.payload) <= b.length
    <3>1. b.active /\ b.payload \in Seq(Units) /\ b.length \in 0..MaxLength
      BY <2>2 DEF Fits, Assembler
    <3> QED
      BY <1>4, <3>1, LenProperties, FramingAssumption
  <2> QED
    <3>1. /\ FeedFragment(a, w).messages = <<>>
          /\ FeedFragment(a, w).assembler = b
      BY <2>1 DEF Fed
    <3> QED
      BY <2>2, <2>3, <3>1 DEF FragmentGives, Assembling
<1>5. CASE Continues(a, w) /\ ~(Len(b.payload) > b.length) /\ w.end /\ ~Intact(b)
  BY <1>5, ClearedFits DEF FeedFragment
<1>6. CASE Continues(a, w) /\ ~(Len(b.payload) > b.length) /\ w.end /\ Intact(b)
  <2>1. FeedFragment(a, w) =
          Fed(Cleared, FALSE, <<[kind |-> b.kind, id |-> b.id, payload |-> b.payload]>>)
    BY <1>6 DEF FeedFragment
  <2>2. b.kind = m.kind /\ b.id = m.id /\ Completed(b.payload, m)
    BY <1>1, <1>6, Completes
  <2> HIDE DEF b, w
  <2>3. FeedFragment(a, w) =
          Fed(Cleared, FALSE, <<[kind |-> m.kind, id |-> m.id, payload |-> b.payload]>>)
    BY <2>1, <2>2
  <2>4. FragmentGives(FeedFragment(a, w), m)
    <3>1. /\ FeedFragment(a, w).assembler = Cleared
          /\ ~FeedFragment(a, w).refused
          /\ FeedFragment(a, w).messages =
               <<[kind |-> m.kind, id |-> m.id, payload |-> b.payload]>>
      BY <2>3 DEF Fed
    <3> QED
      BY <2>2, <3>1 DEF FragmentGives
  <2> QED
    BY <2>4 DEF w
<1> QED
  BY <1>2, <1>3, <1>4, <1>5, <1>6

LEMMA FeedStep ==
  ASSUME NEW a, NEW m, a.active => m \in Messages /\ Fits(a, m),
         NEW s \in Messages, NEW f \in Parts(s), SameAnswer(s, m)
  PROVE  FeedGives(Feed(a, Frame(s, f)), a, m, s, f)
<1> DEFINE w == Frame(s, f)
<1>1. /\ ~w.bad /\ w.sequence = f /\ w.start = (f = 0) /\ w.length = Len(s.payload)
  BY FrameTyped
<1>2. s.payload \in Payloads
  BY MessageTyped
<1>3. ~(w.length = 0 \/ w.length > MaxLength)
  BY <1>1, <1>2, PayloadTyped, FramingAssumption
<1>4. CASE a.active /\ a.old
  <2>1. Feed(a, w) = Refused(Cleared)
    BY <1>4 DEF Feed
  <2> QED
    BY <2>1, ClearedFits DEF FeedGives
<1>5. CASE ~(a.active /\ a.old) /\ f # 0
  <2>1. Feed(a, w) = FeedFragment(a, w)
    BY <1>1, <1>5 DEF Feed
  <2>2. CASE a.active
    BY <1>5, <2>1, <2>2, FragmentStep DEF FeedGives
  <2>3. CASE ~a.active
    <3>1. ~Continues(a, w)
      BY <2>3 DEF Continues
    <3>2. Feed(a, w) = Refused(Cleared)
      BY <2>1, <3>1 DEF FeedFragment
    <3> QED
      BY <1>5, <2>3, <3>2 DEF FeedGives
  <2> QED
    BY <2>2, <2>3
<1>6. CASE ~(a.active /\ a.old) /\ f = 0
  <2>1. Feed(a, w) = FeedFragment(Started(w), w)
    BY <1>1, <1>3, <1>6 DEF Feed
  <2>2. Fits(Started(w), s) /\ SameAnswer(s, s)
    BY <1>6, StartFits DEF SameAnswer
  <2>3. FragmentGives(FeedFragment(Started(w), w), s)
    BY <2>2, FragmentStep
  <2> QED
    BY <1>6, <2>1, <2>3 DEF FeedGives
<1> QED
  BY <1>4, <1>5, <1>6

\* Bytes without a header give nothing.
LEMMA FeedGarbage ==
  ASSUME NEW a
  PROVE  /\ Feed(a, Garbage).messages = <<>>
         /\ Feed(a, Garbage).assembler \in {a, Cleared}
         /\ ~Garbage.start
<1>1. Garbage.bad /\ ~Garbage.start
  BY DEF Garbage
<1> QED
  BY <1>1, RefusedFields DEF Feed

-----------------------------------------------------------------------------
(* Frames on their way                                                     *)

\* The bounds are numbers.
LEMMA Bounds ==
  /\ MaxSent \in Nat /\ MaxCalls \in Nat /\ MaxWire \in Nat /\ MaxFaults \in Nat
  /\ MaxSessions \in Nat /\ MaxSessions > 0
  BY BoundsAssumption

\* The frames of a message that is sent.
LEMMA TaggedFrames ==
  ASSUME NEW m \in Messages, NEW n \in Nat
  PROVE  /\ Tagged(m, n) \in Seq(WireFrame)
         /\ Len(Tagged(m, n)) = FrameCount(Len(m.payload))
         /\ FrameCount(Len(m.payload)) \in Nat \ {0}
         /\ \A g \in 1..FrameCount(Len(m.payload)) :
              /\ g - 1 \in Parts(m)
              /\ Tagged(m, n)[g].of = n
              /\ Tagged(m, n)[g].frame = Frame(m, g - 1)
              /\ Tagged(m, n)[g].frame.sequence = g - 1
<1> DEFINE c == FrameCount(Len(m.payload))
<1>1. c \in Nat \ {0}
  BY MessageTyped, PayloadTyped, FramingAssumption
<1>2. Tagged(m, n) = [g \in 1..c |-> [frame |-> Frame(m, g - 1), of |-> n]]
  BY DEF Tagged, Frames
<1>3. \A g \in 1..c : g - 1 \in Parts(m)
  BY <1>1 DEF Parts
<1> HIDE DEF c
<1>4. ASSUME NEW g \in 1..c
      PROVE  /\ [frame |-> Frame(m, g - 1), of |-> n] \in WireFrame
             /\ Frame(m, g - 1).sequence = g - 1
  BY <1>3, FrameTyped
<1>5. Tagged(m, n) \in [1..c -> WireFrame]
  BY <1>2, <1>4
<1>6. Tagged(m, n) \in Seq(WireFrame) /\ Len(Tagged(m, n)) = c
  BY <1>1, <1>5, <1>2, SeqDef, LenProperties
<1>7. ASSUME NEW g \in 1..c
      PROVE  /\ Tagged(m, n)[g].of = n /\ Tagged(m, n)[g].frame = Frame(m, g - 1)
             /\ Tagged(m, n)[g].frame.sequence = g - 1
  BY <1>2, <1>4
<1> QED
  BY <1>1, <1>3, <1>6, <1>7 DEF c

\* What is sent stays.
LEMMA SentStays ==
  ASSUME sent \in Seq(Messages), NEW m \in Messages, sent' = Append(sent, m)
  PROVE  /\ sent' \in Seq(Messages) /\ Len(sent') = Len(sent) + 1 /\ Len(sent) \in Nat
         /\ DOMAIN sent = 1..Len(sent) /\ DOMAIN sent' = 1..Len(sent) + 1
         /\ \A j \in DOMAIN sent : sent'[j] = sent[j] /\ sent[j] \in Messages
         /\ sent'[Len(sent) + 1] = m
  BY AppendProperties, LenProperties, ElementOfSeq

\* Sending puts the frames of the message behind the others.
LEMMA WireGrows ==
  ASSUME sent \in Seq(Messages), WireInv, NEW m \in Messages, DeviceSends(m)
  PROVE  LET l == Len(wire)  c == FrameCount(Len(m.payload))  n == Len(sent) + 1 IN
         /\ wire' \in Seq(WireFrame) /\ l \in Nat /\ c \in Nat \ {0} /\ n \in Nat
         /\ DOMAIN wire = 1..l /\ DOMAIN wire' = 1..l + c /\ Len(wire') = l + c
         /\ \A g \in 1..l : wire'[g] = wire[g] /\ wire[g] \in WireFrame
         /\ \A g \in l + 1..l + c :
              /\ wire'[g].of = n /\ wire'[g].frame = Frame(m, g - l - 1)
              /\ g - l - 1 \in Parts(m)
              /\ wire'[g].frame.sequence = g - l - 1
<1> DEFINE l == Len(wire)  c == FrameCount(Len(m.payload))  n == Len(sent) + 1
           t == Tagged(m, n)
<1>1. wire \in Seq(WireFrame) /\ l \in Nat /\ n \in Nat /\ DOMAIN wire = 1..l
  BY LenProperties DEF WireInv
<1> HIDE DEF n
<1>2. /\ t \in Seq(WireFrame) /\ Len(t) = c /\ c \in Nat \ {0}
      /\ \A g \in 1..c :
              /\ g - 1 \in Parts(m)
              /\ t[g].of = n /\ t[g].frame = Frame(m, g - 1) /\ t[g].frame.sequence = g - 1
  <2>1. n \in Nat
    BY <1>1
  <2>2. t \in Seq(WireFrame) /\ Len(t) = c /\ c \in Nat \ {0}
    BY <2>1, TaggedFrames
  <2>3. ASSUME NEW g \in 1..c
        PROVE  /\ g - 1 \in Parts(m)
               /\ t[g].of = n /\ t[g].frame = Frame(m, g - 1) /\ t[g].frame.sequence = g - 1
    BY <2>1, <2>3, TaggedFrames
  <2> QED
    BY <2>2, <2>3
<1>3. wire' = wire \o t
  BY DEF DeviceSends, n
<1> HIDE DEF t, n, c, l
<1> DEFINE hi == l + c
<1>4. hi \in Nat /\ Len(wire) = l /\ Len(t) = hi - l /\ l <= hi
  BY <1>1, <1>2 DEF l
<1> HIDE DEF hi
<1>5. /\ wire' \in Seq(WireFrame) /\ Len(wire') = hi
      /\ \A g \in 1..l : wire'[g] = wire[g]
      /\ \A g \in l + 1..hi : wire'[g] = t[g - l]
  <2>1. wire \in Seq(WireFrame) /\ t \in Seq(WireFrame) /\ l \in Nat
    BY <1>1, <1>2
  <2>2. /\ wire \o t \in Seq(WireFrame) /\ Len(wire \o t) = hi
        /\ \A g \in 1..l : (wire \o t)[g] = wire[g]
        /\ \A g \in l + 1..hi : (wire \o t)[g] = t[g - l]
    BY <1>4, <2>1, Joined
  <2> QED
    BY <1>3, <2>2
<1>6. ASSUME NEW g \in l + 1..l + c
      PROVE  /\ wire'[g].of = n /\ wire'[g].frame = Frame(m, g - l - 1)
             /\ g - l - 1 \in Parts(m) /\ wire'[g].frame.sequence = g - l - 1
  <2>1. g - l \in 1..c
    BY <1>1, <1>2
  <2> QED
    BY <1>2, <1>5, <2>1 DEF hi
<1>7. \A g \in 1..l : wire[g] \in WireFrame
  BY <1>1, ElementOfSeq
<1>8. DOMAIN wire' = 1..l + c
  BY <1>5, LenProperties DEF hi
<1> QED
  BY <1>1, <1>2, <1>5, <1>6, <1>7, <1>8 DEF n, c, l, hi

\* A frame of a message sent before is one of the same message after.
LEMMA StaysGenuine ==
  ASSUME sent \in Seq(Messages), NEW m \in Messages, sent' = Append(sent, m),
         NEW w, Genuine(w)
  PROVE  Genuine(w)'
<1>1. /\ w.of \in DOMAIN sent /\ w.of \in DOMAIN sent'
      /\ sent'[w.of] = sent[w.of]
  BY SentStays DEF Genuine
<1> QED
  BY <1>1 DEF Genuine

LEMMA WireSend ==
  ASSUME MessagesOK, WireInv, OrderInv, NEW m \in Messages, DeviceSends(m)
  PROVE  WireInv' /\ OrderInv'
<1> DEFINE l == Len(wire)  c == FrameCount(Len(m.payload))  n == Len(sent) + 1
<1>1. /\ wire' \in Seq(WireFrame) /\ l \in Nat /\ c \in Nat \ {0} /\ n \in Nat
      /\ DOMAIN wire = 1..l /\ DOMAIN wire' = 1..l + c /\ Len(wire') = l + c
      /\ \A g \in 1..l : wire'[g] = wire[g] /\ wire[g] \in WireFrame
      /\ \A g \in l + 1..l + c :
           /\ wire'[g].of = n /\ wire'[g].frame = Frame(m, g - l - 1)
           /\ g - l - 1 \in Parts(m)
           /\ wire'[g].frame.sequence = g - l - 1
  BY WireGrows DEF MessagesOK
<1>2. sent' = Append(sent, m) /\ Len(wire') <= MaxWire /\ UNCHANGED begun
  BY DEF DeviceSends
<1>3. /\ DOMAIN sent' = 1..n /\ sent'[n] = m /\ DOMAIN sent = 1..n - 1
      /\ begun \in 0..n - 1
  BY <1>2, SentStays DEF MessagesOK
<1> HIDE DEF l, c, n
<1>4. \A g \in 1..l : wire[g].of \in 1..n - 1 /\ wire[g].frame.sequence \in Nat
  BY <1>1, <1>3 DEF WireInv, Genuine, WireFrame
<1>5. ASSUME NEW g \in 1..l + c PROVE Genuine(wire[g])'
  <2>1. CASE g \in 1..l
    <3>1. Genuine(wire[g])
      BY <1>1, <2>1 DEF WireInv
    <3>2. PICK w : w = wire[g]
      OBVIOUS
    <3>3. Genuine(w)'
      BY <1>2, <3>1, <3>2, StaysGenuine DEF MessagesOK
    <3> QED
      BY <1>1, <2>1, <3>2, <3>3
  <2>2. CASE g \in l + 1..l + c
    BY <1>1, <1>3, <2>2 DEF Genuine
  <2> QED
    BY <1>1, <2>1, <2>2
<1>6. WireInv'
  BY <1>1, <1>2, <1>5 DEF WireInv
<1>7. ASSUME NEW g \in 1..l + c, NEW h \in 1..l + c, g < h PROVE Before(wire[g], wire[h])'
  <2>1. CASE h \in 1..l
    <3>1. g \in DOMAIN wire /\ h \in DOMAIN wire
      BY <1>1, <1>7, <2>1
    <3>2. Before(wire[g], wire[h])
      BY <1>7, <3>1 DEF OrderInv
    <3> QED
      BY <1>1, <1>7, <2>1, <3>2 DEF Before
  <2>2. CASE g \in 1..l /\ h \in l + 1..l + c
    <3>1. wire'[g].of \in 1..n - 1 /\ wire'[h].of = n
      BY <1>1, <1>4, <2>2
    <3>2. wire'[g].of < wire'[h].of
      BY <1>1, <3>1
    <3> QED
      BY <3>2 DEF Before
  <2>3. CASE g \in l + 1..l + c /\ h \in l + 1..l + c
    BY <1>1, <1>7, <2>3 DEF Before
  <2> QED
    BY <1>1, <1>7, <2>1, <2>2, <2>3
<1>8. ASSUME NEW g \in 1..l + c
      PROVE  /\ wire'[g].of >= begun'
             /\ wire'[g].frame.sequence = 0 => wire'[g].of > begun'
  <2>1. CASE g \in 1..l
    BY <1>1, <1>2, <2>1 DEF OrderInv
  <2>2. CASE g \in l + 1..l + c
    BY <1>1, <1>2, <1>3, <2>2
  <2> QED
    BY <1>1, <2>1, <2>2
<1> QED
  BY <1>1, <1>6, <1>7, <1>8 DEF OrderInv

\* The first frame is read.
LEMMA WireHead ==
  ASSUME WireInv, wire # <<>>
  PROVE  /\ Len(wire) \in Nat \ {0} /\ DOMAIN wire = 1..Len(wire)
         /\ Head(wire) = wire[1] /\ Head(wire) \in WireFrame
         /\ Genuine(Head(wire))
         /\ Tail(wire) \in Seq(WireFrame) /\ Len(Tail(wire)) = Len(wire) - 1
         /\ DOMAIN Tail(wire) = 1..Len(wire) - 1
         /\ \A g \in 1..Len(wire) - 1 : Tail(wire)[g] = wire[g + 1]
<1>1. wire \in Seq(WireFrame)
  BY DEF WireInv
<1>2. Len(wire) \in Nat \ {0} /\ DOMAIN wire = 1..Len(wire)
  BY <1>1, EmptySeq, LenProperties
<1>3. Head(wire) = wire[1]
  BY <1>1 DEF Head
<1>4. /\ Head(wire) \in WireFrame /\ Tail(wire) \in Seq(WireFrame)
      /\ Len(Tail(wire)) = Len(wire) - 1
      /\ \A g \in 1..Len(Tail(wire)) : Tail(wire)[g] = wire[g + 1]
  BY <1>1, HeadTailProperties
<1> QED
  BY <1>2, <1>3, <1>4, LenProperties DEF WireInv

\* Frames behind the first come after it.
LEMMA WireTail ==
  ASSUME MessagesOK, WireInv, OrderInv, wire # <<>>, wire' = Tail(wire), UNCHANGED sent,
         begun' = IF Head(wire).frame.start THEN Head(wire).of ELSE begun
  PROVE  WireInv' /\ OrderInv'
<1> DEFINE l == Len(wire)
<1>1. /\ l \in Nat \ {0} /\ DOMAIN wire = 1..l /\ DOMAIN wire' = 1..l - 1
      /\ Head(wire) = wire[1] /\ Genuine(wire[1])
      /\ wire' \in Seq(WireFrame) /\ Len(wire') = l - 1
      /\ \A g \in 1..l - 1 : wire'[g] = wire[g + 1]
  BY WireHead
<1>2. \A g \in 1..l : wire[g] \in WireFrame
  BY <1>1, ElementOfSeq DEF WireInv
<1>3. wire[1].frame.start = (wire[1].frame.sequence = 0)
  <2>1. wire[1].of \in DOMAIN sent /\ sent[wire[1].of] \in Messages
    BY <1>1, LenProperties, ElementOfSeq DEF Genuine, MessagesOK
  <2> DEFINE s == sent[wire[1].of]  f == wire[1].frame.sequence
  <2>2. s \in Messages /\ f \in Parts(s) /\ wire[1].frame = Frame(s, f)
    BY <1>1, <2>1 DEF Genuine
  <2>3. Frame(s, f).start = (f = 0)
    BY <2>2, FrameTyped
  <2> QED
    BY <2>2, <2>3
<1> HIDE DEF l
<1>4. WireInv'
  <2>1. \A g \in 1..l - 1 : g + 1 \in 1..l /\ Genuine(wire[g + 1])
    BY <1>1 DEF WireInv
  <2>2. \A g \in 1..l - 1 : Genuine(wire[g])'
    BY <1>1, <2>1 DEF Genuine
  <2>3. l - 1 <= MaxWire
    BY <1>1, Bounds DEF WireInv, l
  <2> QED
    BY <1>1, <2>2, <2>3 DEF WireInv
<1>5. ASSUME NEW g \in 1..l - 1, NEW h \in 1..l - 1, g < h PROVE Before(wire[g], wire[h])'
  <2> DEFINE i == g + 1  j == h + 1
  <2>1. i \in DOMAIN wire /\ j \in DOMAIN wire /\ i < j
    BY <1>1, <1>5
  <2>2. wire'[g] = wire[i] /\ wire'[h] = wire[j]
    BY <1>1
  <2> HIDE DEF i, j
  <2>3. Before(wire[i], wire[j])
    BY <2>1 DEF OrderInv
  <2> QED
    BY <2>2, <2>3 DEF Before
<1>6. ASSUME NEW g \in 1..l - 1
      PROVE  /\ wire'[g].of >= begun'
             /\ wire'[g].frame.sequence = 0 => wire'[g].of > begun'
  <2>1. g + 1 \in 1..l /\ wire'[g] = wire[g + 1]
    BY <1>1
  <2>2. /\ wire[g + 1].of >= begun
        /\ wire[g + 1].frame.sequence = 0 => wire[g + 1].of > begun
    BY <1>1, <2>1 DEF OrderInv
  <2>3. Before(wire[1], wire[g + 1])
    BY <1>1, <2>1 DEF OrderInv
  <2>4. wire[1] \in WireFrame /\ wire[g + 1] \in WireFrame
    BY <1>1, <1>2, <2>1
  <2> QED
    <3>1. /\ wire[1].of \in Nat /\ wire[g + 1].of \in Nat
          /\ wire[1].frame.sequence \in Nat /\ wire[g + 1].frame.sequence \in Nat
      BY <2>4 DEF WireFrame
    <3>2. begun' = IF wire[1].frame.sequence = 0 THEN wire[1].of ELSE begun
      BY <1>1, <1>3
    <3>3. wire[1].frame.sequence = 0 =>
            /\ wire[g + 1].of >= wire[1].of
            /\ wire[g + 1].frame.sequence = 0 => wire[g + 1].of > wire[1].of
      BY <2>3, <3>1 DEF Before
    <3>4. /\ wire[g + 1].of >= begun'
          /\ wire[g + 1].frame.sequence = 0 => wire[g + 1].of > begun'
      BY <2>2, <3>2, <3>3
    <3> QED
      BY <2>1, <3>4
<1> QED
  BY <1>1, <1>4, <1>5, <1>6 DEF OrderInv

\* Frames are dropped: one of them, or all with their session.
LEMMA WireLoses ==
  ASSUME MessagesOK, WireInv, OrderInv, UNCHANGED <<sent, begun>>,
         \E f \in DOMAIN wire :
            wire' = [g \in 1..(Len(wire) - 1) |-> wire[IF g < f THEN g ELSE g + 1]]
  PROVE  WireInv' /\ OrderInv'
<1>1. PICK f \in DOMAIN wire :
        wire' = [g \in 1..(Len(wire) - 1) |-> wire[IF g < f THEN g ELSE g + 1]]
  OBVIOUS
<1> DEFINE l == Len(wire)  at(g) == IF g < f THEN g ELSE g + 1
<1>2. wire \in Seq(WireFrame) /\ l \in Nat /\ DOMAIN wire = 1..l /\ l <= MaxWire
  BY LenProperties DEF WireInv
<1>3. l > 0 /\ f \in 1..l
  BY <1>1, <1>2
<1>4. \A g \in 1..l - 1 : at(g) \in 1..l
  BY <1>2, <1>3
<1>5. \A g, h \in 1..l - 1 : g < h => at(g) < at(h)
  BY <1>2, <1>3
<1>6. \A g \in 1..l : wire[g] \in WireFrame
  BY <1>2, ElementOfSeq
<1>7. /\ wire' \in [1..l - 1 -> WireFrame]
      /\ \A g \in 1..l - 1 : wire'[g] = wire[at(g)]
  BY <1>1, <1>4, <1>6
<1>8. wire' \in Seq(WireFrame) /\ Len(wire') = l - 1 /\ DOMAIN wire' = 1..l - 1
  BY <1>2, <1>3, <1>7, SeqDef, LenProperties
<1> HIDE DEF l, at
<1>9. WireInv'
  <2>1. \A g \in 1..l - 1 : Genuine(wire[at(g)])
    BY <1>2, <1>4 DEF WireInv
  <2>2. \A g \in 1..l - 1 : Genuine(wire[g])'
    BY <1>7, <2>1 DEF Genuine
  <2>3. l - 1 <= MaxWire
    BY <1>2, Bounds
  <2> QED
    BY <1>8, <2>2, <2>3 DEF WireInv
<1>10. \A g, h \in 1..l - 1 : g < h => Before(wire[g], wire[h])'
  <2> SUFFICES ASSUME NEW g \in 1..l - 1, NEW h \in 1..l - 1, g < h
               PROVE  Before(wire[g], wire[h])'
    OBVIOUS
  <2>1. Before(wire[at(g)], wire[at(h)])
    BY <1>2, <1>4, <1>5 DEF OrderInv
  <2> QED
    BY <1>7, <2>1 DEF Before
<1>11. \A g \in 1..l - 1 :
         /\ wire'[g].of >= begun'
         /\ wire'[g].frame.sequence = 0 => wire'[g].of > begun'
  BY <1>2, <1>4, <1>7 DEF OrderInv
<1> QED
  BY <1>8, <1>9, <1>10, <1>11 DEF OrderInv

LEMMA WireEmpty ==
  ASSUME wire' = <<>>
  PROVE  WireInv' /\ OrderInv'
<1>1. wire' \in Seq(WireFrame) /\ Len(wire') = 0 /\ DOMAIN wire' = {}
  BY EmptySeq, LenProperties
<1> QED
  BY <1>1, Bounds DEF WireInv, OrderInv

LEMMA WireStays ==
  ASSUME WireInv, OrderInv, UNCHANGED <<wire, sent, begun>>
  PROVE  WireInv' /\ OrderInv'
  BY DEF WireInv, OrderInv, Genuine, Before

-----------------------------------------------------------------------------
(* Messages put together                                                   *)

\* Two responses of one session to one request are the same.
AnswersAgree == \A i, j \in DOMAIN sent : SameAnswer(sent[i], sent[j])

LEMMA OneAnswer ==
  ASSUME AnswerInv, ~astray
  PROVE  AnswersAgree
  BY DEF AnswerInv, AnswersAgree, SameAnswer

\* A message has arrived: that of the assembly.
Arrives ==
    /\ begun' \in DOMAIN sent /\ begun' > last /\ last' = begun'
    /\ \E q : /\ Completed(q, sent[begun'])
              /\ got' = Append(got, [kind |-> sent[begun'].kind, id |-> sent[begun'].id,
                                     payload |-> q])

NothingArrives == UNCHANGED <<got, last>>

\* The frame that is read, and what feed makes of it.
LEMMA ReadFrame ==
  ASSUME MessagesOK, WireInv, OrderInv, AssemblyInv, AnswersAgree, wire # <<>>,
         Fed1(Head(wire).frame, Head(wire).of), UNCHANGED sent
  PROVE  LET w == Head(wire)  fed == Feed(assembler, w.frame) IN
         /\ w.of \in DOMAIN sent /\ w.of \in Nat /\ sent[w.of] \in Messages
         /\ w.frame.sequence \in Parts(sent[w.of])
         /\ w.frame = Frame(sent[w.of], w.frame.sequence)
         /\ w.frame.start = (w.frame.sequence = 0)
         /\ w.of >= begun /\ (w.frame.sequence = 0 => w.of > begun)
         /\ begun' = IF w.frame.sequence = 0 THEN w.of ELSE begun
         /\ \/ /\ begun' \in DOMAIN sent /\ begun' > last /\ sent[begun'] \in Messages
               /\ FragmentGives(fed, sent[begun'])
            \/ fed = Refused(Cleared)
<1> DEFINE w == Head(wire)  s == sent[w.of]  f == w.frame.sequence
           fed == Feed(assembler, w.frame)
<1>1. /\ w.of \in DOMAIN sent /\ f \in Parts(s) /\ w.frame = Frame(s, f)
      /\ w \in WireFrame /\ w = wire[1] /\ 1 \in DOMAIN wire
  BY WireHead DEF Genuine
<1>2. \A j \in DOMAIN sent : sent[j] \in Messages /\ j \in 1..Len(sent) /\ Len(sent) \in Nat
  BY LenProperties, ElementOfSeq DEF MessagesOK
<1>3. s \in Messages /\ w.of \in Nat
  BY <1>1, <1>2
<1>4. w.frame.start = (f = 0)
  <2>1. Frame(s, f).start = (f = 0)
    BY <1>1, <1>3, FrameTyped
  <2> QED
    BY <1>1, <2>1
<1>5. w.of >= begun /\ (f = 0 => w.of > begun)
  BY <1>1 DEF OrderInv
<1>6. begun' = IF f = 0 THEN w.of ELSE begun
  BY <1>4 DEF Fed1
<1> DEFINE m == sent[begun]
<1>7. assembler.active => /\ begun \in DOMAIN sent /\ m \in Messages
                          /\ Fits(assembler, m) /\ begun > last
  BY <1>2 DEF AssemblyInv
<1>8. FeedGives(Feed(assembler, Frame(s, f)), assembler, m, s, f)
  <2>1. CASE assembler.active
    <3>1. SameAnswer(s, m)
      BY <1>1, <1>7, <2>1 DEF AnswersAgree
    <3> QED
      BY <1>1, <1>3, <1>7, <2>1, <3>1, FeedStep
  <2>2. CASE ~assembler.active
    <3>1. FeedGives(Feed(assembler, Frame(s, f)), assembler, s, s, f)
      BY <1>1, <1>3, <2>2, FeedStep DEF SameAnswer
    <3> QED
      BY <2>2, <3>1 DEF FeedGives
  <2> QED
    BY <2>1, <2>2
<1>9. FeedGives(fed, assembler, m, s, f)
  BY <1>1, <1>8
<1>10. last \in Nat /\ begun \in Nat /\ last <= begun
  BY <1>2 DEF MessagesOK
<1> HIDE DEF w, s, f, fed, m
<1>11. \/ /\ begun' \in DOMAIN sent /\ begun' > last /\ sent[begun'] \in Messages
          /\ FragmentGives(fed, sent[begun'])
       \/ fed = Refused(Cleared)
  <2>1. CASE f = 0
    <3>1. begun' = w.of /\ FragmentGives(fed, s)
      BY <1>6, <1>9, <2>1 DEF FeedGives
    <3>2. w.of > last
      BY <1>3, <1>5, <1>10, <2>1
    <3> QED
      BY <1>1, <1>3, <3>1, <3>2 DEF s
  <2>2. CASE f # 0 /\ assembler.active
    BY <1>6, <1>7, <1>9, <2>2 DEF FeedGives, m
  <2>3. CASE f # 0 /\ ~assembler.active
    BY <1>9, <2>3 DEF FeedGives
  <2> QED
    BY <2>1, <2>2, <2>3
<1> QED
  BY <1>1, <1>3, <1>4, <1>5, <1>6, <1>11 DEF w, s, f, fed

\* Reading keeps the assembly right, and what arrives is a message not yet arrived.
LEMMA ReadKeeps ==
  ASSUME MessagesOK, WireInv, OrderInv, AssemblyInv, AnswersAgree, wire # <<>>,
         Fed1(Head(wire).frame, Head(wire).of), UNCHANGED sent
  PROVE  /\ AssemblyInv' /\ MessagesOK'
         /\ \/ NothingArrives /\ Feed(assembler, Head(wire).frame).messages = <<>>
            \/ /\ Arrives /\ ~Feed(assembler, Head(wire).frame).refused
               /\ got' = got \o Feed(assembler, Head(wire).frame).messages
               /\ Feed(assembler, Head(wire).frame).messages # <<>>
<1> DEFINE w == Head(wire)  fed == Feed(assembler, w.frame)
<1>1. /\ w.of \in DOMAIN sent /\ w.of \in Nat
      /\ w.of >= begun
      /\ begun' = IF w.frame.sequence = 0 THEN w.of ELSE begun
      /\ \/ /\ begun' \in DOMAIN sent /\ begun' > last /\ sent[begun'] \in Messages
            /\ FragmentGives(fed, sent[begun'])
         \/ fed = Refused(Cleared)
  BY ReadFrame
<1>2. /\ assembler' = fed.assembler /\ got' = got \o fed.messages
      /\ last' = IF fed.messages = <<>> THEN last ELSE begun'
  BY DEF Fed1
<1>3. /\ Len(sent) \in Nat /\ DOMAIN sent = 1..Len(sent) /\ got \in Seq(Received)
      /\ begun \in 0..Len(sent) /\ last \in 0..begun
  BY LenProperties DEF MessagesOK
<1> HIDE DEF fed, w
<1>4. begun' \in 0..Len(sent') /\ last \in 0..begun'
  BY <1>1, <1>3
<1>5. sent' \in Seq(Messages) /\ Len(sent') <= MaxSent
  BY DEF MessagesOK
<1>6. CASE fed = Refused(Cleared)
  <2>1. assembler' = Cleared /\ fed.messages = <<>>
    BY <1>2, <1>6, RefusedFields
  <2>2. got' = got /\ last' = last
    BY <1>2, <1>3, <2>1, ConcatEmptySeq
  <2> QED
    BY <1>3, <1>4, <1>5, <2>1, <2>2 DEF AssemblyInv, MessagesOK, NothingArrives, Cleared, fed, w
<1>7. CASE /\ begun' \in DOMAIN sent /\ begun' > last /\ sent[begun'] \in Messages
           /\ FragmentGives(fed, sent[begun'])
  <2>1. CASE fed.messages = <<>> /\ Assembling(fed.assembler, sent[begun'])
    <3>1. got' = got /\ last' = last
      BY <1>2, <1>3, <2>1, ConcatEmptySeq
    <3>2. AssemblyInv'
      BY <1>2, <1>7, <2>1, <3>1 DEF AssemblyInv, Assembling, Cleared
    <3> QED
      BY <1>3, <1>4, <1>5, <2>1, <3>1, <3>2 DEF MessagesOK, NothingArrives, fed, w
  <2>2. ASSUME ~fed.refused, fed.assembler = Cleared,
               NEW q, Completed(q, sent[begun']),
               fed.messages = <<[kind |-> sent[begun'].kind, id |-> sent[begun'].id,
                                 payload |-> q]>>
        PROVE  /\ AssemblyInv' /\ MessagesOK'
               /\ Arrives /\ fed.messages # <<>>
    <3> DEFINE out == [kind |-> sent[begun'].kind, id |-> sent[begun'].id, payload |-> q]
    <3>1. out \in Received
      BY <1>7, <2>2, MessageTyped DEF Completed, Received
    <3>2. fed.messages # <<>> /\ last' = begun'
      BY <1>2, <2>2
    <3> HIDE DEF out
    <3>3. got' = Append(got, out) /\ got' \in Seq(Received)
      BY <1>2, <1>3, <2>2, <3>1, AppendIsConcat, AppendProperties DEF out
    <3>4. AssemblyInv'
      BY <1>2, <2>2 DEF AssemblyInv, Cleared
    <3>5. MessagesOK'
      BY <1>3, <1>4, <1>5, <3>2, <3>3 DEF MessagesOK
    <3> QED
      BY <1>7, <2>2, <3>2, <3>3, <3>4, <3>5 DEF Arrives, out
  <2> QED
    BY <1>2, <1>7, <2>1, <2>2 DEF FragmentGives, fed, w
<1> QED
  BY <1>1, <1>6, <1>7

\* Frames, and what is put together of them.
FrameInv == MessagesOK /\ WireInv /\ OrderInv /\ AssemblyInv

LEMMA FrameSend ==
  ASSUME FrameInv, NEW m \in Messages, DeviceSends(m)
  PROVE  FrameInv'
<1>1. /\ sent' = Append(sent, m) /\ UNCHANGED <<assembler, begun, got, last>>
      /\ Len(sent) < MaxSent
  BY DEF DeviceSends
<1>2. /\ sent' \in Seq(Messages) /\ Len(sent') = Len(sent) + 1 /\ Len(sent) \in Nat
      /\ DOMAIN sent' = 1..Len(sent) + 1 /\ DOMAIN sent = 1..Len(sent)
      /\ \A j \in DOMAIN sent : sent'[j] = sent[j]
  BY <1>1, SentStays DEF FrameInv, MessagesOK
<1>3. MessagesOK'
  BY <1>1, <1>2, Bounds DEF FrameInv, MessagesOK
<1>4. WireInv' /\ OrderInv'
  BY WireSend DEF FrameInv
<1>5. AssemblyInv'
  BY <1>1, <1>2 DEF FrameInv, AssemblyInv, Cleared
<1> QED
  BY <1>3, <1>4, <1>5 DEF FrameInv

\* The messages that the device sends.
LEMMA DeviceSendsMessages ==
  ASSUME CallOK, DeviceAnswers \/ DeviceRepeats \/ DeviceEvent
  PROVE  \E m \in Messages : DeviceSends(m)
<1>1. MaxCalls \in Nat /\ asked \in 0..MaxCalls /\ calls \in 0..MaxCalls
  BY Bounds DEF CallOK
<1>2. CASE DeviceAnswers
  <2>1. PICK p \in Payloads : DeviceSends(Answer(asked, p))
    BY <1>2 DEF DeviceAnswers
  <2>2. Answer(asked, p) \in Messages
    BY <1>1 DEF Answer, Messages
  <2> QED
    BY <2>1, <2>2
<1>3. CASE DeviceRepeats
  <2>1. PICK n \in 1..calls : answers[n] # None /\ DeviceSends(Answer(n, answers[n]))
    BY <1>3 DEF DeviceRepeats
  <2>2. n \in 1..MaxCalls
    BY <1>1
  <2>3. answers[n] \in Payloads
    BY <2>1, <2>2 DEF CallOK
  <2>4. Answer(n, answers[n]) \in Messages
    BY <1>1, <2>2, <2>3 DEF Answer, Messages
  <2> QED
    BY <2>1, <2>4
<1>4. CASE DeviceEvent
  <2>1. PICK p \in Payloads : DeviceSends([kind |-> "event", id |-> 0, payload |-> p])
    BY <1>4 DEF DeviceEvent
  <2>2. [kind |-> "event", id |-> 0, payload |-> p] \in Messages
    BY <1>1 DEF Messages
  <2> QED
    BY <2>1, <2>2
<1> QED
  BY <1>2, <1>3, <1>4

\* A frame is read for the request under way, or in an idle session.
Reads ==
    /\ up /\ ~astray /\ wire # <<>>
    /\ Fed1(Head(wire).frame, Head(wire).of)
    /\ wire' = Tail(wire) \/ wire' = <<>>
    /\ UNCHANGED <<lan, calls, astray, device, spent>>

LEMMA ReadingReads ==
  ASSUME ReadForCall \/ ReadIdle
  PROVE  Reads
  BY DEF ReadForCall, ReadIdle, Reads, EndSession, Free

LEMMA FrameRead ==
  ASSUME FrameInv, AnswerInv, Reads
  PROVE  FrameInv'
<1>1. AssemblyInv' /\ MessagesOK'
  BY OneAnswer, ReadKeeps DEF FrameInv, Reads, device
<1>2. CASE wire' = <<>>
  BY <1>1, <1>2, WireEmpty DEF FrameInv
<1>3. CASE wire' = Tail(wire)
  <2>1. begun' = IF Head(wire).frame.start THEN Head(wire).of ELSE begun
    BY DEF Reads, Fed1
  <2>2. WireInv' /\ OrderInv'
    BY <1>3, <2>1, WireTail DEF FrameInv, Reads, device
  <2> QED
    BY <1>1, <2>2 DEF FrameInv
<1> QED
  BY <1>2, <1>3 DEF Reads

\* Bytes without a header, or no bytes at all: at most the assembly is given up.
LEMMA FrameLeaves ==
  ASSUME FrameInv, UNCHANGED <<sent, begun, got, last>>,
         \/ assembler' \in {assembler, Cleared}
         \/ assembler.active /\ assembler' = [assembler EXCEPT !.old = TRUE],
         \/ wire' \in {wire, <<>>}
         \/ \E f \in DOMAIN wire :
              wire' = [g \in 1..(Len(wire) - 1) |-> wire[IF g < f THEN g ELSE g + 1]]
  PROVE  FrameInv'
<1>1. MessagesOK'
  BY DEF FrameInv, MessagesOK
<1>2. WireInv' /\ OrderInv'
  BY WireLoses, WireEmpty, WireStays DEF FrameInv
<1>3. ASSUME assembler' \in {assembler, Cleared} PROVE AssemblyInv'
  BY <1>3 DEF FrameInv, AssemblyInv, Cleared
<1>4. ASSUME assembler.active, assembler' = [assembler EXCEPT !.old = TRUE]
      PROVE  AssemblyInv'
  <2>1. assembler \in Assembler
    BY <1>4 DEF FrameInv, AssemblyInv, Fits
  <2>2. /\ assembler' \in Assembler /\ assembler'.active
        /\ assembler'.id = assembler.id /\ assembler'.kind = assembler.kind
        /\ assembler'.length = assembler.length /\ assembler'.crc = assembler.crc
        /\ assembler'.next = assembler.next /\ assembler'.payload = assembler.payload
    BY <1>4, <2>1 DEF Assembler
  <2>3. Fits(assembler, sent[begun])
    BY <1>4 DEF FrameInv, AssemblyInv
  <2>4. Fits(assembler', sent[begun])
    BY <2>2, <2>3 DEF Fits
  <2> QED
    BY <1>4, <2>2, <2>4 DEF FrameInv, AssemblyInv
<1>5. AssemblyInv'
  BY <1>3, <1>4
<1> QED
  BY <1>1, <1>2, <1>5 DEF FrameInv

\* A session begins with nothing sent.
LEMMA FrameOpens ==
  ASSUME Opened
  PROVE  FrameInv'
<1>1. /\ assembler' = Cleared /\ wire' = <<>> /\ got' = <<>> /\ begun' = 0 /\ last' = 0
      /\ sent' = <<>>
  BY DEF Opened
<1>2. WireInv' /\ OrderInv'
  BY <1>1, WireEmpty
<1>3. MessagesOK'
  BY <1>1, EmptySeq, Bounds DEF MessagesOK
<1>4. AssemblyInv'
  BY <1>1 DEF AssemblyInv, Cleared
<1> QED
  BY <1>2, <1>3, <1>4 DEF FrameInv

LEMMA FrameStep ==
  ASSUME FrameInv, CallOK, AnswerInv, [Next]_vars
  PROVE  FrameInv'
<1>1. CASE DeviceAnswers \/ DeviceRepeats \/ DeviceEvent
  BY <1>1, DeviceSendsMessages, FrameSend
<1>2. CASE ReadForCall \/ ReadIdle
  BY <1>2, ReadingReads, FrameRead
<1>3. CASE Lose
  BY <1>3, FrameLeaves DEF Lose, device
<1>4. CASE Call \/ WriteFrame \/ ReadLength
  BY <1>4, FrameLeaves DEF Call, WriteFrame, ReadLength, device, reading
<1>5. CASE CallFails \/ CallTimesOut \/ ReadBadLength
  BY <1>5, FrameLeaves DEF CallFails, CallTimesOut, ReadBadLength, EndSession, device
<1>6. CASE ReadGarbage
  <2>1. /\ assembler' \in {assembler, Cleared} /\ begun' = begun
        /\ last' = last /\ got' = got \o <<>>
    BY <1>6, FeedGarbage DEF ReadGarbage, Fed1
  <2>2. got' = got
    BY <2>1, ConcatEmptySeq DEF FrameInv, MessagesOK
  <2>3. wire' \in {wire, <<>>} /\ UNCHANGED sent
    BY <1>6 DEF ReadGarbage, EndSession, device
  <2> QED
    BY <2>1, <2>2, <2>3, FrameLeaves
<1>7. CASE Age
  BY <1>7, FrameLeaves DEF Age, device
<1>8. CASE Reopen
  BY <1>8, FrameOpens DEF Reopen
<1>9. CASE UNCHANGED vars
  BY <1>9, FrameLeaves DEF vars, reading, device
<1> QED
  BY <1>1, <1>2, <1>3, <1>4, <1>5, <1>6, <1>7, <1>8, <1>9 DEF Next, Agent, Device

-----------------------------------------------------------------------------
(* Requests and answers                                                    *)

CallerInv == CallInv /\ AnswerInv /\ ReturnInv

\* The caller gets the payload of a response to its request.
GetsAnswer ==
    /\ \E j \in DOMAIN sent :
         /\ sent[j].kind = "response" /\ sent[j].id = call.id
         /\ returned' = [id |-> call.id, payload |-> sent[j].payload]
    /\ call' = Calm /\ UNCHANGED up

\* The caller gets nothing yet, or an error.
GetsNothing ==
    /\ UNCHANGED returned
    /\ \/ UNCHANGED <<up, call>>
       \/ up' = FALSE /\ call' = Calm

LEMMA ReadingAnswers ==
  ASSUME FrameInv, AnswerInv, ReadForCall
  PROVE  GetsNothing \/ GetsAnswer
<1> DEFINE fed == Feed(assembler, Head(wire).frame)
<1>1. \/ fed.messages = <<>>
      \/ Arrives /\ ~fed.refused /\ got' = got \o fed.messages /\ fed.messages # <<>>
  BY OneAnswer, ReadKeeps DEF FrameInv, ReadForCall, device
<1>2. CASE fed.refused
  BY <1>2 DEF ReadForCall, EndSession, GetsNothing
<1>3. CASE ~fed.refused /\ fed.messages = <<>>
  <2>1. UNCHANGED up /\ UNCHANGED <<call, returned>>
    BY <1>3 DEF ReadForCall
  <2> QED
    BY <2>1 DEF GetsNothing
<1>4. CASE ~fed.refused /\ fed.messages # <<>> /\ Arrives
  <2>1. PICK q : Completed(q, sent[begun']) /\ begun' \in DOMAIN sent
                 /\ fed.messages = <<[kind |-> sent[begun'].kind, id |-> sent[begun'].id,
                                      payload |-> q]>>
    <3>1. fed = Refused(Cleared) \/
            (sent[begun'] \in Messages /\ begun' \in DOMAIN sent /\ FragmentGives(fed, sent[begun']))
      BY OneAnswer, ReadFrame DEF FrameInv, ReadForCall, device
    <3> QED
      BY <1>4, <3>1, RefusedFields DEF FragmentGives
  <2> DEFINE m == fed.messages[1]
  <2>2. m.kind = sent[begun'].kind /\ m.id = sent[begun'].id /\ m.payload = q
    BY <2>1
  <2>3. Returns(m) /\ UNCHANGED up
    BY <1>4 DEF ReadForCall
  <2> HIDE DEF m
  <2>4. CASE IsMine(m)
    <3>1. sent[begun'].kind = "response" /\ sent[begun'].id = call.id
      BY <2>2, <2>4 DEF IsMine
    <3>2. q = sent[begun'].payload
      BY <2>1, <3>1 DEF Completed
    <3>3. returned' = [id |-> call.id, payload |-> sent[begun'].payload] /\ call' = Calm
      BY <2>2, <2>3, <2>4, <3>2 DEF Returns
    <3> QED
      BY <2>1, <2>3, <3>1, <3>3 DEF GetsAnswer
  <2>5. CASE ~IsMine(m)
    <3>1. UNCHANGED <<call, returned>>
      BY <2>3, <2>5 DEF Returns
    <3> QED
      BY <2>3, <3>1 DEF GetsNothing
  <2> QED
    BY <2>4, <2>5
<1> QED
  BY <1>1, <1>2, <1>3, <1>4

\* Types.
LEMMA FaultTyped ==
  ASSUME SessionOK, Fault
  PROVE  spent' \in [faults : 0..MaxFaults, sessions : 1..MaxSessions]
<1>1. spent \in [faults : 0..MaxFaults, sessions : 1..MaxSessions] /\ MaxFaults \in Nat
  BY Bounds DEF SessionOK
<1>2. spent.faults + 1 \in 0..MaxFaults
  BY <1>1 DEF Fault
<1> QED
  BY <1>1, <1>2 DEF Fault

LEMMA SessionStep ==
  ASSUME SessionOK, [Next]_vars
  PROVE  SessionOK'
<1>1. \/ UNCHANGED spent \/ Fault
      \/ spent.sessions < MaxSessions /\ spent' = [spent EXCEPT !.sessions = @ + 1]
  BY DEF Next, Agent, Device, Call, WriteFrame, CallFails, CallTimesOut,
     ReadLength, ReadForCall, ReadIdle, ReadBadLength, ReadGarbage, Age, Reopen,
     DeviceAnswers, DeviceRepeats, DeviceEvent, DeviceSends, Lose, vars
<1>2. ASSUME spent.sessions < MaxSessions, spent' = [spent EXCEPT !.sessions = @ + 1]
      PROVE  spent' \in [faults : 0..MaxFaults, sessions : 1..MaxSessions]
  <2>1. spent \in [faults : 0..MaxFaults, sessions : 1..MaxSessions] /\ MaxSessions \in Nat
    BY Bounds DEF SessionOK
  <2>2. spent.sessions + 1 \in 1..MaxSessions
    BY <1>2, <2>1
  <2>3. spent' \in [faults : 0..MaxFaults, sessions : 1..MaxSessions]
    BY <1>2, <2>1, <2>2
  <2> QED
    BY <2>3
<1>3. spent' \in [faults : 0..MaxFaults, sessions : 1..MaxSessions]
  BY <1>1, <1>2, FaultTyped DEF SessionOK
<1>4. lan' \in BOOLEAN /\ up' \in BOOLEAN /\ half' \in BOOLEAN /\ astray' \in BOOLEAN
  BY DEF SessionOK, Next, Agent, Device, Call, WriteFrame, CallFails, CallTimesOut,
     ReadLength, ReadForCall, ReadIdle, ReadBadLength, ReadGarbage, Age, Reopen, Opened,
     DropRead, EndSession, reading, device,
     DeviceAnswers, DeviceRepeats, DeviceEvent, DeviceSends, Lose, vars
<1> QED
  BY <1>3, <1>4 DEF SessionOK

\* A new request has an id that nothing yet bears.
LEMMA CallKeeps ==
  ASSUME CallOK, CallerInv, sent \in Seq(Messages), Call
  PROVE  CallOK' /\ CallerInv'
<1>1. /\ MaxCalls \in Nat /\ calls \in 0..MaxCalls /\ asked \in 0..calls
      /\ call \in [id : 0..MaxCalls, left : 0..SeqLimit - 1] /\ SeqLimit \in Nat \ {0}
  BY Bounds, FramingAssumption DEF CallOK
<1>2. /\ up /\ call.id = 0 /\ (calls < MaxCalls \/ astray)
      /\ calls' = IF calls < MaxCalls THEN calls + 1 ELSE MaxCalls
      /\ UNCHANGED <<up, returned, asked, answers, sent>>
  BY <1>1 DEF Call, Free, Smaller, device
<1>3. calls' \in 0..MaxCalls /\ calls <= calls' /\ (~astray => calls' = calls + 1)
  BY <1>1, <1>2
<1>4. asked = 0
  BY <1>1, <1>2 DEF CallerInv, CallInv
<1>5. \/ call' = Calm
      \/ call'.id = calls' /\ call'.left \in 1..SeqLimit - 1
         /\ call' = [id |-> calls', left |-> call'.left]
  <2>1. PICK n \in Requests :
          call' = IF Encodes(n) THEN [id |-> calls', left |-> FrameCount(n)] ELSE Calm
    BY DEF Call
  <2>2. CASE Encodes(n)
    <3>1. n \in Nat \ {0}
      BY <2>2, BoundsAssumption DEF Encodes
    <3>2. FrameCount(n) \in 1..SeqLimit - 1
      BY <1>1, <2>2, <3>1, FrameRoom DEF Encodes
    <3> QED
      BY <2>1, <2>2, <3>2
  <2> QED
    BY <2>1, <2>2
<1>6. call' \in [id : 0..MaxCalls, left : 0..SeqLimit - 1]
  BY <1>1, <1>3, <1>5 DEF Calm
<1>7. CallOK'
  BY <1>2, <1>3, <1>4, <1>6 DEF CallOK
<1>8. CallInv'
  <2>1. calls' # 0
    BY <1>1, <1>2 DEF CallerInv, CallInv
  <2> QED
    BY <1>2, <1>3, <1>4, <1>5, <2>1 DEF CallInv, Calm
<1>9. AnswerInv'
  <2> SUFFICES ASSUME ~astray' PROVE AnswerInv'
    BY DEF AnswerInv
  <2>1. ~astray
    BY DEF Call, DropRead
  <2>2. calls' = calls + 1 /\ calls + 1 \in 1..MaxCalls
    BY <1>1, <1>2, <1>3, <2>1
  <2>3. /\ \A j \in DOMAIN sent : sent[j].kind = "response" =>
             sent[j].id \in 1..calls /\ sent[j].payload = answers[sent[j].id]
        /\ \A n \in 1..MaxCalls : n > calls => answers[n] = None
    BY <2>1 DEF CallerInv, AnswerInv
  <2>4. Open' => call'.id = calls + 1
    BY <1>5, <2>2 DEF Open, Calm
  <2> QED
    BY <1>1, <1>2, <2>2, <2>3, <2>4 DEF AnswerInv
<1>10. ReturnInv'
  <2> SUFFICES ASSUME returned' # None PROVE ReturnInv'
    BY DEF ReturnInv
  <2>1. /\ returned.id \in 1..calls /\ returned.payload = answers[returned.id]
        /\ astray => returned.id < calls
    BY <1>2 DEF CallerInv, ReturnInv
  <2>2. returned.id < calls'
    BY <1>1, <1>3, <2>1
  <2>3. call'.id # 0 => call'.id = calls'
    BY <1>5 DEF Calm
  <2> QED
    BY <1>1, <1>2, <1>3, <2>1, <2>2, <2>3 DEF ReturnInv
<1> QED
  BY <1>7, <1>8, <1>9, <1>10 DEF CallerInv

\* The request goes to the device frame by frame.
LEMMA WriteKeeps ==
  ASSUME CallOK, CallerInv, sent \in Seq(Messages), WriteFrame
  PROVE  CallOK' /\ CallerInv'
<1>1. /\ MaxCalls \in Nat /\ calls \in 0..MaxCalls /\ asked \in 0..calls
      /\ call \in [id : 0..MaxCalls, left : 0..SeqLimit - 1] /\ SeqLimit \in Nat \ {0}
  BY Bounds, FramingAssumption DEF CallOK
<1>2. /\ up /\ call.left > 0 /\ call' = [call EXCEPT !.left = call.left - 1]
      /\ asked' = IF call.left = 1 THEN call.id ELSE asked
      /\ UNCHANGED <<up, calls, returned, answers, sent, astray>>
  BY DEF WriteFrame, reading
<1>3. call.id = calls /\ call.id # 0 /\ asked = 0
  BY <1>1, <1>2 DEF CallerInv, CallInv
<1>4. /\ call' \in [id : 0..MaxCalls, left : 0..SeqLimit - 1]
      /\ call'.id = call.id /\ call'.left = call.left - 1
  BY <1>1, <1>2
<1>5. CallOK'
  BY <1>1, <1>2, <1>3, <1>4 DEF CallOK
<1>6. CallInv'
  BY <1>1, <1>2, <1>3, <1>4 DEF CallInv
<1>7. Open
  BY <1>2, <1>3 DEF Open
<1>8. AnswerInv'
  BY <1>2, <1>4, <1>7 DEF CallerInv, AnswerInv
<1>9. ReturnInv'
  BY <1>2, <1>4 DEF CallerInv, ReturnInv
<1> QED
  BY <1>5, <1>6, <1>8, <1>9 DEF CallerInv

\* The device sends an answer, the one to the request under way or an earlier one again.
LEMMA AnswersKeep ==
  ASSUME CallOK, CallerInv, sent \in Seq(Messages), DeviceAnswers
  PROVE  CallOK' /\ CallerInv'
<1>1. PICK p \in Payloads : /\ DeviceSends(Answer(asked, p))
                            /\ answers' = [answers EXCEPT ![asked] = p]
  BY DEF DeviceAnswers
<1> DEFINE m == Answer(asked, p)
<1>2. /\ asked # 0 /\ asked' = 0 /\ up /\ sent' = Append(sent, m)
      /\ UNCHANGED <<up, call, calls, returned, astray>>
  BY <1>1 DEF DeviceAnswers, DeviceSends
<1>3. /\ MaxCalls \in Nat /\ calls \in 0..MaxCalls /\ asked \in 0..calls
      /\ answers \in [1..MaxCalls -> Payloads \cup {None}]
  BY Bounds DEF CallOK
<1>4. asked = call.id /\ call.left = 0 /\ asked \in 1..calls /\ asked \in 1..MaxCalls
  BY <1>2, <1>3 DEF CallerInv, CallInv
<1>5. m \in Messages /\ m.kind = "response" /\ m.id = asked /\ m.payload = p
  BY <1>4 DEF Answer, Messages
<1>6. /\ answers' \in [1..MaxCalls -> Payloads \cup {None}]
      /\ answers'[asked] = p /\ \A n \in 1..MaxCalls : n # asked => answers'[n] = answers[n]
  BY <1>1, <1>3, <1>4
<1> HIDE DEF m
<1>7. /\ DOMAIN sent' = 1..Len(sent) + 1 /\ DOMAIN sent = 1..Len(sent) /\ Len(sent) \in Nat
      /\ \A j \in DOMAIN sent : sent'[j] = sent[j]
      /\ sent'[Len(sent) + 1] = m
  BY <1>2, <1>5, SentStays
<1>8. CallOK'
  BY <1>2, <1>3, <1>6 DEF CallOK
<1>9. CallInv'
  BY <1>2 DEF CallerInv, CallInv
<1>10. ~Open'
  BY <1>2, <1>4 DEF Open
<1>11. AnswerInv'
  <2> SUFFICES ASSUME ~astray PROVE AnswerInv'
    BY <1>2 DEF AnswerInv
  <2>1. Open
    BY <1>2, <1>4 DEF Open
  <2>2. /\ \A j \in DOMAIN sent : sent[j].kind = "response" =>
             /\ sent[j].id \in 1..calls /\ sent[j].payload = answers[sent[j].id]
             /\ sent[j].id # asked
        /\ \A n \in 1..MaxCalls : n > calls => answers[n] = None
    BY <1>4, <2>1 DEF CallerInv, AnswerInv
  <2>3. ASSUME NEW j \in DOMAIN sent', sent'[j].kind = "response"
        PROVE  sent'[j].id \in 1..calls /\ sent'[j].payload = answers'[sent'[j].id]
    <3>1. CASE j \in DOMAIN sent
      BY <1>3, <1>6, <1>7, <2>2, <2>3, <3>1
    <3>2. CASE j = Len(sent) + 1
      BY <1>4, <1>5, <1>6, <1>7, <3>2
    <3> QED
      BY <1>7, <3>1, <3>2
  <2>4. \A n \in 1..MaxCalls : n > calls => answers'[n] = None
    BY <1>3, <1>4, <1>6, <2>2
  <2> QED
    BY <1>2, <1>10, <2>3, <2>4 DEF AnswerInv
<1>12. ReturnInv'
  <2> SUFFICES ASSUME returned # None PROVE ReturnInv'
    BY <1>2 DEF ReturnInv
  <2>1. /\ returned.id \in 1..calls /\ returned.payload = answers[returned.id]
        /\ returned.id # asked /\ (astray => returned.id < calls)
        /\ call.id # 0 => returned.id # call.id
    BY <1>2, <1>4 DEF CallerInv, ReturnInv
  <2>2. answers'[returned.id] = answers[returned.id]
    BY <1>3, <1>6, <2>1
  <2> QED
    BY <1>2, <2>1, <2>2 DEF ReturnInv
<1> QED
  BY <1>8, <1>9, <1>11, <1>12 DEF CallerInv

\* Anything else the device sends is an event or repeats an answer.
LEMMA RepeatsKeep ==
  ASSUME CallOK, CallerInv, sent \in Seq(Messages), NEW m \in Messages, DeviceSends(m),
         UNCHANGED <<asked, answers>>,
         m.kind = "response" =>
            m.id \in 1..calls /\ m.payload = answers[m.id] /\ answers[m.id] # None
  PROVE  CallOK' /\ CallerInv'
<1>1. sent' = Append(sent, m) /\ UNCHANGED <<up, call, calls, returned, astray>>
  BY DEF DeviceSends
<1>2. /\ DOMAIN sent' = 1..Len(sent) + 1 /\ DOMAIN sent = 1..Len(sent) /\ Len(sent) \in Nat
      /\ \A j \in DOMAIN sent : sent'[j] = sent[j]
      /\ sent'[Len(sent) + 1] = m
  BY <1>1, SentStays
<1>3. CallOK'
  BY <1>1 DEF CallOK
<1>4. CallInv' /\ ReturnInv'
  BY <1>1 DEF CallerInv, CallInv, ReturnInv
<1>5. AnswerInv'
  <2> SUFFICES ASSUME ~astray PROVE AnswerInv'
    BY <1>1 DEF AnswerInv
  <2>1. /\ \A j \in DOMAIN sent : sent[j].kind = "response" =>
             /\ sent[j].id \in 1..calls /\ sent[j].payload = answers[sent[j].id]
             /\ Open => sent[j].id # call.id
        /\ \A n \in 1..MaxCalls : n > calls => answers[n] = None
        /\ Open => answers[call.id] = None
    BY DEF CallerInv, AnswerInv
  <2>2. Open' = Open
    BY <1>1 DEF Open
  <2>3. ASSUME NEW j \in DOMAIN sent', sent'[j].kind = "response"
        PROVE  /\ sent'[j].id \in 1..calls /\ sent'[j].payload = answers[sent'[j].id]
               /\ Open => sent'[j].id # call.id
    <3>1. CASE j \in DOMAIN sent
      BY <1>2, <2>1, <2>3, <3>1
    <3>2. CASE j = Len(sent) + 1
      BY <1>2, <2>1, <2>3, <3>2
    <3> QED
      BY <1>2, <3>1, <3>2
  <2> QED
    BY <1>1, <2>1, <2>2, <2>3 DEF AnswerInv
<1> QED
  BY <1>3, <1>4, <1>5 DEF CallerInv

\* A request that goes on or ends without its answer.
Unanswered ==
    /\ UNCHANGED <<calls, returned, astray, asked, answers, sent>>
    /\ \/ UNCHANGED <<up, call>>
       \/ up' = FALSE /\ call' = Calm

LEMMA OthersKeep ==
  ASSUME CallOK, CallerInv, Unanswered
  PROVE  CallOK' /\ CallerInv'
<1> USE DEF Unanswered
<1>1. 0 \in 0..MaxCalls /\ 0 \in 0..SeqLimit - 1
  BY Bounds, FramingAssumption
<1>2. CallOK'
  BY <1>1 DEF CallOK, Calm
<1>3. CallInv' /\ ReturnInv'
  BY DEF CallerInv, CallInv, ReturnInv, Calm
<1>4. AnswerInv'
  BY DEF CallerInv, AnswerInv, Open
<1> QED
  BY <1>2, <1>3, <1>4 DEF CallerInv

\* The caller gets the answer to its request.
LEMMA ReturnKeeps ==
  ASSUME FrameInv, CallOK, CallerInv, ReadForCall
  PROVE  CallOK' /\ CallerInv'
<1>1. /\ UNCHANGED <<calls, astray, asked, answers, sent>>
      /\ call.id # 0 /\ call.left = 0 /\ ~astray /\ sent \in Seq(Messages)
  BY DEF ReadForCall, device, FrameInv, MessagesOK
<1>2. CASE GetsNothing
  <2>1. Unanswered
    BY <1>1, <1>2 DEF Unanswered, GetsNothing
  <2> QED
    BY <2>1, OthersKeep
<1>3. CASE GetsAnswer
  <2>0. call' = Calm /\ UNCHANGED up
    BY <1>3 DEF GetsAnswer
  <2>1. PICK j \in DOMAIN sent :
          /\ sent[j].kind = "response" /\ sent[j].id = call.id
          /\ returned' = [id |-> call.id, payload |-> sent[j].payload]
    BY <1>3 DEF GetsAnswer
  <2>2. call.id \in 1..calls /\ sent[j].payload = answers[call.id]
    BY <1>1, <2>1 DEF CallerInv, AnswerInv
  <2>3. sent[j].payload \in Payloads
    BY <1>1, <2>1, LenProperties, ElementOfSeq, MessageTyped
  <2>4. 0 \in 0..MaxCalls /\ 0 \in 0..SeqLimit - 1 /\ call.id \in 1..MaxCalls
    BY <2>2, Bounds, FramingAssumption DEF CallOK
  <2>5. CallOK'
    BY <1>1, <2>0, <2>1, <2>3, <2>4 DEF CallOK, Calm
  <2>6. ReturnInv'
    BY <1>1, <2>0, <2>1, <2>2 DEF ReturnInv, Calm
  <2>7. CallInv'
    <3>1. ~Open
      BY <1>1, <2>1 DEF CallerInv, AnswerInv
    <3> QED
      BY <1>1, <2>0, <3>1 DEF CallerInv, CallInv, Calm, Open
  <2>8. AnswerInv'
    <3>1. ~Open'
      BY <2>0 DEF Open, Calm
    <3> QED
      BY <1>1, <3>1 DEF CallerInv, AnswerInv
  <2> QED
    BY <2>5, <2>6, <2>7, <2>8 DEF CallerInv
<1>4. AnswerInv
  BY DEF CallerInv
<1> QED
  BY <1>2, <1>3, <1>4, ReadingAnswers

LEMMA CallerOpens ==
  ASSUME Opened
  PROVE  CallOK' /\ CallerInv'
<1>1. /\ up' = TRUE /\ call' = Calm /\ calls' = 0 /\ returned' = None /\ astray' = FALSE
      /\ asked' = 0 /\ answers' = [n \in 1..MaxCalls |-> None] /\ sent' = <<>>
  BY DEF Opened
<1>2. 0 \in 0..MaxCalls /\ 0 \in 0..SeqLimit - 1
  BY Bounds, FramingAssumption
<1>3. CallOK'
  BY <1>1, <1>2 DEF CallOK, Calm
<1>4. CallInv' /\ AnswerInv' /\ ReturnInv'
  BY <1>1 DEF CallInv, AnswerInv, ReturnInv, Calm, Open
<1> QED
  BY <1>3, <1>4 DEF CallerInv

LEMMA CallerStep ==
  ASSUME FrameInv, CallOK, CallerInv, [Next]_vars
  PROVE  CallOK' /\ CallerInv'
<1> USE DEF device, reading
<1>0. sent \in Seq(Messages)
  BY DEF FrameInv, MessagesOK
<1>1. CASE Call
  BY <1>0, <1>1, CallKeeps
<1>2. CASE WriteFrame
  BY <1>0, <1>2, WriteKeeps
<1>3. CASE DeviceAnswers
  BY <1>0, <1>3, AnswersKeep
<1>4. CASE DeviceRepeats
  <2>1. PICK n \in 1..calls : /\ answers[n] # None
                              /\ DeviceSends(Answer(n, answers[n]))
                              /\ UNCHANGED <<asked, answers>>
    BY <1>4 DEF DeviceRepeats
  <2>2. n \in 0..MaxCalls /\ n \in 1..MaxCalls
    BY Bounds DEF CallOK
  <2>3. answers[n] \in Payloads
    BY <2>1, <2>2 DEF CallOK
  <2>4. Answer(n, answers[n]) \in Messages
    BY <2>2, <2>3 DEF Answer, Messages
  <2>5. Answer(n, answers[n]).id = n /\ Answer(n, answers[n]).payload = answers[n]
    BY DEF Answer
  <2> QED
    BY <1>0, <2>1, <2>4, <2>5, RepeatsKeep
<1>5. CASE DeviceEvent
  <2>1. PICK p \in Payloads : DeviceSends([kind |-> "event", id |-> 0, payload |-> p])
    BY <1>5 DEF DeviceEvent
  <2>2. [kind |-> "event", id |-> 0, payload |-> p] \in Messages
    BY Bounds DEF Messages
  <2> QED
    BY <1>0, <1>5, <2>1, <2>2, RepeatsKeep DEF DeviceEvent
<1>6. CASE ReadForCall
  BY <1>6, ReturnKeeps
<1>7. CASE Lose \/ ReadLength \/ ReadIdle \/ Age
  <2>1. Unanswered
    BY <1>7 DEF Unanswered, Lose, ReadLength, ReadIdle, Age
  <2> QED
    BY <2>1, OthersKeep
<1>8. CASE CallFails \/ CallTimesOut \/ ReadBadLength \/ ReadGarbage
  <2>1. Unanswered
    BY <1>8 DEF Unanswered, CallFails, CallTimesOut, ReadBadLength, ReadGarbage, EndSession
  <2> QED
    BY <2>1, OthersKeep
<1>9. CASE Reopen
  BY <1>9, CallerOpens DEF Reopen
<1>10. CASE UNCHANGED vars
  <2>1. Unanswered
    BY <1>10 DEF Unanswered, vars
  <2> QED
    BY <2>1, OthersKeep
<1> QED
  BY <1>1, <1>2, <1>3, <1>4, <1>5, <1>6, <1>7, <1>8, <1>9, <1>10 DEF Next, Agent, Device

-----------------------------------------------------------------------------
(* Nothing is lost                                                         *)

\* The next frame of an assembly that has all the frames before it: of the last one
\* comes the message itself.
FeedAdvances(fed, m, f) ==
    /\ ~fed.refused
    /\ f + 1 # FrameCount(Len(m.payload)) =>
         /\ fed.messages = <<>>
         /\ fed.assembler.active /\ ~fed.assembler.old /\ fed.assembler.next = f + 1
         /\ Agree(fed.assembler.payload, m.payload, 0, Len(fed.assembler.payload))
    /\ f + 1 = FrameCount(Len(m.payload)) =>
         fed.messages = <<m>> /\ fed.assembler = Cleared

LEMMA FragmentAdvances ==
  ASSUME NEW m \in Messages, NEW a, Fits(a, m), NEW f \in Parts(m), a.next = f, ~a.old,
         Agree(a.payload, m.payload, 0, Len(a.payload))
  PROVE  FeedAdvances(FeedFragment(a, Frame(m, f)), m, f)
<1> DEFINE w == Frame(m, f)  b == Extended(a, w)  n == Len(m.payload)
           fed == FeedFragment(a, w)
<1>1. w.id = m.id /\ w.kind = m.kind /\ w.sequence = f /\ w.end = (f + 1 = FrameCount(n))
  BY FrameTyped
<1>2. Continues(a, w)
  BY <1>1 DEF Continues, Fits
<1>3. ExtendedBy(b, a, m, f)
  BY <1>2, Extension
<1>4. /\ n \in Nat \ {0} /\ m.payload \in Seq(Units)
      /\ m = [kind |-> m.kind, id |-> m.id, payload |-> m.payload]
  BY MessageTyped, PayloadTyped
<1>5. /\ f \in Nat /\ Offset(f) \in 0..n /\ Upto(f, n) \in Offset(f)..n
      /\ f + 1 = FrameCount(n) => Upto(f, n) = n
  BY <1>4, FrameRoom DEF Parts
<1>6. /\ a \in Assembler /\ a.active /\ a.id = m.id /\ a.kind = m.kind
      /\ a.length = n /\ a.crc = Crc(m.payload) /\ Len(a.payload) = Offset(f)
  BY DEF Fits
<1> DEFINE q == b.payload
<1>7. /\ b = [a EXCEPT !.next = f + 1, !.payload = q] /\ f + 1 \in 0..SeqLimit - 1
      /\ q \in Seq(Units) /\ Len(q) = Upto(f, n)
      /\ \A x \in 1..Offset(f) : q[x] = a.payload[x]
      /\ Agree(q, m.payload, Offset(f), Len(q))
  <2>1. f + 1 \in 1..SeqLimit - 1
    BY <1>3 DEF ExtendedBy
  <2> QED
    BY <1>3, <2>1, FramingAssumption DEF ExtendedBy
<1> HIDE DEF q
<1>8. /\ b.active /\ b.old = a.old /\ b.id = m.id /\ b.kind = m.kind
      /\ b.length = n /\ b.crc = Crc(m.payload) /\ b.next = f + 1 /\ b.payload = q
  BY <1>6, <1>7 DEF Assembler
<1>9. Agree(q, m.payload, 0, Len(q))
  <2>1. \A x \in 1..Offset(f) : x <= n /\ a.payload[x] = m.payload[x]
    BY <1>5, <1>6 DEF Agree
  <2>2. \A x \in 1..Offset(f) : x <= n /\ q[x] = m.payload[x]
    BY <1>7, <2>1
  <2>3. \A x \in Offset(f) + 1..Len(q) : x <= n /\ q[x] = m.payload[x]
    BY <1>7 DEF Agree
  <2>4. Offset(f) \in Nat /\ Len(q) \in Nat
    BY <1>4, <1>5, <1>7
  <2>5. \A x \in 1..Len(q) : x <= n /\ q[x] = m.payload[x]
    BY <2>2, <2>3, <2>4
  <2> QED
    BY <2>5 DEF Agree
<1>10. Len(q) <= n /\ Len(q) \in Nat
  BY <1>4, <1>5, <1>7
<1> HIDE DEF b, w, n
<1>11. fed = IF Len(b.payload) > b.length THEN Refused(Cleared)
             ELSE IF ~w.end THEN Fed(b, FALSE, <<>>)
             ELSE IF ~Intact(b) THEN Refused(Cleared)
             ELSE Fed(Cleared, FALSE,
                      <<[kind |-> b.kind, id |-> b.id, payload |-> b.payload]>>)
  BY <1>2 DEF FeedFragment, b
<1>12. ~(Len(b.payload) > b.length)
  BY <1>4, <1>8, <1>10
<1>13. CASE f + 1 # FrameCount(n)
  <2>1. fed = Fed(b, FALSE, <<>>)
    BY <1>1, <1>11, <1>12, <1>13
  <2>2. fed.assembler = b /\ ~fed.refused /\ fed.messages = <<>>
    BY <2>1 DEF Fed
  <2> HIDE DEF fed
  <2> QED
    BY <1>8, <1>9, <1>13, <2>2 DEF FeedAdvances, fed, w, n
<1>14. CASE f + 1 = FrameCount(n)
  <2>1. q = m.payload
    <3>1. Len(q) = n /\ \A x \in 1..n : q[x] = m.payload[x]
      BY <1>4, <1>5, <1>7, <1>9, <1>14 DEF Agree
    <3> QED
      BY <1>4, <1>7, <3>1, SeqEqual DEF n
  <2>2. Intact(b)
    BY <1>8, <2>1 DEF Intact, n
  <2>3. fed = Fed(Cleared, FALSE, <<m>>)
    BY <1>1, <1>4, <1>8, <1>11, <1>12, <1>14, <2>1, <2>2
  <2>4. fed.assembler = Cleared /\ ~fed.refused /\ fed.messages = <<m>>
    BY <2>3 DEF Fed
  <2> HIDE DEF fed
  <2> QED
    BY <1>14, <2>4 DEF FeedAdvances, fed, w, n
<1> QED
  BY <1>13, <1>14

LEMMA FeedAdvancing ==
  ASSUME NEW m \in Messages, NEW a, NEW f \in Parts(m), a.active => ~a.old,
         f # 0 => /\ Fits(a, m) /\ a.next = f
                  /\ Agree(a.payload, m.payload, 0, Len(a.payload))
  PROVE  FeedAdvances(Feed(a, Frame(m, f)), m, f)
<1> DEFINE w == Frame(m, f)
<1>1. ~w.bad /\ w.start = (f = 0) /\ w.sequence = f /\ w.length = Len(m.payload)
  BY FrameTyped
<1>2. Len(m.payload) \in Nat \ {0} /\ Len(m.payload) <= MaxLength /\ MaxLength \in Nat
  BY MessageTyped, PayloadTyped, FramingAssumption
<1>3. CASE f # 0
  <2>1. Feed(a, w) = FeedFragment(a, w)
    BY <1>1, <1>3 DEF Feed
  <2>2. a.active
    BY <1>3 DEF Fits
  <2> QED
    BY <1>3, <2>1, <2>2, FragmentAdvances
<1>4. CASE f = 0
  <2> DEFINE b == Started(w)
  <2>1. Feed(a, w) = FeedFragment(b, w)
    <3>1. ~(a.active /\ a.old) /\ ~w.bad /\ w.start /\ w.sequence = 0
      BY <1>1, <1>4
    <3>2. w.length # 0 /\ ~(w.length > MaxLength)
      BY <1>1, <1>2
    <3> HIDE DEF w
    <3> QED
      BY <3>1, <3>2 DEF Feed
  <2>2. Fits(b, m) /\ Continues(b, w)
    BY <1>4, StartFits
  <2>3. ~b.old /\ b.payload = <<>>
    BY DEF Started, Cleared
  <2>4. b.next = f
    BY <1>1, <2>2 DEF Continues
  <2> HIDE DEF b
  <2>5. Agree(b.payload, m.payload, 0, Len(b.payload))
    BY <2>3, EmptySeq DEF Agree
  <2> QED
    BY <2>1, <2>2, <2>3, <2>4, <2>5, FragmentAdvances
<1> QED
  BY <1>3, <1>4

LEMMA StreamSend ==
  ASSUME FrameInv, InStep, NEW m \in Messages, DeviceSends(m)
  PROVE  InStep'
<1> DEFINE l == Len(wire)  c == FrameCount(Len(m.payload))  n == Len(sent) + 1
<1>1. /\ l \in Nat /\ c \in Nat \ {0} /\ n \in Nat
      /\ Len(wire') = l + c
      /\ \A g \in 1..l : wire'[g] = wire[g]
      /\ \A g \in l + 1..l + c :
           /\ wire'[g].of = n /\ wire'[g].frame = Frame(m, g - l - 1)
           /\ g - l - 1 \in Parts(m)
           /\ wire'[g].frame.sequence = g - l - 1
  BY WireGrows DEF FrameInv, MessagesOK
<1>2. sent' = Append(sent, m) /\ UNCHANGED <<assembler, begun, got>>
  BY DEF DeviceSends
<1>3. /\ Len(sent') = n /\ Len(sent) = n - 1 /\ DOMAIN sent = 1..n - 1
      /\ \A j \in DOMAIN sent : sent'[j] = sent[j]
  BY <1>2, SentStays DEF FrameInv, MessagesOK
<1>4. got \in Seq(Received) /\ Len(got) \in Nat /\ DOMAIN got = 1..Len(got)
  BY LenProperties DEF FrameInv, MessagesOK
<1>5. wire = <<>> => l = 0
  BY EmptySeq
<1>6. wire # <<>> => l > 0
  BY WireHead DEF FrameInv
<1> HIDE DEF l, c, n
<1>7. \A g \in l + 1..l + c : wire'[g].frame.end = (g - l = c)
  <2> SUFFICES ASSUME NEW g \in l + 1..l + c PROVE wire'[g].frame.end = (g - l = c)
    OBVIOUS
  <2> DEFINE f == g - l - 1
  <2>1. f \in Parts(m) /\ wire'[g].frame = Frame(m, f) /\ f + 1 = g - l
    BY <1>1
  <2> HIDE DEF f
  <2>2. Frame(m, f).end = (f + 1 = c)
    BY <2>1, FrameTyped DEF c
  <2> QED
    BY <2>1, <2>2
<1>8. /\ Len(got') <= Len(sent') /\ \A j \in DOMAIN got' : got'[j] = sent'[j]
  BY <1>2, <1>3, <1>4 DEF InStep
<1>9. /\ ~assembler'.old
      /\ assembler'.active =>
           /\ begun' = Len(got') + 1
           /\ Agree(assembler'.payload, sent'[begun'].payload, 0, Len(assembler'.payload))
  BY <1>2, <1>3 DEF InStep, FrameInv, AssemblyInv
<1>10. wire' # <<>>
  BY <1>1, EmptySeq
<1>11. /\ wire'[1].of = Len(got') + 1
       /\ wire'[1].frame.sequence = assembler'.next
  <2>1. CASE wire = <<>>
    <3>1. Len(got) = n - 1 /\ assembler.next = 0
      BY <1>3, <2>1 DEF InStep, FrameInv, AssemblyInv, Cleared
    <3>2. 1 \in l + 1..l + c /\ 1 - l - 1 = 0
      <4>1. l = 0 /\ c \in Nat \ {0}
        BY <1>1, <1>5, <2>1
      <4> QED
        BY <4>1
    <3> QED
      BY <1>1, <1>2, <1>4, <3>1, <3>2
  <2>2. CASE wire # <<>>
    <3>1. 1 \in 1..l
      BY <1>1, <1>6, <2>2
    <3> QED
      BY <1>1, <1>2, <2>2, <3>1 DEF InStep
  <2> QED
    BY <2>1, <2>2
<1>12. ASSUME NEW g \in 1..Len(wire') - 1 PROVE Next1(wire'[g], wire'[g + 1])
  <2>1. CASE g < l
    <3>1. g \in 1..l - 1 /\ g \in 1..l /\ g + 1 \in 1..l /\ wire # <<>>
      BY <1>1, <1>5, <2>1
    <3>2. Next1(wire[g], wire[g + 1])
      BY <3>1 DEF InStep, l
    <3> QED
      BY <1>1, <3>1, <3>2
  <2>2. CASE g = l
    <3>1. g \in 1..l /\ g + 1 \in l + 1..l + c /\ g + 1 - l - 1 = 0 /\ wire # <<>>
      BY <1>1, <1>5, <2>2
    <3>2. wire[l].frame.end /\ wire[l].of = n - 1
      BY <1>3, <3>1 DEF InStep, l
    <3>3. wire'[g] = wire[l] /\ wire'[g + 1].of = n /\ wire'[g + 1].frame.sequence = 0
      BY <1>1, <2>2, <3>1
    <3> QED
      BY <1>1, <3>2, <3>3 DEF Next1
  <2>3. CASE g > l
    <3>1. g \in l + 1..l + c /\ g + 1 \in l + 1..l + c /\ g - l # c
      BY <1>1, <2>3
    <3>2. ~wire'[g].frame.end
      BY <1>7, <3>1
    <3>3. /\ wire'[g].of = n /\ wire'[g + 1].of = n
          /\ wire'[g].frame.sequence = g - l - 1
          /\ wire'[g + 1].frame.sequence = g + 1 - l - 1
      BY <1>1, <3>1
    <3> QED
      BY <1>1, <3>2, <3>3 DEF Next1
  <2> QED
    BY <1>1, <2>1, <2>2, <2>3
<1>13. wire'[Len(wire')].frame.end /\ wire'[Len(wire')].of = Len(sent')
  <2>1. l + c \in l + 1..l + c /\ l + c - l = c
    BY <1>1
  <2>2. wire'[l + c].frame.end
    <3> DEFINE g == l + c
    <3>1. g \in l + 1..l + c /\ g - l = c
      BY <1>1
    <3> HIDE DEF g
    <3>2. wire'[g].frame.end
      BY <1>7, <3>1
    <3> QED
      BY <3>2 DEF g
  <2> QED
    BY <1>1, <1>3, <2>1, <2>2
<1> QED
  BY <1>8, <1>9, <1>10, <1>11, <1>12, <1>13 DEF InStep

LEMMA StreamRead ==
  ASSUME FrameInv, InStep, Reads,
         ~Feed(assembler, Head(wire).frame).refused => wire' = Tail(wire)
  PROVE  InStep'
<1> DEFINE w == Head(wire)  f == w.frame.sequence  s == sent[w.of]
           fed == Feed(assembler, w.frame)  k == Len(got) + 1
<1>1. /\ Len(wire) \in Nat \ {0} /\ w = wire[1] /\ w \in WireFrame /\ Genuine(w)
      /\ Len(Tail(wire)) = Len(wire) - 1
      /\ \A g \in 1..Len(wire) - 1 : Tail(wire)[g] = wire[g + 1]
  BY WireHead DEF FrameInv, Reads
<1>2. w.of \in DOMAIN sent /\ f \in Parts(s) /\ w.frame = Frame(s, f)
  BY <1>1 DEF Genuine
<1>3. /\ got \in Seq(Received) /\ Len(got) \in Nat /\ DOMAIN got = 1..Len(got)
      /\ sent \in Seq(Messages) /\ Len(sent) \in Nat /\ DOMAIN sent = 1..Len(sent)
      /\ s \in Messages
  BY <1>2, LenProperties, ElementOfSeq DEF FrameInv, MessagesOK
<1>4. /\ w.of = k /\ f = assembler.next /\ ~assembler.old
      /\ \A j \in DOMAIN got : got[j] = sent[j]
      /\ assembler.active =>
           begun = k /\ Agree(assembler.payload, sent[begun].payload, 0, Len(assembler.payload))
  BY <1>1 DEF InStep, Reads
<1>5. f # 0 => assembler.active
  BY <1>4 DEF FrameInv, AssemblyInv, Cleared
<1>6. assembler.active => Fits(assembler, sent[begun])
  BY DEF FrameInv, AssemblyInv
<1>7. FeedAdvances(Feed(assembler, Frame(s, f)), s, f)
  <2>1. f # 0 => /\ Fits(assembler, s) /\ assembler.next = f
                 /\ Agree(assembler.payload, s.payload, 0, Len(assembler.payload))
    BY <1>4, <1>5, <1>6
  <2> QED
    BY <1>2, <1>3, <1>4, <2>1, FeedAdvancing
<1>8. FeedAdvances(fed, s, f)
  BY <1>2, <1>7
<1>9. w.frame.start = (f = 0) /\ w.frame.end = (f + 1 = FrameCount(Len(s.payload)))
  <2>1. Frame(s, f).start = (f = 0) /\ Frame(s, f).end = (f + 1 = FrameCount(Len(s.payload)))
    BY <1>2, <1>3, FrameTyped
  <2> QED
    BY <1>2, <2>1
<1>10. begun' = k
  <2>1. begun' = IF w.frame.start THEN w.of ELSE begun
    BY DEF Reads, Fed1
  <2> QED
    BY <1>4, <1>5, <1>9, <2>1
<1>11. /\ wire' = Tail(wire) /\ assembler' = fed.assembler
       /\ got' = got \o fed.messages /\ sent' = sent
  BY <1>8 DEF FeedAdvances, Reads, Fed1, device
<1>12. \A g \in 1..Len(wire) - 1 : Next1(wire[g], wire[g + 1])
  BY DEF InStep, Reads
<1>13. wire[Len(wire)].frame.end /\ wire[Len(wire)].of = Len(sent)
  BY DEF InStep, Reads
<1>14. wire' = <<>> => Len(wire) = 1
  <2> SUFFICES ASSUME wire' = <<>> PROVE Len(wire) = 1
    OBVIOUS
  <2>1. Len(Tail(wire)) = 0
    BY <1>11, EmptySeq
  <2>2. Len(wire) \in Nat /\ Len(Tail(wire)) = Len(wire) - 1
    BY <1>1
  <2> QED
    BY <2>1, <2>2
<1>15. wire' # <<>> =>
         /\ Len(wire) > 1 /\ Len(wire') = Len(wire) - 1
         /\ wire'[1] = wire[2] /\ Next1(wire[1], wire[2])
         /\ \A g \in 1..Len(wire') - 1 : Next1(wire'[g], wire'[g + 1])
         /\ wire'[Len(wire')] = wire[Len(wire)]
  <2> SUFFICES ASSUME wire' # <<>>
               PROVE  /\ Len(wire) > 1 /\ Len(wire') = Len(wire) - 1
                      /\ wire'[1] = wire[2] /\ Next1(wire[1], wire[2])
                      /\ \A g \in 1..Len(wire') - 1 : Next1(wire'[g], wire'[g + 1])
                      /\ wire'[Len(wire')] = wire[Len(wire)]
    OBVIOUS
  <2>1. Len(Tail(wire)) # 0
    BY <1>11, WireHead, EmptySeq DEF FrameInv, Reads
  <2>2. Len(wire) > 1 /\ Len(wire') = Len(wire) - 1
    BY <1>1, <1>11, <2>1
  <2>3. \A g \in 1..Len(wire) - 1 : wire'[g] = wire[g + 1]
    BY <1>1, <1>11
  <2>4. wire'[1] = wire[2] /\ wire'[Len(wire')] = wire[Len(wire)] /\ Next1(wire[1], wire[2])
    BY <1>1, <1>12, <2>2, <2>3
  <2>5. ASSUME NEW g \in 1..Len(wire') - 1 PROVE Next1(wire'[g], wire'[g + 1])
    <3> DEFINE h == g + 1
    <3>1. h \in 1..Len(wire) - 1 /\ wire'[g] = wire[h] /\ wire'[h] = wire[h + 1]
      BY <1>1, <2>2, <2>3
    <3>2. Next1(wire[h], wire[h + 1])
      BY <1>12, <3>1
    <3> QED
      BY <3>1, <3>2
  <2> QED
    BY <2>2, <2>4, <2>5
<1> HIDE DEF w, f, s, fed, k
<1>16. CASE f + 1 # FrameCount(Len(s.payload))
  <2>1. /\ fed.messages = <<>> /\ fed.assembler.active /\ ~fed.assembler.old
        /\ fed.assembler.next = f + 1
        /\ Agree(fed.assembler.payload, s.payload, 0, Len(fed.assembler.payload))
    BY <1>8, <1>16 DEF FeedAdvances
  <2>2. got' = got
    BY <1>3, <1>11, <2>1, ConcatEmptySeq
  <2>3. ~wire[1].frame.end
    BY <1>1, <1>9, <1>16
  <2>4. wire' # <<>>
    BY <1>13, <1>14, <2>3
  <2>5. wire'[1].of = k /\ wire'[1].frame.sequence = f + 1
    BY <1>1, <1>4, <1>15, <2>3, <2>4 DEF Next1, f
  <2>6. s = sent[k]
    BY <1>4 DEF s
  <2>7. Len(got') <= Len(sent') /\ \A j \in DOMAIN got' : got'[j] = sent'[j]
    BY <1>4, <1>11, <2>2 DEF InStep
  <2>8. /\ ~assembler'.old
        /\ assembler'.active =>
             /\ begun' = Len(got') + 1
             /\ Agree(assembler'.payload, sent'[begun'].payload, 0, Len(assembler'.payload))
    BY <1>10, <1>11, <2>1, <2>2, <2>6 DEF k
  <2>9. /\ wire'[1].of = Len(got') + 1 /\ wire'[1].frame.sequence = assembler'.next
    BY <1>11, <2>1, <2>2, <2>5 DEF k
  <2> QED
    BY <1>11, <1>13, <1>15, <2>4, <2>7, <2>8, <2>9 DEF InStep
<1>17. CASE f + 1 = FrameCount(Len(s.payload))
  <2>1. fed.messages = <<s>> /\ fed.assembler = Cleared
    BY <1>8, <1>17 DEF FeedAdvances
  <2>2. s \in Received
    BY <1>3, MessageTyped, PayloadTyped DEF Received
  <2>3. got' = Append(got, s)
    BY <1>3, <1>11, <2>1, <2>2, AppendIsConcat
  <2>4. /\ Len(got') = k /\ DOMAIN got' = 1..k /\ got'[k] = s
        /\ \A j \in 1..Len(got) : got'[j] = got[j]
    <3>1. /\ Len(got') = k /\ got'[k] = s /\ got' \in Seq(Received)
          /\ \A j \in 1..Len(got) : got'[j] = got[j]
      BY <1>3, <2>2, <2>3, AppendProperties DEF k
    <3> QED
      BY <3>1, LenProperties
  <2>5. s = sent[k] /\ k \in DOMAIN sent /\ k \in Nat
    BY <1>2, <1>3, <1>4 DEF s, k
  <2>6. Len(got') <= Len(sent')
    BY <1>3, <1>11, <2>4, <2>5
  <2>7. \A j \in DOMAIN got' : got'[j] = sent'[j]
    BY <1>3, <1>4, <1>11, <2>4, <2>5 DEF k
  <2>8. assembler' = Cleared /\ ~assembler'.old /\ ~assembler'.active /\ assembler'.next = 0
    BY <1>11, <2>1 DEF Cleared
  <2>9. wire[1].frame.end
    BY <1>1, <1>9, <1>17
  <2>10. CASE wire' = <<>>
    <3>1. Len(got') = Len(sent')
      BY <1>1, <1>4, <1>11, <1>13, <1>14, <2>4, <2>10
    <3> QED
      BY <2>6, <2>7, <2>8, <2>10, <3>1 DEF InStep
  <2>11. CASE wire' # <<>>
    <3>1. wire'[1].of = Len(got') + 1 /\ wire'[1].frame.sequence = assembler'.next
      BY <1>1, <1>4, <1>15, <2>4, <2>8, <2>9, <2>11 DEF Next1
    <3> QED
      BY <1>11, <1>13, <1>15, <2>6, <2>7, <2>8, <2>11, <3>1 DEF InStep
  <2> QED
    BY <2>10, <2>11
<1> QED
  BY <1>16, <1>17

\* A frame lost, or an assembly too late, is counted.
LEMMA FaultCounts ==
  ASSUME SessionOK, Fault
  PROVE  spent'.faults # 0
<1>1. spent \in [faults : 0..MaxFaults, sessions : 1..MaxSessions] /\ MaxFaults \in Nat
  BY Bounds DEF SessionOK
<1>2. spent'.faults = spent.faults + 1
  BY <1>1 DEF Fault
<1> QED
  BY <1>1, <1>2

LEMMA StreamStays ==
  ASSUME StreamInv, UNCHANGED <<assembler, wire, begun, got, sent>>,
         (up /\ ~astray /\ spent.faults = 0)' => up /\ ~astray /\ spent.faults = 0
  PROVE  StreamInv'
  BY DEF StreamInv, InStep, Agree, Next1

LEMMA StreamStep ==
  ASSUME SessionOK, FrameInv, CallOK, StreamInv, [Next]_vars
  PROVE  StreamInv'
<1>1. CASE DeviceAnswers \/ DeviceRepeats \/ DeviceEvent
  <2>1. PICK m \in Messages : DeviceSends(m)
    BY <1>1, DeviceSendsMessages
  <2>2. UNCHANGED <<up, astray, spent>>
    BY <2>1 DEF DeviceSends
  <2> QED
    BY <2>1, <2>2, StreamSend DEF StreamInv
<1>2. CASE ReadForCall \/ ReadIdle
  <2>1. Reads
    BY <1>2, ReadingReads
  <2>2. up /\ ~astray /\ UNCHANGED <<astray, spent>>
    BY <2>1 DEF Reads
  <2>3. ~Feed(assembler, Head(wire).frame).refused => wire' = Tail(wire)
    BY <1>2 DEF ReadForCall, ReadIdle
  <2> QED
    BY <2>1, <2>2, <2>3, StreamRead DEF StreamInv
<1>3. CASE Lose \/ Age
  BY <1>3, FaultCounts DEF Lose, Age, StreamInv
<1>4. CASE Call
  <2>1. astray' = (astray \/ half) /\ UNCHANGED <<assembler, wire, begun, got, sent, up, spent>>
    BY <1>4 DEF Call, DropRead, device
  <2> QED
    BY <2>1, StreamStays
<1>5. CASE WriteFrame \/ ReadLength
  <2>1. UNCHANGED <<assembler, wire, begun, got, sent>> /\ UNCHANGED <<up, astray, spent>>
    BY <1>5 DEF WriteFrame, ReadLength, device, reading
  <2> QED
    BY <2>1, StreamStays
<1>6. CASE CallFails \/ CallTimesOut \/ ReadBadLength
  <2>1. ~up'
    BY <1>6 DEF CallFails, CallTimesOut, ReadBadLength, EndSession
  <2> QED
    BY <2>1 DEF StreamInv
<1>7. CASE ReadGarbage
  <2>1. astray'
    BY <1>7 DEF ReadGarbage
  <2> QED
    BY <2>1 DEF StreamInv
<1>8. CASE Reopen
  <2>1. assembler' = Cleared /\ wire' = <<>> /\ got' = <<>> /\ sent' = <<>>
    BY <1>8 DEF Reopen, Opened
  <2>2. Len(got') = 0 /\ Len(sent') = 0 /\ DOMAIN got' = {}
    BY <2>1, EmptySeq, LenProperties
  <2>3. ~assembler'.active /\ ~assembler'.old
    BY <2>1 DEF Cleared
  <2>4. InStep'
    BY <2>1, <2>2, <2>3 DEF InStep
  <2> QED
    BY <2>4 DEF StreamInv
<1>9. CASE UNCHANGED vars
  <2>1. UNCHANGED <<assembler, wire, begun, got, sent>> /\ UNCHANGED <<up, astray, spent>>
    BY <1>9 DEF vars, device, reading
  <2> QED
    BY <2>1, StreamStays
<1> QED
  BY <1>1, <1>2, <1>3, <1>4, <1>5, <1>6, <1>7, <1>8, <1>9 DEF Next, Agent, Device

-----------------------------------------------------------------------------
(* The invariant                                                           *)

LEMMA InitInv ==
  ASSUME Init
  PROVE  RpcInv
<1>1. /\ assembler = Cleared /\ wire = <<>> /\ got = <<>> /\ sent = <<>>
      /\ begun = 0 /\ last = 0 /\ call = Calm /\ calls = 0 /\ returned = None
      /\ asked = 0 /\ answers = [n \in 1..MaxCalls |-> None]
      /\ up = TRUE /\ astray = FALSE /\ half = FALSE /\ lan \in BOOLEAN
      /\ spent = [faults |-> 0, sessions |-> 1]
  BY DEF Init
<1>2. /\ wire \in Seq(WireFrame) /\ Len(wire) = 0 /\ DOMAIN wire = {}
      /\ got \in Seq(Received) /\ Len(got) = 0 /\ DOMAIN got = {}
      /\ sent \in Seq(Messages) /\ Len(sent) = 0 /\ DOMAIN sent = {}
  BY <1>1, EmptySeq, LenProperties
<1>3. 0 \in 0..MaxCalls /\ 0 \in 0..SeqLimit - 1 /\ 0 \in 0..MaxFaults /\ 1 \in 1..MaxSessions
  BY Bounds, FramingAssumption
<1>4. ~assembler.active /\ ~assembler.old
  BY <1>1 DEF Cleared
<1>5. SessionOK
  BY <1>1, <1>3 DEF SessionOK
<1>6. CallOK
  BY <1>1, <1>3 DEF CallOK, Calm
<1>7. MessagesOK
  BY <1>1, <1>2, Bounds DEF MessagesOK
<1>8. WireInv /\ OrderInv
  BY <1>2, Bounds DEF WireInv, OrderInv
<1>9. AssemblyInv
  BY <1>1, <1>4 DEF AssemblyInv
<1>10. CallInv
  BY <1>1 DEF CallInv, Calm
<1>11. AnswerInv
  BY <1>1, <1>2 DEF AnswerInv, Open, Calm
<1>12. ReturnInv
  BY <1>1 DEF ReturnInv
<1>13. StreamInv
  BY <1>1, <1>2, <1>4 DEF StreamInv, InStep
<1> QED
  BY <1>5, <1>6, <1>7, <1>8, <1>9, <1>10, <1>11, <1>12, <1>13 DEF RpcInv

LEMMA StepInv ==
  ASSUME RpcInv, [Next]_vars
  PROVE  RpcInv'
<1>1. SessionOK'
  BY SessionStep DEF RpcInv
<1>2. FrameInv'
  BY FrameStep DEF RpcInv, FrameInv
<1>3. CallOK' /\ CallerInv'
  BY CallerStep DEF RpcInv, FrameInv, CallerInv
<1>4. StreamInv'
  BY StreamStep DEF RpcInv, FrameInv
<1> QED
  BY <1>1, <1>2, <1>3, <1>4 DEF RpcInv, FrameInv, CallerInv

\* Requests, frames, assemblies and answers are as described in RpcInv, at all times.
THEOREM RpcInvariant == Spec => []RpcInv
  BY InitInv, StepInv, PTL DEF Spec

-----------------------------------------------------------------------------
(* What a caller gets                                                      *)

\* Every request that returns, returns what the device answered to that very request:
\* no late, repeated or mixed-up response is taken for it.
THEOREM ReturnedOwn == Spec => []ReturnedIsAnswer
<1>1. RpcInv => ReturnedIsAnswer
  BY DEF RpcInv, ReturnInv, ReturnedIsAnswer
<1> QED
  BY <1>1, RpcInvariant, PTL

\* While nothing is lost or late, every message of the device is put together: the
\* checksum is not needed for that, and no frame is counted wrong.
THEOREM NothingIsSkipped == Spec => []NothingSkipped
<1>1. ASSUME RpcInv PROVE NothingSkipped
  <2> SUFFICES ASSUME up, ~astray, wire = <<>>, spent.faults = 0 PROVE got = sent
    BY DEF NothingSkipped
  <2>1. /\ Len(got) = Len(sent) /\ \A j \in DOMAIN got : got[j] = sent[j]
    BY <1>1 DEF RpcInv, StreamInv, InStep
  <2>2. got \in Seq(Received) /\ sent \in Seq(Messages)
    BY <1>1 DEF RpcInv, MessagesOK
  <2>3. Messages \subseteq Received
    BY MessageTyped, PayloadTyped DEF Received
  <2>4. sent \in Seq(Received)
    BY <2>2, <2>3
  <2>5. DOMAIN got = 1..Len(got)
    BY <2>2, LenProperties
  <2> QED
    BY <2>1, <2>2, <2>4, <2>5, SeqEqual
<1> QED
  BY <1>1, RpcInvariant, PTL

-----------------------------------------------------------------------------
(* The channel                                                             *)

\* What arrives is a message of the device, whole.
LEMMA ArrivesWhole ==
  ASSUME MessagesOK, Arrives, UNCHANGED sent
  PROVE  /\ \E n \in DOMAIN sent : Channel!Arrive(n)
         /\ begun' \in DOMAIN sent /\ got' = Append(got, sent[begun'])
         /\ sent[begun'] \in Messages
<1> DEFINE m == sent[begun']
<1>1. PICK q : /\ Completed(q, m)
               /\ got' = Append(got, [kind |-> m.kind, id |-> m.id, payload |-> q])
  BY DEF Arrives
<1>2. begun' \in DOMAIN sent /\ begun' > last /\ last' = begun'
  BY DEF Arrives
<1>3. m \in Messages
  BY <1>2, LenProperties, ElementOfSeq DEF MessagesOK
<1> HIDE DEF m
<1>4. q = m.payload
  BY <1>1, <1>3, CompletedIs
<1>5. [kind |-> m.kind, id |-> m.id, payload |-> q] = m
  BY <1>3, <1>4, MessageTyped
<1>6. got' = Append(got, m)
  BY <1>1, <1>5
<1>7. Channel!Arrive(begun')
  BY <1>2, <1>6 DEF Channel!Arrive, m
<1> QED
  BY <1>2, <1>3, <1>6, <1>7 DEF m

LEMMA ChannelStep ==
  ASSUME RpcInv, [Next]_vars
  PROVE  [Channel!Next]_<<sent, got, last>>
<1>1. CASE DeviceAnswers \/ DeviceRepeats \/ DeviceEvent
  <2>1. PICK m \in Messages : DeviceSends(m)
    BY <1>1, DeviceSendsMessages DEF RpcInv
  <2>2. Channel!Send(m)
    BY <2>1 DEF DeviceSends, Channel!Send
  <2> QED
    BY <2>2 DEF Channel!Next
<1>2. CASE ReadForCall \/ ReadIdle
  <2>1. Reads
    BY <1>2, ReadingReads
  <2>2. UNCHANGED sent
    BY <2>1 DEF Reads, device
  <2>3. NothingArrives \/ Arrives
    BY <2>1, <2>2, OneAnswer, ReadKeeps DEF Reads, RpcInv
  <2>4. CASE NothingArrives
    BY <2>2, <2>4 DEF NothingArrives
  <2>5. CASE Arrives
    <3>1. MessagesOK
      BY DEF RpcInv
    <3> QED
      BY <2>2, <2>5, <3>1, ArrivesWhole DEF Channel!Next
  <2> QED
    BY <2>3, <2>4, <2>5
<1>3. CASE Reopen
  BY <1>3 DEF Reopen, Opened, Channel!Restart, Channel!Next
<1>4. CASE ReadGarbage
  <2>1. last' = last /\ got' = got \o <<>> /\ UNCHANGED sent
    BY <1>4, FeedGarbage DEF ReadGarbage, Fed1, device
  <2>2. got' = got
    BY <2>1, ConcatEmptySeq DEF RpcInv, MessagesOK
  <2> QED
    BY <2>1, <2>2
<1>5. CASE \/ Call \/ WriteFrame \/ CallFails \/ CallTimesOut \/ ReadLength
           \/ ReadBadLength \/ Age \/ Lose
  BY <1>5 DEF Call, WriteFrame, CallFails, CallTimesOut, ReadLength, ReadBadLength, Age, Lose,
     device, reading
<1>6. CASE UNCHANGED vars
  BY <1>6 DEF vars, device, reading
<1> QED
  BY <1>1, <1>2, <1>3, <1>4, <1>5, <1>6 DEF Next, Agent, Device

\* The frames of a session, lost and repeated as they may be, are a channel of whole
\* messages, in their order and at most once each.
THEOREM RpcImplementsChannel == Spec => ImplementsChannel
<1>1. Init => Channel!Init
  BY DEF Init, Channel!Init
<1>2. RpcInv /\ [Next]_vars => [Channel!Next]_<<sent, got, last>>
  BY ChannelStep
<1> QED
  BY <1>1, <1>2, RpcInvariant, PTL DEF Spec, ImplementsChannel, Channel!Spec

-----------------------------------------------------------------------------
(* Types                                                                   *)

LEMMA GotTyped ==
  ASSUME RpcInv, got \in Seq(Messages), [Next]_vars
  PROVE  got' \in Seq(Messages)
<1>1. CASE UNCHANGED <<sent, got, last>>
  BY <1>1
<1>2. CASE Channel!Next
  <2>1. CASE \E m \in Messages : Channel!Send(m)
    BY <2>1 DEF Channel!Send
  <2>2. CASE \E n \in DOMAIN sent : Channel!Arrive(n)
    <3>1. PICK n \in DOMAIN sent : Channel!Arrive(n)
      BY <2>2
    <3>2. sent[n] \in Messages
      BY LenProperties, ElementOfSeq DEF RpcInv, MessagesOK
    <3> QED
      BY <3>1, <3>2, AppendProperties DEF Channel!Arrive
  <2>3. CASE Channel!Restart
    BY <2>3, EmptySeq DEF Channel!Restart
  <2> QED
    BY <1>2, <2>1, <2>2, <2>3 DEF Channel!Next
<1> QED
  BY <1>1, <1>2, ChannelStep

LEMMA TypesOf ==
  ASSUME RpcInv, got \in Seq(Messages)
  PROVE  TypeOK
<1>1. assembler \in Assembler /\ Len(assembler.payload) <= assembler.length
  <2>1. CASE assembler.active
    BY <2>1 DEF RpcInv, AssemblyInv, Fits
  <2>2. CASE ~assembler.active
    <3>1. assembler = Cleared
      BY <2>2 DEF RpcInv, AssemblyInv
    <3>2. 0 \in 0..MaxCalls /\ 0 \in 0..SeqLimit - 1 /\ 0 \in 0..MaxLength
      BY Bounds, FramingAssumption
    <3> QED
      BY <3>1, <3>2, EmptySeq DEF Cleared, Assembler, Kinds
  <2> QED
    BY <2>1, <2>2
<1>2. /\ Len(wire) <= MaxWire
      /\ \A f \in DOMAIN wire : wire[f].of \in DOMAIN sent
  BY DEF RpcInv, WireInv, Genuine
<1>3. SessionOK /\ CallOK /\ MessagesOK
  BY DEF RpcInv
<1> QED
  BY <1>1, <1>2, <1>3 DEF TypeOK, SessionOK, CallOK, MessagesOK

\* Every variable has its type, no request has more frames than there are sequence
\* numbers, and no assembly has more data than it declared.
THEOREM RpcTypes == Spec => []TypeOK
<1> DEFINE Typed == RpcInv /\ got \in Seq(Messages)
<1>1. Init => Typed
  BY InitInv, EmptySeq DEF Init
<1>2. Typed /\ [Next]_vars => Typed'
  BY StepInv, GotTyped
<1>3. Typed => TypeOK
  BY TypesOf
<1> HIDE DEF Typed
<1> QED
  BY <1>1, <1>2, <1>3, PTL DEF Spec

=============================================================================
