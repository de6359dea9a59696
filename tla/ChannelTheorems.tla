---------------------------- MODULE ChannelTheorems ----------------------------
(***************************************************************************)
(* Facts about a bounded channel kept as a sequence: what it carries after *)
(* a send and after a receive, and in which order.  The proofs of the      *)
(* components cite them.                                                   *)
(***************************************************************************)
EXTENDS Functions, SequenceTheorems, TLAPS

\* An empty channel carries nothing.
LEMMA NothingCarried == Range(<<>>) = {}
  BY DEF Range

\* A send adds the message and nothing else, and keeps the channel's type.
LEMMA SendCarries ==
  ASSUME NEW S, NEW q \in Seq(S), NEW m \in S
  PROVE  /\ Append(q, m) \in Seq(S)
         /\ Range(Append(q, m)) = Range(q) \cup {m}
<1>1. /\ DOMAIN q = 1..Len(q)
      /\ Append(q, m) \in Seq(S)
      /\ DOMAIN Append(q, m) = 1..Len(q) + 1
      /\ Len(q) \in Nat
  BY AppendProperties, LenProperties
<1>2. /\ \A i \in 1..Len(q) : Append(q, m)[i] = q[i]
      /\ Append(q, m)[Len(q) + 1] = m
  BY AppendProperties
<1>3. 1..Len(q) + 1 = (1..Len(q)) \cup {Len(q) + 1}
  BY <1>1, SMT
<1>4. QED  BY <1>1, <1>2, <1>3 DEF Range

\* A receive removes the oldest message; what is left was there before.
LEMMA ReceiveCarries ==
  ASSUME NEW S, NEW q \in Seq(S), q # <<>>
  PROVE  /\ Head(q) \in S
         /\ Tail(q) \in Seq(S)
         /\ Head(q) = q[1]
         /\ Range(q) = Range(Tail(q)) \cup {Head(q)}
<1>1. /\ Tail(q) \in Seq(S)
      /\ Head(q) \in S
      /\ Len(Tail(q)) = Len(q) - 1
      /\ \A i \in 1..Len(Tail(q)) : Tail(q)[i] = q[i + 1]
  BY HeadTailProperties
<1>2. /\ DOMAIN q = 1..Len(q)
      /\ DOMAIN Tail(q) = 1..Len(q) - 1
      /\ Len(q) \in Nat \ {0}
  BY <1>1, LenProperties, EmptySeq
<1>3. Head(q) = q[1]
  OBVIOUS
<1>4. 1..Len(q) = {1} \cup {i + 1 : i \in 1..Len(q) - 1}
  <2>1. \A j \in 1..Len(q) : j = 1 \/ (j - 1 \in 1..Len(q) - 1 /\ j = (j - 1) + 1)
    BY <1>2, SMT
  <2>2. 1 \in 1..Len(q) /\ \A i \in 1..Len(q) - 1 : i + 1 \in 1..Len(q)
    BY <1>2, SMT
  <2>3. QED  BY <2>1, <2>2
<1>5. Range(q) = {q[1]} \cup {q[i + 1] : i \in 1..Len(q) - 1}
  BY <1>2, <1>4 DEF Range
<1>6. Range(Tail(q)) = {q[i + 1] : i \in 1..Len(q) - 1}
  BY <1>1, <1>2 DEF Range
<1>7. QED  BY <1>1, <1>3, <1>5, <1>6

\* A channel holds only what its type allows.
LEMMA CarriesTyped ==
  ASSUME NEW S, NEW q \in Seq(S)
  PROVE  Range(q) \subseteq S
  BY RangeOfSeq

-----------------------------------------------------------------------------
(* The order in a channel.                                                 *)

\* Behind a message of M there is none of A.
LastOf(q, M, A) == \A i, j \in DOMAIN q : i < j /\ q[i] \in M => q[j] \notin A

LEMMA EmptyLast == ASSUME NEW M, NEW A PROVE LastOf(<<>>, M, A)
  BY DEF LastOf

\* A send keeps the order if the message may come behind those that are there.
LEMMA SendKeepsLast ==
  ASSUME NEW S, NEW q \in Seq(S), NEW m \in S, NEW M, NEW A,
         LastOf(q, M, A), m \notin A \/ Range(q) \cap M = {}
  PROVE  LastOf(Append(q, m), M, A)
<1> SUFFICES ASSUME NEW i \in DOMAIN Append(q, m), NEW j \in DOMAIN Append(q, m),
                    i < j, Append(q, m)[i] \in M
             PROVE  Append(q, m)[j] \notin A
  BY DEF LastOf
<1>1. /\ DOMAIN q = 1..Len(q) /\ DOMAIN Append(q, m) = 1..Len(q) + 1 /\ Len(q) \in Nat
      /\ \A k \in 1..Len(q) : Append(q, m)[k] = q[k]
      /\ Append(q, m)[Len(q) + 1] = m
  BY AppendProperties, LenProperties
<1>2. i \in DOMAIN q /\ q[i] \in M
  BY <1>1
<1>3. CASE j \in DOMAIN q
  BY <1>1, <1>2, <1>3 DEF LastOf
<1>4. CASE j = Len(q) + 1
  BY <1>1, <1>2, <1>4 DEF Range
<1> QED
  BY <1>1, <1>3, <1>4

\* A receive keeps the order, and behind a message of M none of A is left.
LEMMA ReceiveKeepsLast ==
  ASSUME NEW S, NEW q \in Seq(S), q # <<>>, NEW M, NEW A, LastOf(q, M, A)
  PROVE  /\ LastOf(Tail(q), M, A)
         /\ Head(q) \in M => Range(Tail(q)) \cap A = {}
<1>1. /\ Tail(q) \in Seq(S) /\ Head(q) = q[1]
      /\ Len(Tail(q)) = Len(q) - 1
      /\ \A i \in 1..Len(Tail(q)) : Tail(q)[i] = q[i + 1]
  BY HeadTailProperties, ReceiveCarries
<1>2. /\ DOMAIN q = 1..Len(q) /\ DOMAIN Tail(q) = 1..Len(q) - 1
      /\ Len(q) \in Nat \ {0}
  BY <1>1, LenProperties, EmptySeq
<1>3. ASSUME NEW i \in DOMAIN Tail(q)
      PROVE  /\ i \in Nat /\ i + 1 \in DOMAIN q /\ 1 < i + 1
             /\ Tail(q)[i] = q[i + 1]
  BY <1>1, <1>2
<1>4. ASSUME NEW i \in DOMAIN Tail(q), NEW j \in DOMAIN Tail(q), i < j, Tail(q)[i] \in M
      PROVE  Tail(q)[j] \notin A
  <2>1. i + 1 < j + 1
    BY <1>3, <1>4
  <2> QED
    BY <1>3, <1>4, <2>1 DEF LastOf
<1>5. ASSUME Head(q) \in M, NEW i \in DOMAIN Tail(q) PROVE Tail(q)[i] \notin A
  <2>1. 1 \in DOMAIN q
    BY <1>2
  <2> QED
    BY <1>1, <1>3, <1>5, <2>1 DEF LastOf
<1> QED
  BY <1>4, <1>5 DEF LastOf, Range

=============================================================================
