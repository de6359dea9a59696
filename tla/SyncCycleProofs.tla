---------------------------- MODULE SyncCycleProofs ----------------------------
(***************************************************************************)
(* Proofs about the battery auto-sync cycle, for every set of producers,   *)
(* every number of sources and every capacity of the channels.             *)
(***************************************************************************)
EXTENDS SyncCycle, ChannelTheorems

\* The publisher is busy with at most one command.
HeldIsOne == held = <<>> \/ held = <<held[1]>>

\* A producer whose publish is at the publisher waits for the reply, with the
\* source it collected not counted yet.
PublisherAwaited ==
    \A m \in Range(queue) \cup Range(held) : m.op = "publish" =>
        /\ m.from \in Producers
        /\ producer[m.from].pc = "publishing"
        /\ producer[m.from].left > 0

\* It waits for one reply: its publish is at the publisher only once.
PublishIsOne ==
    /\ \A i, j \in DOMAIN queue :
          queue[i].op = "publish" /\ queue[j].op = "publish" /\ queue[i].from = queue[j].from
             => i = j
    /\ \A m \in Range(held), i \in DOMAIN queue :
          m.op = "publish" /\ queue[i].op = "publish" => queue[i].from # m.from

\* Only producers report.
ReporterKnown ==
    \A m \in Range(queue) \cup Range(held) : m.op = "complete" => m.from \in Producers

OutstandingPublish == HeldIsOne /\ PublisherAwaited /\ PublishIsOne /\ ReporterKnown

TypeInv == TypeOK /\ OutstandingPublish

-----------------------------------------------------------------------------
(* Every step keeps the type invariant.                                    *)

\* A held command is one command.
LEMMA HeldOne ==
  ASSUME NEW m PROVE Range(<<m>>) = {m} /\ Head(<<m>>) = m /\ <<m>> # <<>>
  BY DEF Range

LEMMA InitType == Init => TypeInv
<1> SUFFICES ASSUME Init PROVE TypeInv
  OBVIOUS
<1> USE RegistryAssumption
<1>1. TypeOK
  <2>1. /\ queue \in Seq(Command) /\ held \in Seq(Command)
        /\ completions \in Seq(Completion) /\ events \in Seq(Event)
        /\ synced \in Seq(Nat)
        /\ triggers \in [Producers -> Seq(Nat)]
    BY EmptySeq DEF Init
  <2>2. QED  BY <2>1 DEF Init, TypeOK, Idle, NoCycle, Manual
<1>2. OutstandingPublish
  BY NothingCarried DEF Init, OutstandingPublish, HeldIsOne, PublisherAwaited, PublishIsOne, ReporterKnown
<1>3. QED  BY <1>1, <1>2 DEF TypeInv

\* A broadcast keeps the type of the ring.
LEMMA BroadcastType ==
  ASSUME events \in Seq(Event), NEW e \in Event
  PROVE  Broadcast(events, e) \in Seq(Event)
<1>1. CASE Len(events) < EventCap
  BY <1>1, SendCarries DEF Broadcast
<1>2. CASE ~ Len(events) < EventCap
  <2>1. events # <<>>
    BY <1>2, CapacityAssumption, EmptySeq
  <2>2. Tail(events) \in Seq(Event)
    BY <2>1, ReceiveCarries
  <2>3. QED  BY <1>2, <2>2, SendCarries DEF Broadcast
<1>3. QED  BY <1>1, <1>2

\* The publisher takes its oldest command.
LEMMA TakeCarries ==
  ASSUME TypeInv, NEW op, Take(op)
  PROVE  /\ held = <<>>
         /\ Head(queue) \in Command
         /\ Head(queue) = queue[1]
         /\ Head(queue).op = op
         /\ queue' = Tail(queue)
         /\ queue' \in Seq(Command)
         /\ Range(queue) = Range(queue') \cup {Head(queue)}
  BY ReceiveCarries DEF TypeInv, TypeOK, Take

\* What the publisher holds is a command.
LEMMA HeldType ==
  ASSUME TypeInv, held # <<>>
  PROVE  /\ Head(held) \in Command
         /\ held = <<Head(held)>>
         /\ Range(held) = {Head(held)}
<1>1. Head(held) = held[1] /\ Head(held) \in Command
  BY ReceiveCarries DEF TypeInv, TypeOK
<1>2. held = <<Head(held)>>
  BY <1>1 DEF TypeInv, OutstandingPublish, HeldIsOne
<1>3. QED  BY <1>1, <1>2, HeldOne

ProducerState == [pc : {"idle", "collect", "publishing"}, cycle : Nat, left : Nat, ok : BOOLEAN]

\* A producer that is done with a source goes on with the next one.
LEMMA NextSourceType ==
  ASSUME TypeInv, NEW p \in Producers, NEW ok \in BOOLEAN,
         producer[p].left > 0, NextSource(p, ok)
  PROVE  /\ producer' \in [Producers -> ProducerState]
         /\ producer'[p].pc = "collect"
         /\ producer'[p].cycle = producer[p].cycle
         /\ \A q \in Producers \ {p} : producer'[q] = producer[q]
<1>1. producer[p] \in ProducerState /\ producer \in [Producers -> ProducerState]
  BY DEF TypeInv, TypeOK, ProducerState
<1> DEFINE good == producer[p].ok /\ ok
           next == [pc |-> "collect", cycle |-> producer[p].cycle,
                    left |-> producer[p].left - 1, ok |-> good]
<1>2. producer' = [producer EXCEPT ![p] = next]
  BY DEF NextSource
<1>3. good \in BOOLEAN
  OBVIOUS
<1> HIDE DEF good
<1>4. next \in ProducerState /\ next.pc = "collect" /\ next.cycle = producer[p].cycle
  BY <1>1, <1>3 DEF ProducerState
<1> HIDE DEF next
<1>5. QED  BY <1>1, <1>2, <1>4

LEMMA TypeOKStep == TypeInv /\ [Next]_vars => TypeOK'
<1> SUFFICES ASSUME TypeInv, [Next]_vars PROVE TypeOK'
  OBVIOUS
<1> USE DEF TypeInv, TypeOK, linkVars, coordVars, historyVars
<1>1. CASE Connect
  <2>1. link'.no \in Nat /\ link' = [link EXCEPT !.up = TRUE, !.no = link'.no]
    BY <1>1 DEF Connect
  <2>2. events' \in Seq(Event)
    BY <1>1, BroadcastType DEF Connect, Event
  <2>3. QED  BY <1>1, <2>1, <2>2 DEF Connect
<1>2. CASE Disconnect
  BY <1>2, BroadcastType DEF Disconnect, Event
<1>3. CASE ChangeMode
  BY <1>3 DEF ChangeMode
<1>4. CASE IgnoreEvent
  BY <1>4, ReceiveCarries DEF IgnoreEvent
<1>5. CASE StartCycle
  <2>1. events' \in Seq(Event)
    BY <1>5, ReceiveCarries DEF StartCycle
  <2>2. /\ active' = [id |-> nextId, expected |-> Producers, ok |-> TRUE]
        /\ coord' = [pc |-> "trigger", cycle |-> nextId, toSend |-> Producers]
        /\ nextId' = nextId + 1
        /\ UNCHANGED <<link, triggers, producer, queue, held, completions, historyVars>>
    BY <1>5 DEF StartCycle
  <2>3. /\ active' \in [id : Nat, expected : SUBSET Producers, ok : BOOLEAN]
        /\ nextId' \in Nat \ {0}
    BY <2>2
  <2>4. coord' \in [pc : {"select", "trigger", "flush", "flushing", "request", "waiting"},
                    cycle : Nat, toSend : SUBSET Producers]
    BY <2>2
  <2>5. QED  BY <2>1, <2>2, <2>3, <2>4
<1>6. CASE IgnoreCompletion
  BY <1>6, ReceiveCarries DEF IgnoreCompletion
<1>7. CASE CountCompletion
  BY <1>7, ReceiveCarries DEF CountCompletion, Count, NoCycle, Completion
<1>8. CASE SendFlush
  BY <1>8, SendCarries DEF SendFlush, Command, Request
<1>9. CASE SyncRefused
  BY <1>9 DEF SyncRefused
<1>10. CASE RequestSync
  BY <1>10 DEF RequestSync
<1>11. CASE SyncServed
  BY <1>11, SendCarries DEF SyncServed
<1>12. CASE SyncFails
  BY <1>12 DEF SyncFails
<1>13. CASE SkipPut
  <2>1. PICK ok \in BOOLEAN : NextSource(Head(queue).from, ok)
    BY <1>13 DEF SkipPut
  <2>2. /\ Head(queue).from \in Producers
        /\ producer[Head(queue).from].left > 0
    BY <1>13, TakeCarries DEF SkipPut, OutstandingPublish, PublisherAwaited
  <2>3. queue' \in Seq(Command)
    BY <1>13, TakeCarries DEF SkipPut
  <2>4. QED
    BY ZenonT(30), <1>13, <2>1, <2>2, <2>3, NextSourceType DEF SkipPut, ProducerState
<1>14. CASE StartPut
  <2>1. queue' \in Seq(Command) /\ held' \in Seq(Command)
    BY SMTT(30), <1>14, TakeCarries DEF StartPut
  <2>2. QED  BY <1>14, <2>1 DEF StartPut
<1>15. CASE PutAnswered
  <2>1. PICK ok \in BOOLEAN : NextSource(Head(held).from, ok)
    BY <1>15 DEF PutAnswered
  <2>2. /\ Head(held).from \in Producers
        /\ producer[Head(held).from].left > 0
    BY <1>15, HeldType DEF PutAnswered, OutstandingPublish, PublisherAwaited
  <2>3. QED
    BY ZenonT(30), <1>15, <2>1, <2>2, NextSourceType, EmptySeq DEF PutAnswered, ProducerState
<1>16. CASE PutFails
  <2>1. /\ Head(held).from \in Producers
        /\ producer[Head(held).from].left > 0
    BY <1>16, HeldType DEF PutFails, OutstandingPublish, PublisherAwaited
  <2>2. QED
    BY <1>16, <2>1, NextSourceType, EmptySeq DEF PutFails, ProducerState
<1>17. CASE HandleComplete
  <2>1. queue' \in Seq(Command) /\ held' \in Seq(Command)
    BY SMTT(30), <1>17, TakeCarries DEF HandleComplete
  <2>2. QED  BY <1>17, <2>1 DEF HandleComplete
<1>18. CASE ForwardCompletion
  <2>1. Head(held) \in Completion
    BY <1>18, HeldType DEF ForwardCompletion, OutstandingPublish, ReporterKnown, Command, Completion
  <2>2. QED
    BY <1>18, <2>1, SendCarries, EmptySeq DEF ForwardCompletion
<1>19. CASE HandleFlush
  <2>1. queue' \in Seq(Command)
    BY <1>19, TakeCarries DEF HandleFlush
  <2>2. QED  BY <1>19, <2>1 DEF HandleFlush
<1>20. ASSUME NEW p \in Producers, RefreshManually(p) PROVE TypeOK'
  BY <1>20, SendCarries DEF RefreshManually, Manual
<1>21. ASSUME NEW p \in Producers, SendTrigger(p) PROVE TypeOK'
  BY <1>21, SendCarries DEF SendTrigger
<1>22. ASSUME NEW p \in Producers, TakeTrigger(p) PROVE TypeOK'
  BY <1>22, ReceiveCarries, RegistryAssumption DEF TakeTrigger, Run
<1>23. ASSUME NEW p \in Producers, Poll(p) PROVE TypeOK'
  BY <1>23, RegistryAssumption DEF Poll, Run, Manual
<1>24. ASSUME NEW p \in Producers, CollectFails(p) PROVE TypeOK'
  BY <1>24, NextSourceType DEF CollectFails, ProducerState
<1>25. ASSUME NEW p \in Producers, Publish(p) PROVE TypeOK'
  <2>1. Request("publish", p, producer[p].cycle, TRUE) \in Command
    BY DEF Request, Command
  <2>2. queue' \in Seq(Command)
    BY <1>25, <2>1, SendCarries DEF Publish
  <2>3. QED  BY ZenonT(30), <1>25, <2>2 DEF Publish
<1>26. ASSUME NEW p \in Producers, EndRun(p) PROVE TypeOK'
  BY <1>26 DEF EndRun, Idle, Manual
<1>27. ASSUME NEW p \in Producers, ReportCycle(p) PROVE TypeOK'
  <2>1. Request("complete", p, producer[p].cycle, producer[p].ok) \in Command
    BY DEF Request, Command
  <2>2. queue' \in Seq(Command)
    BY <1>27, <2>1, SendCarries DEF ReportCycle, Report
  <2>3. ran' \subseteq Nat \X Producers
    BY <1>27 DEF ReportCycle, Report
  <2>4. producer' \in [Producers -> ProducerState]
    BY <1>27 DEF ReportCycle, Report, Idle, Manual, ProducerState
  <2>5. QED  BY <1>27, <2>2, <2>3, <2>4 DEF ReportCycle, Report, ProducerState
<1>28. ASSUME NEW p \in Producers, DropCycle(p) PROVE TypeOK'
  <2>1. lost' \subseteq Nat \X Producers
    BY <1>28 DEF DropCycle
  <2>2. producer' \in [Producers -> ProducerState]
    BY <1>28 DEF DropCycle, Idle, Manual, ProducerState
  <2>3. QED  BY <1>28, <2>1, <2>2 DEF DropCycle, ProducerState
<1>29. CASE UNCHANGED vars
  BY <1>29 DEF vars
<1>30. QED
  BY <1>1, <1>2, <1>3, <1>4, <1>5, <1>6, <1>7, <1>8, <1>9, <1>10, <1>11, <1>12, <1>13, <1>14, <1>15, <1>16, <1>17, <1>18, <1>19, <1>20, <1>21, <1>22, <1>23, <1>24, <1>25, <1>26, <1>27, <1>28, <1>29 DEF Next, Coordinator, Producer, Publisher, Environment

\* What a receive does to the positions of the queue.
LEMMA TakeShifts ==
  ASSUME TypeInv, NEW op, Take(op)
  PROVE  /\ 1 \in DOMAIN queue
         /\ \A i \in DOMAIN queue' : i \in Nat \ {0} /\ i + 1 \in DOMAIN queue /\ queue'[i] = queue[i + 1]
<1>1. /\ Len(Tail(queue)) = Len(queue) - 1
      /\ \A i \in 1..Len(Tail(queue)) : Tail(queue)[i] = queue[i + 1]
      /\ Tail(queue) \in Seq(Command)
      /\ queue' = Tail(queue)
  BY HeadTailProperties DEF Take, TypeInv, TypeOK
<1>2. /\ DOMAIN queue = 1..Len(queue)
      /\ DOMAIN Tail(queue) = 1..Len(Tail(queue))
      /\ Len(queue) \in Nat \ {0}
  BY <1>1, LenProperties, EmptySeq DEF Take, TypeInv, TypeOK
<1>3. QED  BY <1>1, <1>2

\* What a send does to the positions of the queue.
LEMMA SendExtends ==
  ASSUME TypeInv, NEW m \in Command, queue' = Append(queue, m)
  PROVE  /\ Range(queue') = Range(queue) \cup {m}
         /\ \A i \in DOMAIN queue' :
               \/ i \in DOMAIN queue /\ queue'[i] = queue[i]
               \/ i = Len(queue) + 1 /\ queue'[i] = m
<1>1. DOMAIN queue = 1..Len(queue) /\ DOMAIN queue' = 1..Len(queue) + 1 /\ Len(queue) \in Nat
  BY LenProperties, AppendProperties DEF TypeInv, TypeOK
<1>2. QED  BY <1>1, SendCarries, AppendProperties DEF TypeInv, TypeOK

\* Once the oldest command is taken, no other publish of its producer is queued.
LEMMA TakenPublishIsOne ==
  ASSUME TypeInv, NEW op, Take(op)
  PROVE  /\ \A i, j \in DOMAIN queue' :
              /\ queue'[i].op = "publish"
              /\ queue'[j].op = "publish"
              /\ queue'[i].from = queue'[j].from
              => i = j
         /\ Head(queue).op = "publish" =>
              \A i \in DOMAIN queue' : queue'[i].op = "publish" => queue'[i].from # Head(queue).from
<1>1. PublishIsOne
  BY DEF TypeInv, OutstandingPublish
<1>2. ASSUME NEW i \in DOMAIN queue', NEW j \in DOMAIN queue',
             queue'[i].op = "publish", queue'[j].op = "publish", queue'[i].from = queue'[j].from
      PROVE  i = j
  <2>1. i + 1 = j + 1
    BY <1>1, <1>2, TakeShifts DEF PublishIsOne
  <2>2. i \in Nat /\ j \in Nat
    BY TakeShifts
  <2>3. QED  BY <2>1, <2>2
<1>3. ASSUME Head(queue).op = "publish", NEW i \in DOMAIN queue',
             queue'[i].op = "publish", queue'[i].from = Head(queue).from
      PROVE  FALSE
  <2>1. i + 1 = 1
    BY <1>1, <1>3, TakeShifts, TakeCarries DEF PublishIsOne
  <2>2. i \in Nat \ {0}
    BY TakeShifts
  <2>3. QED  BY <2>1, <2>2
<1>4. QED  BY <1>2, <1>3

\* The publisher's steps: a command leaves the queue, the held one is done.
LEMMA OutstandingPublishAtPublisher ==
  TypeInv /\ Publisher => OutstandingPublish'
<1> SUFFICES ASSUME TypeInv, Publisher PROVE OutstandingPublish'
  OBVIOUS
<1>1. PublisherAwaited /\ PublishIsOne /\ ReporterKnown
  BY DEF TypeInv, OutstandingPublish
<1>2. CASE SkipPut
  <2>1. PICK ok \in BOOLEAN : NextSource(Head(queue).from, ok)
    BY <1>2 DEF SkipPut
  <2> DEFINE p == Head(queue).from
  <2>2. p \in Producers /\ producer[p].left > 0 /\ Head(queue).op = "publish"
    BY <1>1, <1>2, TakeCarries DEF SkipPut, PublisherAwaited
  <2>3. \A q \in Producers \ {p} : producer'[q] = producer[q]
    BY ONLY TypeInv, <2>1, <2>2, NextSourceType
  <2>4. \A i \in DOMAIN queue' : queue'[i].op = "publish" => queue'[i].from # p
    BY <1>2, <2>2, TakenPublishIsOne DEF SkipPut
  <2>5. held' = <<>> /\ Range(held') = {}
    BY <1>2, TakeCarries, NothingCarried DEF SkipPut
  <2>6. Range(queue) = Range(queue') \cup {Head(queue)}
    BY <1>2, TakeCarries DEF SkipPut
  <2> HIDE DEF p
  <2>7. PublisherAwaited'
    <3>1. \A m \in Range(queue') : m.op = "publish" => m.from # p
      BY <2>4 DEF Range
    <3>2. QED  BY <1>1, <2>3, <2>5, <2>6, <3>1 DEF PublisherAwaited
  <2>8. PublishIsOne'
    BY <1>2, <2>5, TakenPublishIsOne DEF SkipPut, PublishIsOne
  <2>9. HeldIsOne' /\ ReporterKnown'
    BY <1>1, <2>5, <2>6 DEF HeldIsOne, ReporterKnown
  <2>10. QED  BY <2>7, <2>8, <2>9 DEF OutstandingPublish
<1>3. ASSUME StartPut \/ HandleComplete PROVE OutstandingPublish'
  <2>1. PICK op : Take(op)
    BY <1>3 DEF StartPut, HandleComplete
  <2>2. held' = <<Head(queue)>> /\ producer' = producer
    BY <1>3 DEF StartPut, HandleComplete
  <2>3. Range(held') = {Head(queue)} /\ held'[1] = Head(queue)
    BY <2>2, HeldOne
  <2>4. Range(queue) = Range(queue') \cup {Head(queue)}
    BY <2>1, TakeCarries
  <2>5. HeldIsOne' /\ PublisherAwaited' /\ ReporterKnown'
    BY <1>1, <2>2, <2>3, <2>4 DEF HeldIsOne, PublisherAwaited, ReporterKnown
  <2>6. PublishIsOne'
    BY <2>1, <2>3, TakenPublishIsOne DEF PublishIsOne
  <2>7. QED  BY <2>5, <2>6 DEF OutstandingPublish
<1>4. ASSUME NEW ok \in BOOLEAN, held # <<>>, Head(held).op = "publish",
             NextSource(Head(held).from, ok), held' = <<>>, queue' = queue
      PROVE  OutstandingPublish'
  <2> DEFINE p == Head(held).from
  <2>1. Range(held) = {Head(held)}
    BY <1>4, HeldType
  <2>2. p \in Producers /\ producer[p].left > 0
    BY <1>1, <1>4, <2>1 DEF PublisherAwaited
  <2>3. \A q \in Producers \ {p} : producer'[q] = producer[q]
    BY ONLY TypeInv, <1>4, <2>2, NextSourceType
  <2>4. \A i \in DOMAIN queue : queue[i].op = "publish" => queue[i].from # p
    BY <1>1, <1>4, <2>1 DEF PublishIsOne
  <2> HIDE DEF p
  <2>5. Range(held') = {}
    BY <1>4, NothingCarried
  <2>6. PublisherAwaited'
    <3>1. \A m \in Range(queue) : m.op = "publish" => m.from # p
      BY <2>4 DEF Range
    <3>2. QED  BY <1>1, <1>4, <2>3, <2>5, <3>1 DEF PublisherAwaited
  <2>7. HeldIsOne' /\ PublishIsOne' /\ ReporterKnown'
    BY <1>1, <1>4, <2>5 DEF HeldIsOne, PublishIsOne, ReporterKnown
  <2>8. QED  BY <2>6, <2>7 DEF OutstandingPublish
<1>5. CASE PutAnswered
  BY <1>4, <1>5 DEF PutAnswered
<1>6. CASE PutFails
  BY <1>4, <1>6 DEF PutFails
<1>7. CASE ForwardCompletion
  <2>1. held' = <<>> /\ Range(held') = {} /\ UNCHANGED <<producer, queue>>
    BY <1>7, NothingCarried DEF ForwardCompletion
  <2>2. QED
    BY <1>1, <2>1 DEF OutstandingPublish, HeldIsOne, PublisherAwaited, PublishIsOne, ReporterKnown
<1>8. CASE HandleFlush
  <2>1. /\ held = <<>> /\ held' = <<>> /\ producer' = producer
        /\ Range(queue) = Range(queue') \cup {Head(queue)}
    BY <1>8, TakeCarries DEF HandleFlush
  <2>2. HeldIsOne' /\ PublisherAwaited' /\ ReporterKnown'
    BY <1>1, <2>1 DEF HeldIsOne, PublisherAwaited, ReporterKnown
  <2>3. PublishIsOne'
    BY <1>8, <2>1, TakenPublishIsOne, NothingCarried DEF HandleFlush, PublishIsOne
  <2>4. QED  BY <2>2, <2>3 DEF OutstandingPublish
<1>9. QED
  BY <1>2, <1>3, <1>5, <1>6, <1>7, <1>8 DEF Publisher

\* The steps of the others: a command joins the queue, or a producer without an
\* outstanding publish moves.
LEMMA OutstandingPublishElsewhere ==
  TypeInv /\ (Coordinator \/ (\E p \in Producers : Producer(p)) \/ Environment)
    => OutstandingPublish'
<1> SUFFICES ASSUME TypeInv, Coordinator \/ (\E p \in Producers : Producer(p)) \/ Environment
             PROVE  OutstandingPublish'
  OBVIOUS
<1> USE DEF OutstandingPublish
<1>1. HeldIsOne /\ PublisherAwaited /\ PublishIsOne /\ ReporterKnown
  BY DEF TypeInv
<1>2. ASSUME UNCHANGED <<producer, queue, held>> PROVE OutstandingPublish'
  BY <1>1, <1>2 DEF HeldIsOne, PublisherAwaited, PublishIsOne, ReporterKnown
<1>3. ASSUME NEW p \in Producers, producer[p].pc # "publishing", UNCHANGED <<queue, held>>,
             \A q \in Producers \ {p} : producer'[q] = producer[q]
      PROVE  OutstandingPublish'
  BY <1>1, <1>3 DEF HeldIsOne, PublisherAwaited, PublishIsOne, ReporterKnown
\* A command other than a publish joins the queue.
<1>4. ASSUME NEW m \in Command, queue' = Append(queue, m), held' = held, m.op # "publish",
             m.op = "complete" => m.from \in Producers,
             \A q \in Producers : producer[q].pc = "publishing" => producer'[q] = producer[q]
      PROVE  OutstandingPublish'
  <2>1. PublisherAwaited'
    BY <1>1, <1>4, SendExtends DEF PublisherAwaited
  <2>2. PublishIsOne'
    BY <1>1, <1>4, SendExtends DEF PublishIsOne
  <2>3. HeldIsOne' /\ ReporterKnown'
    BY <1>1, <1>4, SendExtends DEF HeldIsOne, ReporterKnown
  <2>4. QED  BY <2>1, <2>2, <2>3
<1>5. CASE SendFlush
  <2> DEFINE m == Request("flush", "coordinator", coord.cycle, TRUE)
  <2>1. m \in Command /\ m.op = "flush"
    BY DEF Request, Command, TypeInv, TypeOK
  <2>2. queue' = Append(queue, m) /\ held' = held /\ producer' = producer
    BY <1>5 DEF SendFlush
  <2> HIDE DEF m
  <2>3. QED  BY <1>4, <2>1, <2>2
<1>6. ASSUME NEW p \in Producers, Publish(p) PROVE OutstandingPublish'
  <2> DEFINE m == Request("publish", p, producer[p].cycle, TRUE)
  <2>1. m \in Command /\ m.op = "publish" /\ m.from = p
    BY DEF Request, Command, TypeInv, TypeOK
  <2>2. \A n \in Range(queue) \cup Range(held) : n.op = "publish" => n.from # p
    BY <1>1, <1>6 DEF Publish, PublisherAwaited
  <2>3. /\ producer'[p].pc = "publishing"
        /\ producer'[p].left > 0
        /\ \A q \in Producers \ {p} : producer'[q] = producer[q]
    BY <1>6 DEF Publish, TypeInv, TypeOK
  <2>4. queue' = Append(queue, m) /\ held' = held
    BY <1>6 DEF Publish
  <2> HIDE DEF m
  <2>5. \A i \in DOMAIN queue : queue[i].op = "publish" => queue[i].from # p
    BY <2>2 DEF Range
  <2>6. PublisherAwaited'
    BY <1>1, <2>1, <2>2, <2>3, <2>4, SendExtends DEF PublisherAwaited
  <2>7. PublishIsOne'
    BY <1>1, <2>1, <2>2, <2>4, <2>5, SendExtends DEF PublishIsOne
  <2>8. HeldIsOne' /\ ReporterKnown'
    BY <1>1, <2>1, <2>4, SendExtends DEF HeldIsOne, ReporterKnown
  <2>9. QED  BY <2>6, <2>7, <2>8
<1>7. ASSUME NEW p \in Producers, ReportCycle(p) PROVE OutstandingPublish'
  <2> DEFINE m == Request("complete", p, producer[p].cycle, producer[p].ok)
  <2>1. m \in Command /\ m.op = "complete" /\ m.from = p
    BY DEF Request, Command, TypeInv, TypeOK
  <2>2. /\ producer[p].pc = "collect"
        /\ \A q \in Producers \ {p} : producer'[q] = producer[q]
    BY <1>7 DEF ReportCycle, Report, TypeInv, TypeOK
  <2>3. queue' = Append(queue, m) /\ held' = held
    BY <1>7 DEF ReportCycle, Report
  <2> HIDE DEF m
  <2>4. QED  BY <1>4, <2>1, <2>2, <2>3
<1>8. ASSUME NEW p \in Producers,
             TakeTrigger(p) \/ Poll(p) \/ CollectFails(p) \/ EndRun(p) \/ DropCycle(p)
      PROVE  OutstandingPublish'
  <2>1. producer[p].pc # "publishing" /\ UNCHANGED <<queue, held>>
    BY <1>8 DEF TakeTrigger, Poll, CollectFails, EndRun, DropCycle
  <2>2. \A q \in Producers \ {p} : producer'[q] = producer[q]
    BY <1>8 DEF TakeTrigger, Poll, CollectFails, EndRun, DropCycle, Run, NextSource, TypeInv, TypeOK
  <2>3. QED  BY <1>3, <2>1, <2>2
<1>9. CASE Environment
  BY <1>2, <1>9 DEF Environment, Connect, Disconnect, ChangeMode, RefreshManually
<1>10. CASE Coordinator
  <2>1. SendFlush \/ UNCHANGED <<producer, queue, held>>
    BY <1>10 DEF Coordinator, IgnoreEvent, StartCycle, SendTrigger, IgnoreCompletion,
                 CountCompletion, Count, SyncRefused, RequestSync, SyncServed, SyncFails
  <2>2. QED  BY <1>2, <1>5, <2>1
<1>11. QED
  BY <1>6, <1>7, <1>8, <1>9, <1>10 DEF Producer

LEMMA TypeStep == TypeInv /\ [Next]_vars => TypeInv'
<1>1. CASE UNCHANGED vars
  BY ZenonT(30), <1>1 DEF vars, TypeInv, TypeOK, OutstandingPublish, HeldIsOne, PublisherAwaited,
              PublishIsOne, ReporterKnown
<1>2. CASE Next
  BY <1>2, TypeOKStep, OutstandingPublishAtPublisher, OutstandingPublishElsewhere
     DEF Next, TypeInv
<1>3. QED  BY <1>1, <1>2

\* Every variable keeps its type, whatever the number of producers and the
\* capacities: in particular no producer counts its sources below zero.
THEOREM TypeCorrect == Spec => []TypeOK
<1>1. TypeInv => TypeOK
  BY DEF TypeInv
<1>2. QED  BY <1>1, InitType, TypeStep, PTL DEF Spec

-----------------------------------------------------------------------------
(* What is on its way: only ReportCycle adds a report, only the coordinator *)
(* takes one out.                                                           *)

LEMMA ReportAdded ==
  ASSUME TypeInv, NEW p \in Producers, ReportCycle(p)
  PROVE  Reports' = Reports \cup {Request("complete", p, producer[p].cycle, producer[p].ok)}
<1> DEFINE m == Request("complete", p, producer[p].cycle, producer[p].ok)
<1>1. m \in Command /\ m.op = "complete"
  BY DEF Request, Command, TypeInv, TypeOK
<1>2. queue' = Append(queue, m) /\ held' = held /\ completions' = completions
  BY DEF ReportCycle, Report
<1> HIDE DEF m
<1>3. Range(queue') = Range(queue) \cup {m}
  BY <1>1, <1>2, SendExtends
<1>4. QED  BY <1>1, <1>2, <1>3 DEF Reports, InTransit, m

LEMMA ReportReceived ==
  ASSUME TypeInv, IgnoreCompletion \/ CountCompletion
  PROVE  /\ Reports = Reports' \cup {Head(completions)}
         /\ Head(completions).from \in Producers
<1>1. completions # <<>> /\ completions' = Tail(completions) /\ UNCHANGED <<queue, held>>
  BY DEF IgnoreCompletion, CountCompletion, Count
<1>2. /\ Head(completions) \in Completion
      /\ Range(completions) = Range(completions') \cup {Head(completions)}
  BY <1>1, ReceiveCarries DEF TypeInv, TypeOK
<1>3. Head(completions).op = "complete" /\ Head(completions).from \in Producers
  BY <1>2 DEF Completion
<1>4. QED  BY <1>1, <1>2, <1>3 DEF Reports, InTransit

LEMMA ReportsKept ==
  ASSUME TypeInv, [Next]_vars,
         ~ (IgnoreCompletion \/ CountCompletion), \A p \in Producers : ~ ReportCycle(p)
  PROVE  Reports' = Reports
<1>1. ASSUME UNCHANGED <<queue, held, completions>> PROVE Reports' = Reports
  BY <1>1 DEF Reports, InTransit
<1>2. ASSUME NEW m \in Command, m.op # "complete", queue' = Append(queue, m),
             UNCHANGED <<held, completions>>
      PROVE  Reports' = Reports
  BY <1>2, SendExtends DEF Reports, InTransit
<1>3. CASE SendFlush
  <2> DEFINE m == Request("flush", "coordinator", coord.cycle, TRUE)
  <2>1. m \in Command /\ m.op = "flush"
    BY DEF Request, Command, TypeInv, TypeOK
  <2>2. queue' = Append(queue, m) /\ UNCHANGED <<held, completions>>
    BY <1>3 DEF SendFlush
  <2> HIDE DEF m
  <2>3. QED  BY <1>2, <2>1, <2>2
<1>4. ASSUME NEW p \in Producers, Publish(p) PROVE Reports' = Reports
  <2> DEFINE m == Request("publish", p, producer[p].cycle, TRUE)
  <2>1. m \in Command /\ m.op = "publish"
    BY DEF Request, Command, TypeInv, TypeOK
  <2>2. queue' = Append(queue, m) /\ UNCHANGED <<held, completions>>
    BY <1>4 DEF Publish
  <2> HIDE DEF m
  <2>3. QED  BY <1>2, <2>1, <2>2
<1>5. CASE SkipPut \/ HandleFlush
  <2>1. PICK op \in {"publish", "flush"} : Take(op)
    BY <1>5 DEF SkipPut, HandleFlush
  <2>2. UNCHANGED <<held, completions>>
    BY <1>5 DEF SkipPut, HandleFlush
  <2>3. Range(queue) = Range(queue') \cup {Head(queue)} /\ Head(queue).op # "complete"
    BY <2>1, TakeCarries
  <2>4. QED  BY <2>2, <2>3 DEF Reports, InTransit
<1>6. CASE StartPut \/ HandleComplete
  <2>1. PICK op : Take(op)
    BY <1>6 DEF StartPut, HandleComplete
  <2>2. held' = <<Head(queue)>> /\ UNCHANGED completions
    BY <1>6 DEF StartPut, HandleComplete
  <2>3. Range(held') = {Head(queue)}
    BY <2>2, HeldOne
  <2>4. Range(queue) = Range(queue') \cup {Head(queue)} /\ Range(held) = {}
    BY <2>1, TakeCarries, NothingCarried
  <2>5. QED  BY <2>2, <2>3, <2>4 DEF Reports, InTransit
<1>7. CASE PutAnswered \/ PutFails
  <2>1. /\ held # <<>> /\ Head(held).op = "publish"
        /\ held' = <<>> /\ UNCHANGED <<queue, completions>>
    BY <1>7 DEF PutAnswered, PutFails
  <2>2. Range(held) = {Head(held)} /\ Range(held') = {}
    BY <2>1, HeldType, NothingCarried
  <2>3. QED  BY <2>1, <2>2 DEF Reports, InTransit
<1>8. CASE ForwardCompletion
  <2>1. /\ held # <<>> /\ Head(held).op = "complete" /\ held' = <<>> /\ queue' = queue
        /\ completions' = Append(completions, Head(held))
    BY <1>8 DEF ForwardCompletion
  <2>2. Range(held) = {Head(held)} /\ Range(held') = {} /\ Head(held) \in Command
    BY <2>1, HeldType, NothingCarried
  <2>3. Head(held) \in Completion
    BY <2>1, <2>2 DEF TypeInv, OutstandingPublish, ReporterKnown, Command, Completion
  <2>4. Range(completions') = Range(completions) \cup {Head(held)}
    BY <2>1, <2>3, SendCarries DEF TypeInv, TypeOK
  <2>5. QED  BY <2>1, <2>2, <2>4 DEF Reports, InTransit
<1>9. CASE Publisher
  BY <1>5, <1>6, <1>7, <1>8, <1>9 DEF Publisher
<1>10. ASSUME NEW p \in Producers, Producer(p) PROVE Reports' = Reports
  <2>1. Publish(p) \/ UNCHANGED <<queue, held, completions>>
    BY <1>10 DEF Producer, TakeTrigger, Poll, CollectFails, EndRun, DropCycle
  <2>2. QED  BY <1>1, <1>4, <2>1
<1>11. CASE Coordinator
  <2>1. SendFlush \/ UNCHANGED <<queue, held, completions>>
    BY <1>11 DEF Coordinator, IgnoreEvent, StartCycle, SendTrigger, SyncRefused, RequestSync,
                 SyncServed, SyncFails
  <2>2. QED  BY <1>1, <1>3, <2>1
<1>12. CASE Environment
  BY <1>1, <1>12 DEF Environment, Connect, Disconnect, ChangeMode, RefreshManually
<1>13. CASE UNCHANGED vars
  BY <1>1, <1>13 DEF vars
<1>14. QED  BY <1>9, <1>10, <1>11, <1>12, <1>13 DEF Next

-----------------------------------------------------------------------------
(* The inductive invariant of the cycle.                                   *)

\* A flush at the publisher is the only one, and the coordinator waits for it.
FlushAwaited ==
    \A i \in DOMAIN queue : queue[i].op = "flush" =>
        /\ coord.pc = "flushing"
        /\ \A j \in DOMAIN queue : queue[j].op = "flush" => i = j

\* The cycle being collected, and the one being completed, is the latest.
LatestCycle ==
    /\ active.id # 0 => active.id = nextId - 1
    /\ active.id = 0 => active.expected = {}
    /\ coord.pc = "trigger" => active.id # 0 /\ coord.cycle = active.id
    /\ Completing => active.id = 0 /\ coord.cycle = nextId - 1 /\ coord.cycle # 0

\* Nobody works for a cycle that was not started.
KnownCycles ==
    /\ \A p \in Producers :
          /\ \A c \in Range(triggers[p]) : c < nextId
          /\ producer[p].cycle < nextId
          /\ producer[p].pc = "idle" => producer[p].cycle = Manual
    /\ \A m \in Reports : 0 < m.cycle /\ m.cycle < nextId

\* A report on its way was made, and one that is no longer awaited as well.
ReportsMade ==
    /\ \A m \in Reports : <<m.cycle, m.from>> \in ran
    /\ active.id # 0 => \A p \in Producers \ active.expected : <<active.id, p>> \in ran

\* Synced cycles are past cycles.
SyncedBefore ==
    \A i \in DOMAIN synced :
        /\ synced[i] < nextId
        /\ active.id # 0 \/ Completing => synced[i] < nextId - 1

CycleInv ==
    /\ TypeInv
    /\ FlushAwaited
    /\ LatestCycle
    /\ KnownCycles
    /\ ReportsMade
    /\ SyncOnlyAfterReports
    /\ SyncedBefore
    /\ SyncOncePerCycle
    /\ AwaitedIsInFlight

LEMMA InitCycle == Init => CycleInv
<1> SUFFICES ASSUME Init PROVE CycleInv
  OBVIOUS
<1>1. TypeInv
  BY InitType
<1>2. Reports = {} /\ ~ Completing /\ SyncedCycles = {}
  BY NothingCarried DEF Init, Reports, InTransit, Completing, SyncedCycles
<1>3. FlushAwaited /\ LatestCycle /\ AwaitedIsInFlight
  BY <1>2 DEF Init, NoCycle, FlushAwaited, LatestCycle, AwaitedIsInFlight
<1>4. KnownCycles /\ ReportsMade
  BY <1>2, NothingCarried DEF Init, Idle, Manual, NoCycle, KnownCycles, ReportsMade
<1>5. SyncOnlyAfterReports /\ SyncedBefore /\ SyncOncePerCycle
  BY <1>2 DEF Init, SyncOnlyAfterReports, SyncedBefore, SyncOncePerCycle
<1>6. QED  BY <1>1, <1>3, <1>4, <1>5 DEF CycleInv

LEMMA FlushStep == CycleInv /\ Next => FlushAwaited'
<1> SUFFICES ASSUME CycleInv, Next PROVE FlushAwaited'
  OBVIOUS
<1>1. TypeInv /\ FlushAwaited
  BY DEF CycleInv
<1>2. ASSUME UNCHANGED queue, coord.pc = "flushing" => coord'.pc = "flushing"
      PROVE  FlushAwaited'
  BY <1>1, <1>2 DEF FlushAwaited
<1>3. ASSUME NEW m \in Command, m.op # "flush", queue' = Append(queue, m), coord' = coord
      PROVE  FlushAwaited'
  BY <1>1, <1>3, SendExtends DEF FlushAwaited
<1>4. CASE SendFlush
  <2> DEFINE m == Request("flush", "coordinator", coord.cycle, TRUE)
  <2>1. m \in Command /\ m.op = "flush"
    BY <1>1 DEF Request, Command, TypeInv, TypeOK
  <2>2. queue' = Append(queue, m) /\ coord.pc = "flush" /\ coord'.pc = "flushing"
    BY <1>1, <1>4 DEF SendFlush, TypeInv, TypeOK
  <2> HIDE DEF m
  <2>3. \A i \in DOMAIN queue : queue[i].op # "flush"
    BY <1>1, <2>2 DEF FlushAwaited
  <2>4. QED  BY <1>1, <2>1, <2>2, <2>3, SendExtends DEF FlushAwaited
<1>5. ASSUME NEW op, Take(op), op = "flush" \/ coord' = coord PROVE FlushAwaited'
  <2>1. ASSUME NEW i \in DOMAIN queue', queue'[i].op = "flush"
        PROVE  /\ coord.pc = "flushing"
               /\ op # "flush"
               /\ \A j \in DOMAIN queue' : queue'[j].op = "flush" => i = j
    <3>1. /\ 1 \in DOMAIN queue /\ queue[1].op = op
          /\ i \in Nat \ {0} /\ i + 1 \in DOMAIN queue /\ queue[i + 1].op = "flush"
      BY <1>1, <1>5, <2>1, TakeShifts, TakeCarries
    <3>2. coord.pc = "flushing" /\ (queue[1].op = "flush" => i + 1 = 1)
      BY <1>1, <3>1 DEF FlushAwaited
    <3>3. ASSUME NEW j \in DOMAIN queue', queue'[j].op = "flush" PROVE i = j
      <4>1. j \in Nat /\ j + 1 \in DOMAIN queue /\ queue[j + 1].op = "flush"
        BY <1>1, <1>5, <3>3, TakeShifts
      <4>2. i + 1 = j + 1
        BY <1>1, <3>1, <4>1 DEF FlushAwaited
      <4>3. QED  BY <3>1, <4>1, <4>2
    <3>4. QED  BY <3>1, <3>2, <3>3
  <2>2. QED  BY <1>5, <2>1 DEF FlushAwaited
<1>6. CASE Coordinator
  <2>1. SendFlush \/ (UNCHANGED queue /\ coord.pc # "flushing")
    BY <1>6 DEF Coordinator, IgnoreEvent, StartCycle, SendTrigger, IgnoreCompletion,
                CountCompletion, Count, SyncRefused, RequestSync, SyncServed, SyncFails
  <2>2. QED  BY <1>2, <1>4, <2>1
<1>7. ASSUME NEW p \in Producers, Producer(p) PROVE FlushAwaited'
  <2>1. CASE Publish(p) \/ ReportCycle(p)
    <3>1. PICK op \in {"publish", "complete"}, ok \in BOOLEAN :
             queue' = Append(queue, Request(op, p, producer[p].cycle, ok)) /\ coord' = coord
      BY <1>1, <2>1 DEF Publish, ReportCycle, Report, coordVars, TypeInv, TypeOK
    <3> DEFINE m == Request(op, p, producer[p].cycle, ok)
    <3>2. m \in Command /\ m.op # "flush"
      BY <1>1 DEF Request, Command, TypeInv, TypeOK
    <3> HIDE DEF m
    <3>3. QED  BY <1>3, <3>1, <3>2 DEF m
  <2>2. CASE TakeTrigger(p) \/ Poll(p) \/ CollectFails(p) \/ EndRun(p) \/ DropCycle(p)
    BY <1>2, <2>2 DEF TakeTrigger, Poll, CollectFails, EndRun, DropCycle, coordVars
  <2>3. QED  BY <1>7, <2>1, <2>2 DEF Producer
<1>8. CASE Publisher
  <2>1. CASE \E op : Take(op) /\ (op = "flush" \/ coord' = coord)
    BY <1>5, <2>1
  <2>2. CASE UNCHANGED <<queue, coord>>
    BY <1>2, <2>2
  <2>3. QED
    BY <1>8, <2>1, <2>2 DEF Publisher, SkipPut, StartPut, PutAnswered, PutFails, HandleComplete,
                            ForwardCompletion, HandleFlush, coordVars
<1>9. CASE Environment
  BY <1>2, <1>9 DEF Environment, Connect, Disconnect, ChangeMode, RefreshManually, coordVars
<1>10. QED  BY <1>6, <1>7, <1>8, <1>9 DEF Next

LEMMA LatestStep == CycleInv /\ Next => LatestCycle'
<1> SUFFICES ASSUME CycleInv, Next PROVE LatestCycle'
  OBVIOUS
<1>1. TypeInv /\ FlushAwaited /\ LatestCycle /\ KnownCycles
  BY DEF CycleInv
<1> USE DEF LatestCycle, Completing
<1>2. ASSUME UNCHANGED coordVars PROVE LatestCycle'
  BY <1>1, <1>2 DEF coordVars
<1>3. CASE StartCycle
  BY <1>1, <1>3 DEF StartCycle, TypeInv, TypeOK
<1>4. ASSUME NEW p \in Producers, SendTrigger(p) PROVE LatestCycle'
  BY <1>1, <1>4 DEF SendTrigger, TypeInv, TypeOK
<1>5. CASE CountCompletion
  <2>1. Head(completions) \in Reports
    BY <1>1, <1>5, ReportReceived
  <2>2. active.id # 0 /\ active.id = nextId - 1 /\ coord.pc = "select"
    BY <1>1, <1>5, <2>1 DEF KnownCycles, CountCompletion
  <2>3. QED
    BY <1>1, <1>5, <2>2 DEF CountCompletion, Count, NoCycle, TypeInv, TypeOK
<1>6. CASE SendFlush \/ SyncRefused \/ RequestSync \/ SyncServed \/ SyncFails
  BY ZenonT(30), <1>1, <1>6 DEF SendFlush, SyncRefused, RequestSync, SyncServed, SyncFails, TypeInv, TypeOK
<1>7. CASE HandleFlush
  <2>1. 1 \in DOMAIN queue /\ queue[1].op = "flush"
    BY <1>1, <1>7, TakeShifts, TakeCarries DEF HandleFlush
  <2>2. coord.pc = "flushing"
    BY <1>1, <2>1 DEF FlushAwaited
  <2>3. QED  BY <1>1, <1>7, <2>2 DEF HandleFlush, TypeInv, TypeOK
<1>8. CASE Coordinator
  BY <1>2, <1>3, <1>4, <1>5, <1>6, <1>8 DEF Coordinator, IgnoreEvent, IgnoreCompletion, coordVars
<1>9. ASSUME NEW p \in Producers, Producer(p) PROVE LatestCycle'
  BY <1>2, <1>9 DEF Producer, TakeTrigger, Poll, CollectFails, Publish, EndRun, ReportCycle,
                    Report, DropCycle
<1>10. CASE Publisher
  BY <1>2, <1>7, <1>10 DEF Publisher, SkipPut, StartPut, PutAnswered, PutFails, HandleComplete,
                           ForwardCompletion
<1>11. CASE Environment
  BY <1>2, <1>11 DEF Environment, Connect, Disconnect, ChangeMode, RefreshManually
<1>12. QED  BY <1>8, <1>9, <1>10, <1>11 DEF Next

\* A step that neither triggers the producer nor begins or ends its run.
Unmoved(p) ==
    /\ triggers'[p] = triggers[p]
    /\ producer'[p].cycle = producer[p].cycle
    /\ producer'[p].pc = "idle" => producer[p].pc = "idle"

\* What a step does to one producer and its trigger channel.
LEMMA ProducerMoves ==
  ASSUME TypeInv, Next, NEW p \in Producers
  PROVE  \/ Unmoved(p)
         \/ RefreshManually(p) \/ SendTrigger(p)
         \/ TakeTrigger(p) \/ Poll(p)
         \/ EndRun(p) \/ ReportCycle(p) \/ DropCycle(p)
<1>1. ASSUME UNCHANGED <<triggers, producer>> PROVE Unmoved(p)
  BY <1>1 DEF Unmoved
<1>2. ASSUME NEW q \in Producers, NEW ok, NextSource(q, ok), UNCHANGED triggers
      PROVE  Unmoved(p)
  <2> DEFINE good == producer[q].ok /\ ok
  <2>1. producer' = [producer EXCEPT ![q] = [pc |-> "collect", cycle |-> producer[q].cycle,
                                             left |-> producer[q].left - 1, ok |-> good]]
    BY <1>2 DEF NextSource
  <2> HIDE DEF good
  <2>2. QED  BY <1>2, <2>1 DEF Unmoved, TypeInv, TypeOK
<1>3. CASE Coordinator
  <2>1. ASSUME NEW q \in Producers \ {p}, SendTrigger(q) PROVE Unmoved(p)
    BY <2>1 DEF SendTrigger, Unmoved, TypeInv, TypeOK
  <2>2. QED
    BY <1>1, <1>3, <2>1 DEF Coordinator, IgnoreEvent, StartCycle, IgnoreCompletion, CountCompletion,
                            Count, SendFlush, SyncRefused, RequestSync, SyncServed, SyncFails
<1>4. ASSUME NEW q \in Producers, Producer(q)
      PROVE  \/ Unmoved(p)
             \/ TakeTrigger(p) \/ Poll(p) \/ EndRun(p) \/ ReportCycle(p) \/ DropCycle(p)
  <2>1. CASE Publish(q)
    BY <2>1 DEF Publish, Unmoved, TypeInv, TypeOK
  <2>2. CASE CollectFails(q)
    BY <1>2, <2>2 DEF CollectFails
  <2>3. ASSUME q # p, TakeTrigger(q) \/ Poll(q) \/ EndRun(q) \/ ReportCycle(q) \/ DropCycle(q)
        PROVE  Unmoved(p)
    BY <2>3 DEF TakeTrigger, Poll, Run, EndRun, ReportCycle, Report, DropCycle, Unmoved, TypeInv, TypeOK
  <2>4. QED  BY <1>4, <2>1, <2>2, <2>3 DEF Producer
<1>5. CASE Publisher
  <2>1. ASSUME NEW ok \in BOOLEAN, NEW m \in Range(queue) \cup Range(held), m.op = "publish",
               NextSource(m.from, ok), UNCHANGED triggers
        PROVE  Unmoved(p)
    <3>1. m.from \in Producers
      BY <2>1 DEF TypeInv, OutstandingPublish, PublisherAwaited
    <3>2. QED  BY <1>2, <2>1, <3>1
  <2>2. CASE SkipPut
    BY <2>1, <2>2, TakeCarries DEF SkipPut
  <2>3. CASE PutAnswered \/ PutFails
    BY <2>1, <2>3, HeldType DEF PutAnswered, PutFails
  <2>4. QED
    BY <1>1, <1>5, <2>2, <2>3 DEF Publisher, StartPut, HandleComplete, ForwardCompletion, HandleFlush
<1>6. CASE Environment
  <2>1. ASSUME NEW q \in Producers \ {p}, RefreshManually(q) PROVE Unmoved(p)
    BY <2>1 DEF RefreshManually, Unmoved, TypeInv, TypeOK
  <2>2. QED  BY <1>1, <1>6, <2>1 DEF Environment, Connect, Disconnect, ChangeMode
<1>7. QED  BY <1>3, <1>4, <1>5, <1>6 DEF Next

\* What those steps do to the trigger channel and the cycle in hand.
LEMMA MoveEffects ==
  ASSUME TypeInv, NEW p \in Producers
  PROVE  /\ RefreshManually(p) => /\ Range(triggers'[p]) = Range(triggers[p]) \cup {Manual}
                                  /\ producer'[p] = producer[p]
         /\ SendTrigger(p) => /\ Range(triggers'[p]) = Range(triggers[p]) \cup {coord.cycle}
                              /\ producer'[p] = producer[p]
         /\ TakeTrigger(p) => /\ Range(triggers[p]) = Range(triggers'[p]) \cup {producer'[p].cycle}
                              /\ producer'[p].pc = "collect"
                              /\ producer[p].pc = "idle"
         /\ Poll(p) => /\ Range(triggers'[p]) = Range(triggers[p])
                       /\ producer'[p].cycle = Manual
                       /\ producer'[p].pc = "collect"
                       /\ producer[p].pc = "idle"
         /\ EndRun(p) \/ ReportCycle(p) \/ DropCycle(p) =>
                       /\ Range(triggers'[p]) = Range(triggers[p])
                       /\ producer'[p].cycle = Manual
<1> USE DEF TypeInv, TypeOK
<1>1. triggers[p] \in Seq(Nat) /\ Manual \in Nat /\ coord.cycle \in Nat
  BY DEF Manual
<1>2. RefreshManually(p) \/ SendTrigger(p) => producer'[p] = producer[p]
  BY DEF RefreshManually, SendTrigger
<1>3. RefreshManually(p) => Range(triggers'[p]) = Range(triggers[p]) \cup {Manual}
  <2>1. RefreshManually(p) => triggers'[p] = Append(triggers[p], Manual)
    BY DEF RefreshManually
  <2>2. Range(Append(triggers[p], Manual)) = Range(triggers[p]) \cup {Manual}
    BY ONLY <1>1, SendCarries
  <2>3. QED  BY ONLY <2>1, <2>2
<1>4. SendTrigger(p) => Range(triggers'[p]) = Range(triggers[p]) \cup {coord.cycle}
  <2>1. SendTrigger(p) => triggers'[p] = Append(triggers[p], coord.cycle)
    BY DEF SendTrigger
  <2>2. Range(Append(triggers[p], coord.cycle)) = Range(triggers[p]) \cup {coord.cycle}
    BY ONLY <1>1, SendCarries
  <2>3. QED  BY ONLY <2>1, <2>2
<1>5. TakeTrigger(p) => /\ Range(triggers[p]) = Range(triggers'[p]) \cup {producer'[p].cycle}
                        /\ producer'[p].pc = "collect"
                        /\ producer[p].pc = "idle"
  BY <1>1, ReceiveCarries DEF TakeTrigger, Run
<1>6. Poll(p) => /\ triggers'[p] = triggers[p]
                 /\ producer'[p].cycle = Manual
                 /\ producer'[p].pc = "collect"
                 /\ producer[p].pc = "idle"
  BY DEF Poll, Run
<1>7. EndRun(p) \/ ReportCycle(p) \/ DropCycle(p) =>
         triggers'[p] = triggers[p] /\ producer'[p].cycle = Manual
  BY DEF EndRun, ReportCycle, Report, DropCycle, Idle
<1>8. QED  BY <1>2, <1>3, <1>4, <1>5, <1>6, <1>7

\* Only StartCycle gives out a new id.
LEMMA NextIdMoves ==
  ASSUME Next, ~ StartCycle
  PROVE  nextId' = nextId
<1>1. CASE Coordinator
  BY <1>1 DEF Coordinator, IgnoreEvent, SendTrigger, IgnoreCompletion, CountCompletion, Count,
              SendFlush, SyncRefused, RequestSync, SyncServed, SyncFails, coordVars
<1>2. ASSUME NEW p \in Producers, Producer(p) PROVE nextId' = nextId
  BY <1>2 DEF Producer, TakeTrigger, Poll, CollectFails, Publish, EndRun, ReportCycle, Report,
              DropCycle, coordVars
<1>3. CASE Publisher
  BY <1>3 DEF Publisher, SkipPut, StartPut, PutAnswered, PutFails, HandleComplete,
              ForwardCompletion, HandleFlush, coordVars
<1>4. CASE Environment
  BY <1>4 DEF Environment, Connect, Disconnect, ChangeMode, RefreshManually, coordVars
<1>5. QED  BY <1>1, <1>2, <1>3, <1>4 DEF Next

LEMMA KnownStep == CycleInv /\ Next => KnownCycles'
<1> SUFFICES ASSUME CycleInv, Next PROVE KnownCycles'
  OBVIOUS
<1>1. TypeInv /\ LatestCycle /\ KnownCycles
  BY DEF CycleInv
<1>2. nextId \in Nat \ {0} /\ nextId' \in Nat /\ nextId <= nextId'
  BY <1>1, NextIdMoves DEF StartCycle, TypeInv, TypeOK
<1>3. ASSUME NEW m \in Reports' PROVE 0 < m.cycle /\ m.cycle < nextId'
  <2>1. ASSUME m \in Reports PROVE 0 < m.cycle /\ m.cycle < nextId'
    <3>1. m.cycle \in Nat
      <4>1. /\ Range(queue) \subseteq Command
            /\ Range(held) \subseteq Command
            /\ Range(completions) \subseteq Completion
        BY <1>1, CarriesTyped DEF TypeInv, TypeOK
      <4>2. QED  BY <2>1, <4>1 DEF Reports, InTransit, Command, Completion
    <3>2. QED  BY <1>1, <1>2, <2>1, <3>1 DEF KnownCycles
  <2>2. ASSUME NEW p \in Producers, ReportCycle(p), m.cycle = producer[p].cycle
        PROVE  0 < m.cycle /\ m.cycle < nextId'
    <3>1. producer[p].cycle # 0 /\ producer[p].cycle \in Nat
      BY <1>1, <2>2 DEF ReportCycle, Report, Manual, TypeInv, TypeOK
    <3>2. QED  BY <1>1, <1>2, <2>2, <3>1 DEF KnownCycles
  <2>3. CASE \E p \in Producers : ReportCycle(p)
    BY <1>1, <1>3, <2>1, <2>2, <2>3, ReportAdded DEF Request
  <2>4. CASE IgnoreCompletion \/ CountCompletion
    BY <1>1, <1>3, <2>1, <2>4, ReportReceived
  <2>5. QED  BY <1>1, <1>3, <2>1, <2>3, <2>4, ReportsKept
<1>4. ASSUME NEW p \in Producers
      PROVE  /\ \A c \in Range(triggers'[p]) : c < nextId'
             /\ producer'[p].cycle < nextId'
             /\ producer'[p].pc = "idle" => producer'[p].cycle = Manual
  <2>1. /\ \A c \in Range(triggers[p]) : c < nextId'
        /\ producer[p].cycle < nextId'
        /\ 0 < nextId'
    <3>1. Range(triggers[p]) \subseteq Nat /\ producer[p].cycle \in Nat
      BY <1>1, CarriesTyped DEF TypeInv, TypeOK
    <3>2. QED  BY <1>1, <1>2, <3>1 DEF KnownCycles
  <2>2. coord.pc = "trigger" => coord.cycle < nextId'
    BY <1>1, <1>2 DEF LatestCycle, TypeInv, TypeOK
  <2>3. producer[p].pc = "idle" => producer[p].cycle = Manual
    BY <1>1 DEF KnownCycles
  <2>4. CASE Unmoved(p)
    BY <2>1, <2>3, <2>4 DEF Unmoved
  <2>5. CASE RefreshManually(p)
    BY <1>1, <2>1, <2>3, <2>5, MoveEffects DEF Manual
  <2>6. CASE SendTrigger(p)
    BY ZenonT(30), <1>1, <2>1, <2>2, <2>3, <2>6, MoveEffects DEF SendTrigger
  <2>7. CASE TakeTrigger(p) \/ Poll(p) \/ EndRun(p) \/ ReportCycle(p) \/ DropCycle(p)
    BY <1>1, <2>1, <2>7, MoveEffects DEF Manual
  <2>8. QED  BY <1>1, <2>4, <2>5, <2>6, <2>7, ProducerMoves
<1>5. QED  BY <1>3, <1>4 DEF KnownCycles

\* When the publisher comes to a flush, the coordinator waits for it.
LEMMA FlushTaken ==
  ASSUME CycleInv, HandleFlush
  PROVE  Completing
<1>1. TypeInv /\ FlushAwaited
  BY DEF CycleInv
<1>2. 1 \in DOMAIN queue /\ queue[1].op = "flush"
  BY <1>1, TakeShifts, TakeCarries DEF HandleFlush
<1>3. QED  BY <1>1, <1>2 DEF FlushAwaited, Completing

\* Which steps start a cycle, count a report, end a cycle, and what they add to
\* the history.
LEMMA CycleMoves ==
  ASSUME CycleInv, Next
  PROVE  /\ active' = active \/ StartCycle \/ CountCompletion
         /\ synced' = synced \/ SyncServed
         /\ ran \subseteq ran' /\ lost \subseteq lost'
         /\ Completing' => CountCompletion \/ (Completing /\ coord'.cycle = coord.cycle)
<1>1. TypeInv /\ FlushAwaited
  BY DEF CycleInv
<1>2. CASE Coordinator
  <2>1. /\ active' = active \/ StartCycle \/ CountCompletion
        /\ synced' = synced \/ SyncServed
        /\ UNCHANGED <<ran, lost>>
    BY <1>2 DEF Coordinator, IgnoreEvent, StartCycle, SendTrigger, IgnoreCompletion, CountCompletion,
         Count, SendFlush, SyncRefused, RequestSync, SyncServed, SyncFails, coordVars, historyVars
  <2>2. ASSUME StartCycle \/ (\E p \in Producers : SendTrigger(p))
        PROVE  Completing' => CountCompletion \/ (Completing /\ coord'.cycle = coord.cycle)
    <3>1. ASSUME StartCycle PROVE coord'.pc = "trigger"
      BY <3>1 DEF StartCycle
    <3>2. ASSUME NEW p \in Producers, SendTrigger(p) PROVE coord'.pc \in {"select", "trigger"}
      BY <1>1, <3>2 DEF SendTrigger, TypeInv, TypeOK
    <3>3. QED  BY <2>2, <3>1, <3>2 DEF Completing
  <2>3. ASSUME SendFlush \/ SyncRefused \/ RequestSync \/ SyncServed \/ SyncFails
        PROVE  Completing' => CountCompletion \/ (Completing /\ coord'.cycle = coord.cycle)
    BY <1>1, <2>3 DEF SendFlush, SyncRefused, RequestSync, SyncServed, SyncFails, Completing,
         TypeInv, TypeOK
  <2>4. ASSUME IgnoreEvent \/ IgnoreCompletion
        PROVE  Completing' => CountCompletion \/ (Completing /\ coord'.cycle = coord.cycle)
    BY <2>4 DEF IgnoreEvent, IgnoreCompletion, coordVars, Completing
  <2>5. Completing' => CountCompletion \/ (Completing /\ coord'.cycle = coord.cycle)
    BY <1>2, <2>2, <2>3, <2>4 DEF Coordinator
  <2>6. QED  BY <2>1, <2>5
<1>3. ASSUME NEW p \in Producers, Producer(p)
      PROVE  UNCHANGED <<active, synced, coord>> /\ ran \subseteq ran' /\ lost \subseteq lost'
  BY <1>3 DEF Producer, TakeTrigger, Poll, CollectFails, Publish, EndRun, ReportCycle, Report,
       DropCycle, coordVars, historyVars
<1>4. CASE Publisher
  <2>1. UNCHANGED <<active, synced, ran, lost>> /\ (coord' = coord \/ HandleFlush)
    BY <1>4 DEF Publisher, SkipPut, StartPut, PutAnswered, PutFails, HandleComplete,
         ForwardCompletion, HandleFlush, coordVars, historyVars
  <2>2. ASSUME HandleFlush PROVE Completing /\ coord'.cycle = coord.cycle
    BY <1>1, <2>2, FlushTaken DEF HandleFlush, TypeInv, TypeOK
  <2>3. QED  BY <2>1, <2>2 DEF Completing
<1>5. CASE Environment
  BY <1>5 DEF Environment, Connect, Disconnect, ChangeMode, RefreshManually, coordVars,
       historyVars, Completing
<1>6. QED  BY <1>2, <1>3, <1>4, <1>5 DEF Next, Completing

\* The report that is counted is one of the latest cycle, and was made.
LEMMA CountedReport ==
  ASSUME CycleInv, CountCompletion
  PROVE  LET p == Head(completions).from
             rest == active.expected \ {p}
         IN  /\ p \in Producers
             /\ active.id # 0 /\ active.id = nextId - 1
             /\ Head(completions) \in Reports
             /\ Head(completions).cycle = active.id
             /\ \A q \in Producers \ rest : <<active.id, q>> \in ran
             /\ active'.expected = rest
             /\ IF rest = {} THEN active'.id = 0 /\ coord'.pc = "flush" /\ coord'.cycle = active.id
                             ELSE active'.id = active.id /\ coord' = coord
             /\ UNCHANGED <<ran, nextId, synced, lost>>
<1> DEFINE p == Head(completions).from
           rest == active.expected \ {p}
<1>1. TypeInv /\ LatestCycle /\ KnownCycles /\ ReportsMade
  BY DEF CycleInv
<1>2. p \in Producers /\ Head(completions) \in Reports /\ Head(completions).cycle = active.id
  BY <1>1, ReportReceived DEF CountCompletion
<1>3. active.id # 0 /\ active.id = nextId - 1
  BY <1>1, <1>2 DEF KnownCycles, LatestCycle
<1>4. \A q \in Producers \ rest : <<active.id, q>> \in ran
  BY <1>1, <1>2, <1>3 DEF ReportsMade
<1>5. /\ active' = IF rest = {} THEN NoCycle
                   ELSE [active EXCEPT !.expected = rest, !.ok = @ /\ Head(completions).ok]
      /\ coord' = IF rest = {} THEN [coord EXCEPT !.pc = "flush", !.cycle = active.id] ELSE coord
      /\ UNCHANGED <<ran, nextId, synced, lost>>
  BY DEF CountCompletion, Count, historyVars
<1>6. active'.expected = rest
  BY <1>1, <1>5 DEF NoCycle, TypeInv, TypeOK
<1>7. IF rest = {} THEN active'.id = 0 /\ coord'.pc = "flush" /\ coord'.cycle = active.id
                   ELSE active'.id = active.id /\ coord' = coord
  BY <1>1, <1>5 DEF NoCycle, TypeInv, TypeOK
<1>8. QED  BY <1>2, <1>3, <1>4, <1>5, <1>6, <1>7

LEMMA ReportsMadeStep == CycleInv /\ Next => ReportsMade'
<1> SUFFICES ASSUME CycleInv, Next PROVE ReportsMade'
  OBVIOUS
<1>1. TypeInv /\ ReportsMade /\ ran \subseteq ran'
  BY CycleMoves DEF CycleInv
<1>2. ASSUME NEW m \in Reports' PROVE <<m.cycle, m.from>> \in ran'
  <2>1. CASE m \in Reports
    BY <1>1, <2>1 DEF ReportsMade
  <2>2. ASSUME NEW p \in Producers, ReportCycle(p), m \notin Reports
        PROVE  <<m.cycle, m.from>> \in ran'
    <3>1. m.cycle = producer[p].cycle /\ m.from = p
      BY <1>1, <1>2, <2>2, ReportAdded DEF Request
    <3>2. QED  BY <2>2, <3>1 DEF ReportCycle, Report
  <2>3. QED  BY <1>1, <1>2, <2>1, <2>2, ReportReceived, ReportsKept
<1>3. ASSUME active'.id # 0, NEW p \in Producers \ active'.expected
      PROVE  <<active'.id, p>> \in ran'
  <2>1. CASE active' = active
    BY <1>1, <1>3, <2>1 DEF ReportsMade
  <2>2. CASE StartCycle
    BY <1>3, <2>2 DEF StartCycle
  <2>3. CASE CountCompletion
    BY <1>1, <1>3, <2>3, CountedReport
  <2>4. QED  BY <2>1, <2>2, <2>3, CycleMoves
<1>4. QED  BY <1>2, <1>3 DEF ReportsMade

\* SyncServed adds the latest cycle at the end.
LEMMA ServedCycle ==
  ASSUME CycleInv, SyncServed
  PROVE  /\ Completing /\ ~ Completing' /\ active'.id = 0
         /\ coord.cycle = nextId - 1 /\ nextId' = nextId
         /\ SyncedCycles' = SyncedCycles \cup {coord.cycle}
         /\ \A i \in DOMAIN synced' :
               \/ i \in DOMAIN synced /\ synced'[i] = synced[i]
               \/ i = Len(synced) + 1 /\ synced'[i] = coord.cycle
         /\ DOMAIN synced = 1..Len(synced) /\ Len(synced) \in Nat
<1> DEFINE S == Nat
           e == coord.cycle
<1>1. synced \in Seq(S) /\ e \in S
  BY DEF CycleInv, TypeInv, TypeOK
<1>2. synced' = Append(synced, e)
  BY DEF SyncServed
<1>3. e = coord.cycle
  OBVIOUS
<1> HIDE DEF S, e
<1>4. /\ DOMAIN synced = 1..Len(synced) /\ Len(synced) \in Nat
      /\ DOMAIN synced' = 1..Len(synced) + 1
      /\ \A i \in 1..Len(synced) : synced'[i] = synced[i]
      /\ synced'[Len(synced) + 1] = e
  BY <1>1, <1>2, LenProperties, AppendProperties
<1>5. \A i \in DOMAIN synced' :
         \/ i \in DOMAIN synced /\ synced'[i] = synced[i]
         \/ i = Len(synced) + 1 /\ synced'[i] = coord.cycle
  BY <1>3, <1>4
<1>6. /\ \A i \in DOMAIN synced : i \in DOMAIN synced' /\ synced'[i] = synced[i]
      /\ Len(synced) + 1 \in DOMAIN synced'
  BY <1>4
<1>7. SyncedCycles' = SyncedCycles \cup {coord.cycle}
  BY <1>3, <1>4, <1>5, <1>6 DEF SyncedCycles
<1>8. Completing /\ ~ Completing' /\ active' = active /\ nextId' = nextId
  BY DEF SyncServed, Completing, CycleInv, TypeInv, TypeOK
<1>9. active.id = 0 /\ coord.cycle = nextId - 1
  BY <1>8 DEF CycleInv, LatestCycle
<1>10. QED  BY <1>4, <1>5, <1>7, <1>8, <1>9

LEMMA SyncStep ==
  CycleInv /\ Next => SyncOnlyAfterReports' /\ SyncedBefore' /\ SyncOncePerCycle'
<1> SUFFICES ASSUME CycleInv, Next
             PROVE  SyncOnlyAfterReports' /\ SyncedBefore' /\ SyncOncePerCycle'
  OBVIOUS
<1>1. /\ TypeInv /\ LatestCycle /\ SyncOnlyAfterReports /\ SyncedBefore /\ SyncOncePerCycle
      /\ nextId \in Nat \ {0} /\ \A i \in DOMAIN synced : synced[i] \in Nat
  <2>1. synced \in Seq(Nat)
    BY DEF CycleInv, TypeInv, TypeOK
  <2>2. \A i \in DOMAIN synced : synced[i] \in Nat
    BY <2>1, LenProperties, ElementOfSeq
  <2>3. QED  BY <2>2 DEF CycleInv, TypeInv, TypeOK
<1>2. ran \subseteq ran'
  BY CycleMoves
<1>3. SyncOnlyAfterReports'
  <2>1. ASSUME Completing' PROVE \A p \in Producers : <<coord'.cycle, p>> \in ran'
    <3>1. CASE CountCompletion
      <4>1. coord'.pc = "flush"
        BY <1>1, <2>1, <3>1, CountedReport DEF CountCompletion, Completing
      <4>2. QED  BY <1>1, <2>1, <3>1, <4>1, CountedReport DEF CountCompletion
    <3>2. CASE Completing /\ coord'.cycle = coord.cycle
      BY <1>1, <1>2, <3>2 DEF SyncOnlyAfterReports
    <3>3. QED  BY <2>1, <3>1, <3>2, CycleMoves
  <2>2. \A c \in SyncedCycles' : \A p \in Producers : <<c, p>> \in ran'
    <3>1. CASE synced' = synced
      BY <1>1, <1>2, <3>1 DEF SyncOnlyAfterReports, SyncedCycles
    <3>2. CASE SyncServed
      BY <1>1, <1>2, <3>2, ServedCycle DEF SyncOnlyAfterReports
    <3>3. QED  BY <3>1, <3>2, CycleMoves
  <2>3. QED  BY <2>1, <2>2 DEF SyncOnlyAfterReports
<1>4. SyncedBefore'
  <2>1. CASE SyncServed
    BY <1>1, <2>1, ServedCycle DEF SyncedBefore
  <2>2. CASE StartCycle
    BY <1>1, <2>2 DEF StartCycle, SyncedBefore, historyVars
  <2>3. CASE CountCompletion
    BY <1>1, <2>3, CountedReport DEF SyncedBefore, Completing
  <2>4. CASE ~ (SyncServed \/ StartCycle \/ CountCompletion)
    <3>1. synced' = synced /\ active' = active /\ nextId' = nextId /\ (Completing' => Completing)
      BY <2>4, CycleMoves, NextIdMoves
    <3>2. QED  BY <1>1, <3>1 DEF SyncedBefore
  <2>5. QED  BY <2>1, <2>2, <2>3, <2>4
<1>5. SyncOncePerCycle'
  <2>1. CASE synced' = synced
    BY <1>1, <2>1 DEF SyncOncePerCycle
  <2>2. CASE SyncServed
    <3>1. \A i \in DOMAIN synced : synced[i] < coord.cycle
      BY <1>1, <2>2, ServedCycle DEF SyncedBefore
    <3>2. QED  BY <1>1, <2>2, <3>1, ServedCycle DEF SyncOncePerCycle
  <2>3. QED  BY <2>1, <2>2, CycleMoves
<1>6. QED  BY <1>3, <1>4, <1>5

\* A producer leaves the list of triggers to send when its trigger is sent.
LEMMA ToSendMoves ==
  ASSUME TypeInv, Next, ~ StartCycle, NEW p \in coord.toSend
  PROVE  p \in coord'.toSend \/ SendTrigger(p)
<1>1. CASE Coordinator
  <2>1. ASSUME NEW q \in Producers, SendTrigger(q) PROVE p \in coord'.toSend \/ SendTrigger(p)
    BY <2>1 DEF SendTrigger, TypeInv, TypeOK
  <2>2. ASSUME CountCompletion PROVE p \in coord'.toSend
    BY <2>2 DEF CountCompletion, Count, TypeInv, TypeOK
  <2>3. ASSUME SendFlush \/ SyncRefused \/ RequestSync \/ SyncServed \/ SyncFails
        PROVE  p \in coord'.toSend
    BY <2>3 DEF SendFlush, SyncRefused, RequestSync, SyncServed, SyncFails, TypeInv, TypeOK
  <2>4. QED
    BY <1>1, <2>1, <2>2, <2>3 DEF Coordinator, IgnoreEvent, IgnoreCompletion, coordVars
<1>2. ASSUME NEW q \in Producers, Producer(q) PROVE coord' = coord
  BY <1>2 DEF Producer, TakeTrigger, Poll, CollectFails, Publish, EndRun, ReportCycle, Report,
       DropCycle, coordVars
<1>3. CASE Publisher
  BY <1>3 DEF Publisher, SkipPut, StartPut, PutAnswered, PutFails, HandleComplete,
       ForwardCompletion, HandleFlush, coordVars, TypeInv, TypeOK
<1>4. CASE Environment
  BY <1>4 DEF Environment, Connect, Disconnect, ChangeMode, RefreshManually, coordVars
<1>5. QED  BY <1>1, <1>2, <1>3, <1>4 DEF Next

\* What a producer still owes, step by step: the trigger to come, the trigger in
\* its channel, the cycle in hand, the report on its way.
LEMMA AwaitedStep == CycleInv /\ Next => AwaitedIsInFlight'
<1> SUFFICES ASSUME CycleInv, Next PROVE AwaitedIsInFlight'
  OBVIOUS
<1>0. active'.expected \subseteq Producers
  BY TypeStep DEF CycleInv, TypeInv, TypeOK
<1> SUFFICES ASSUME active'.id # 0, NEW p \in Producers, p \in active'.expected
             PROVE  InFlight(active.id, p)' \/ <<active'.id, p>> \in lost'
  BY <1>0 DEF AwaitedIsInFlight
<1> DEFINE c == active.id
           Owed == \/ p \in coord'.toSend
                   \/ c \in Range(triggers'[p])
                   \/ producer'[p].cycle = c
                   \/ \E m \in Reports' : m.cycle = c /\ m.from = p
                   \/ <<c, p>> \in lost'
<1>1. /\ TypeInv /\ LatestCycle /\ KnownCycles /\ AwaitedIsInFlight
      /\ lost \subseteq lost'
  BY CycleMoves DEF CycleInv
<1>2. CASE StartCycle
  BY <1>2 DEF StartCycle, InFlight
<1>3. CASE ~ StartCycle
  <2>1. active'.id = c /\ p \in active.expected /\ c # 0
    BY <1>3, CycleMoves, CountedReport
  <2>2. InFlight(c, p) \/ <<c, p>> \in lost
    BY <1>1, <2>1 DEF AwaitedIsInFlight
  <2>3. ASSUME <<c, p>> \in lost PROVE Owed
    BY <1>1, <2>3
  <2>4. ASSUME p \in coord.toSend PROVE Owed
    <3>1. CASE p \in coord'.toSend
      BY <3>1
    <3>2. CASE SendTrigger(p)
      <4>1. coord.cycle = c
        BY <1>1, <3>2 DEF SendTrigger, LatestCycle
      <4>2. QED  BY <1>1, <3>2, <4>1, MoveEffects
    <3>3. QED  BY <1>1, <1>3, <2>4, <3>1, <3>2, ToSendMoves
  <2>5. ASSUME c \in Range(triggers[p]) PROVE Owed
    <3>1. CASE Unmoved(p)
      BY <2>5, <3>1 DEF Unmoved
    <3>2. CASE ~ Unmoved(p)
      BY <1>1, <2>5, <3>2, ProducerMoves, MoveEffects
    <3>3. QED  BY <3>1, <3>2
  <2>6. ASSUME producer[p].cycle = c PROVE Owed
    <3>1. CASE Unmoved(p)
      BY <2>6, <3>1 DEF Unmoved
    <3>2. CASE RefreshManually(p) \/ SendTrigger(p)
      BY <1>1, <2>6, <3>2, MoveEffects
    <3>3. CASE TakeTrigger(p) \/ Poll(p)
      BY <1>1, <2>1, <2>6, <3>3, MoveEffects DEF KnownCycles, Manual
    <3>4. CASE EndRun(p)
      BY <2>1, <2>6, <3>4 DEF EndRun, Manual
    <3>5. CASE ReportCycle(p)
      <4> DEFINE m == Request("complete", p, producer[p].cycle, producer[p].ok)
      <4>1. m \in Reports' /\ m.cycle = producer[p].cycle /\ m.from = p
        BY <1>1, <3>5, ReportAdded DEF Request
      <4> HIDE DEF m
      <4>2. QED  BY <2>6, <4>1
    <3>6. CASE DropCycle(p)
      BY <2>1, <2>6, <3>6 DEF DropCycle, Manual
    <3>7. QED
      BY <1>1, <3>1, <3>2, <3>3, <3>4, <3>5, <3>6, ProducerMoves
  <2>7. ASSUME NEW m \in Reports, m.cycle = c, m.from = p PROVE Owed
    <3>1. CASE IgnoreCompletion
      <4>1. m # Head(completions)
        BY <2>7, <3>1 DEF IgnoreCompletion
      <4>2. QED  BY <1>1, <2>7, <3>1, <4>1, ReportReceived
    <3>2. CASE CountCompletion
      <4>1. m # Head(completions)
        BY <2>7, <3>2, CountedReport
      <4>2. QED  BY <1>1, <2>7, <3>2, <4>1, ReportReceived
    <3>3. CASE \E q \in Producers : ReportCycle(q)
      BY <1>1, <2>7, <3>3, ReportAdded
    <3>4. QED  BY <1>1, <2>7, <3>1, <3>2, <3>3, ReportsKept
  <2>8. Owed
    BY <2>2, <2>3, <2>4, <2>5, <2>6, <2>7 DEF InFlight
  <2>9. QED  BY <2>1, <2>8 DEF InFlight
<1>4. QED  BY <1>2, <1>3

\* CycleInv is inductive.
LEMMA CycleStep == CycleInv /\ [Next]_vars => CycleInv'
<1> SUFFICES ASSUME CycleInv, [Next]_vars PROVE CycleInv'
  OBVIOUS
<1>1. TypeInv'
  BY TypeStep DEF CycleInv
<1>2. CASE Next
  BY <1>1, <1>2, FlushStep, LatestStep, KnownStep, ReportsMadeStep, SyncStep, AwaitedStep
     DEF CycleInv
<1>3. CASE UNCHANGED vars
  <2>1. Reports' = Reports /\ SyncedCycles' = SyncedCycles /\ (Completing' <=> Completing)
    BY <1>3 DEF vars, Reports, InTransit, SyncedCycles, Completing
  <2>2. FlushAwaited' /\ LatestCycle' /\ KnownCycles' /\ ReportsMade'
    BY <1>3, <2>1 DEF CycleInv, vars, FlushAwaited, LatestCycle, KnownCycles, ReportsMade
  <2>3. SyncOnlyAfterReports' /\ SyncedBefore' /\ SyncOncePerCycle' /\ AwaitedIsInFlight'
    BY <1>3, <2>1 DEF CycleInv, vars, SyncOnlyAfterReports, SyncedBefore, SyncOncePerCycle,
                      AwaitedIsInFlight, InFlight
  <2>4. QED  BY <1>1, <2>2, <2>3 DEF CycleInv
<1>4. QED  BY <1>2, <1>3

LEMMA CycleInvariant == Spec => []CycleInv
  BY InitCycle, CycleStep, PTL DEF Spec

-----------------------------------------------------------------------------
(* The theorems.                                                           *)

\* The device is told that a cycle is complete only after every producer has
\* reported that cycle: the reports of a replaced cycle, in whatever channel
\* they still are, never count for the cycle that replaced it.
THEOREM SyncAfterReports == Spec => []SyncOnlyAfterReports
<1>1. CycleInv => SyncOnlyAfterReports
  BY DEF CycleInv
<1>2. QED  BY <1>1, CycleInvariant, PTL

\* Each cycle is completed at most once, and cycles in their order.
THEOREM SyncedOnce == Spec => []SyncOncePerCycle
<1>1. CycleInv => SyncOncePerCycle
  BY DEF CycleInv
<1>2. QED  BY <1>1, CycleInvariant, PTL

\* The cycle never waits for a producer that has nothing left to report with:
\* only a producer that drops the cycle can keep it from completing.
THEOREM NothingForgotten == Spec => []AwaitedIsInFlight
<1>1. CycleInv => AwaitedIsInFlight
  BY DEF CycleInv
<1>2. QED  BY <1>1, CycleInvariant, PTL

\* A cycle that was replaced never completes.
THEOREM LatestCompletes == Spec => OnlyLatestCompletes
<1>1. CycleInv /\ [Next]_vars => [\A c \in SyncedCycles' \ SyncedCycles : c = nextId - 1]_vars
  <2> SUFFICES ASSUME CycleInv, Next, NEW c \in SyncedCycles' \ SyncedCycles
               PROVE  c = nextId - 1
    OBVIOUS
  <2>1. CASE synced' = synced
    BY <2>1 DEF SyncedCycles
  <2>2. CASE SyncServed
    BY <2>2, ServedCycle
  <2>3. QED  BY <2>1, <2>2, CycleMoves
<1>2. QED  BY <1>1, CycleInvariant, PTL DEF Spec, OnlyLatestCompletes

-----------------------------------------------------------------------------
(* What is behind the reports of the latest cycle.                         *)

Latest == nextId - 1

ReportsOf(p) == {m \in Command : m.op = "complete" /\ m.from = p}
LatestOf(p) == {m \in ReportsOf(p) : m.cycle = Latest}

\* No cycle waits in the producer's channel, or is in its hands.
NoneQueued(p) == \A c \in Range(triggers[p]) : c = Manual
NothingInHand(p) == NoneQueued(p) /\ producer[p].cycle = Manual

\* The latest cycle is the last that a producer gets: before it is sent there is no sign
\* of it, afterwards only manual triggers follow.
LatestIsLast(p) ==
    /\ p \in coord.toSend =>
          /\ Latest \notin Range(triggers[p])
          /\ producer[p].cycle # Latest
          /\ \A m \in Reports : m \notin LatestOf(p)
    /\ LastOf(triggers[p], {Latest}, Nat \ {Manual})
    /\ producer[p].cycle = Latest => NoneQueued(p)
    /\ \A m \in Reports : m \in LatestOf(p) => NothingInHand(p)

\* From the queue over the command at work to the completions: behind a message of M
\* there is none of A.
Line(M, A, queued, busy, done) ==
    /\ LastOf(queued, M, A)
    /\ LastOf(done, M, A)
    /\ Range(busy) \cap M # {} => Range(queued) \cap A = {}
    /\ Range(done) \cap M # {} => (Range(queued) \cup Range(busy)) \cap A = {}

LineInv ==
    nextId > 1 =>
        \A p \in Producers :
            LatestIsLast(p) /\ Line(LatestOf(p), ReportsOf(p), queue, held, completions)

\* A producer that was counted has nothing left to report.
Quiet(p) == NothingInHand(p) /\ \A m \in Reports : m.from # p

CountedIsQuiet ==
    /\ coord.pc = "trigger" => active.expected = Producers
    /\ \A p \in Producers :
          Completing \/ (active.id # 0 /\ p \notin active.expected) => Quiet(p)

FlushInv == LineInv /\ CountedIsQuiet

LEMMA InitFlush == Init => FlushInv
  BY DEF Init, FlushInv, LineInv, CountedIsQuiet, NoCycle, Completing

\* Commands and completions are typed.
LEMMA TransitTyped ==
  ASSUME TypeInv
  PROVE  /\ Range(queue) \subseteq Command /\ Range(held) \subseteq Command
         /\ Range(completions) \subseteq Command
         /\ Completion \subseteq Command
         /\ \A p \in Producers : ReportsOf(p) \cap InTransit = {m \in Reports : m.from = p}
         /\ \A m \in Reports : m.from \in Producers
<1>1. Completion \subseteq Command
  BY DEF Completion, Command
<1>2. /\ Range(queue) \subseteq Command /\ Range(held) \subseteq Command
      /\ Range(completions) \subseteq Completion
  BY CarriesTyped DEF TypeInv, TypeOK
<1>3. \A m \in Range(completions) : m.from \in Producers
  BY <1>2 DEF Completion
<1>4. InTransit \subseteq Command
  BY <1>1, <1>2 DEF InTransit
<1>5. \A m \in Reports : m.from \in Producers
  BY <1>3 DEF Reports, InTransit, TypeInv, OutstandingPublish, ReporterKnown
<1>6. \A p \in Producers : ReportsOf(p) \cap InTransit = {m \in Reports : m.from = p}
  BY <1>4 DEF ReportsOf, Reports
<1> QED
  BY <1>1, <1>2, <1>5, <1>6

\* Who is to be sent a trigger, and when.
LEMMA SendingMoves ==
  ASSUME TypeInv, Next, ~ StartCycle
  PROVE  /\ coord'.toSend \subseteq coord.toSend
         /\ coord'.pc = "trigger" => coord.pc = "trigger"
         /\ \A p \in Producers : SendTrigger(p) => p \notin coord'.toSend
<1>1. \A p \in Producers : SendTrigger(p) => p \notin coord'.toSend
  BY DEF SendTrigger, TypeInv, TypeOK
<1>2. ASSUME coord' = coord
      PROVE  /\ coord'.toSend \subseteq coord.toSend
             /\ coord'.pc = "trigger" => coord.pc = "trigger"
  BY <1>2
<1>3. ASSUME NEW p \in Producers, SendTrigger(p)
      PROVE  /\ coord'.toSend \subseteq coord.toSend
             /\ coord'.pc = "trigger" => coord.pc = "trigger"
  BY <1>3 DEF SendTrigger, TypeInv, TypeOK
<1>4. ASSUME \/ CountCompletion \/ SendFlush \/ SyncRefused \/ RequestSync \/ SyncServed
             \/ SyncFails \/ HandleFlush
      PROVE  /\ coord'.toSend \subseteq coord.toSend
             /\ coord'.pc = "trigger" => coord.pc = "trigger"
  BY <1>4 DEF CountCompletion, Count, SendFlush, SyncRefused, RequestSync, SyncServed, SyncFails,
              HandleFlush, TypeInv, TypeOK
<1>5. CASE Coordinator
  BY <1>1, <1>2, <1>3, <1>4, <1>5 DEF Coordinator, IgnoreEvent, IgnoreCompletion, coordVars
<1>6. ASSUME NEW p \in Producers, Producer(p) PROVE coord' = coord
  BY <1>6 DEF Producer, TakeTrigger, Poll, CollectFails, Publish, EndRun, ReportCycle, Report,
              DropCycle, coordVars
<1>7. CASE Publisher
  BY <1>1, <1>2, <1>4, <1>7 DEF Publisher, SkipPut, StartPut, PutAnswered, PutFails,
              HandleComplete, ForwardCompletion, coordVars
<1>8. CASE Environment
  BY <1>1, <1>2, <1>8 DEF Environment, Connect, Disconnect, ChangeMode, RefreshManually, coordVars
<1> QED
  BY <1>1, <1>2, <1>5, <1>6, <1>7, <1>8 DEF Next

\* Empty hands stay empty until the next trigger is sent.
LEMMA HandsStayEmpty ==
  ASSUME TypeInv, Next, NEW p \in Producers, ~ SendTrigger(p), NothingInHand(p)
  PROVE  NothingInHand(p)'
<1>1. CASE Unmoved(p)
  BY <1>1 DEF Unmoved, NothingInHand, NoneQueued
<1>2. CASE ~ Unmoved(p)
  <2>1. /\ \A c \in Range(triggers'[p]) : c = Manual
        /\ producer'[p].cycle = Manual
    BY <1>2, ProducerMoves, MoveEffects DEF NothingInHand, NoneQueued
  <2> QED
    BY <2>1 DEF NothingInHand, NoneQueued
<1> QED
  BY <1>1, <1>2

\* A producer with empty hands makes no report.
LEMMA QuietStays ==
  ASSUME TypeInv, Next, NEW p \in Producers, ~ SendTrigger(p), Quiet(p)
  PROVE  Quiet(p)'
<1>1. NothingInHand(p)' /\ ~ ReportCycle(p)
  BY HandsStayEmpty DEF Quiet, NothingInHand, ReportCycle, Report
<1>2. ASSUME NEW m \in Reports', m \notin Reports PROVE m.from # p
  <2>1. PICK q \in Producers : ReportCycle(q)
    BY <1>2, ReportsKept, ReportReceived
  <2> QED
    BY <1>1, <1>2, <2>1, ReportAdded DEF Request
<1> QED
  BY <1>1, <1>2 DEF Quiet

\* Steps that are no report of the producer keep the line.
LEMMA LineKept ==
  ASSUME TypeInv, Next, NEW p \in Producers, ~ ReportCycle(p),
         NEW M, NEW A, M \subseteq A, A \subseteq ReportsOf(p),
         Line(M, A, queue, held, completions)
  PROVE  Line(M, A, queue', held', completions')
<1>1. ASSUME UNCHANGED <<queue, held, completions>>
      PROVE  Line(M, A, queue', held', completions')
  BY <1>1
<1>2. ASSUME NEW m \in Command, m \notin A, queue' = Append(queue, m),
             UNCHANGED <<held, completions>>
      PROVE  Line(M, A, queue', held', completions')
  <2>1. queue \in Seq(Command)
    BY DEF TypeInv, TypeOK
  <2>2. Range(queue') = Range(queue) \cup {m} /\ LastOf(queue', M, A)
    BY <1>2, <2>1, SendCarries, SendKeepsLast DEF Line
  <2> QED
    BY <1>2, <2>2 DEF Line
<1>3. ASSUME NEW op, Take(op)
      PROVE  /\ held = <<>> /\ Range(held) = {}
             /\ Range(queue) = Range(queue') \cup {Head(queue)} /\ Head(queue).op = op
             /\ LastOf(queue', M, A)
             /\ Head(queue) \in M => Range(queue') \cap A = {}
  <2>1. queue \in Seq(Command) /\ queue # <<>> /\ queue' = Tail(queue)
    BY <1>3 DEF TypeInv, TypeOK, Take
  <2>2. /\ LastOf(queue', M, A)
        /\ Head(queue) \in M => Range(queue') \cap A = {}
    BY <2>1, ReceiveKeepsLast DEF Line
  <2> QED
    BY <1>3, <2>2, TakeCarries, NothingCarried
<1>4. CASE SkipPut \/ HandleFlush
  <2>1. PICK op \in {"publish", "flush"} : Take(op)
    BY <1>4 DEF SkipPut, HandleFlush
  <2>2. UNCHANGED <<held, completions>>
    BY <1>4 DEF SkipPut, HandleFlush
  <2> QED
    BY <1>3, <2>1, <2>2 DEF Line
<1>5. CASE StartPut \/ HandleComplete
  <2>1. PICK op : Take(op)
    BY <1>5 DEF StartPut, HandleComplete
  <2>2. held' = <<Head(queue)>> /\ UNCHANGED completions
    BY <1>5 DEF StartPut, HandleComplete
  <2>3. Range(held') = {Head(queue)}
    BY <2>2, HeldOne
  <2> QED
    BY <1>3, <2>1, <2>2, <2>3 DEF Line
<1>6. CASE PutAnswered \/ PutFails
  <2>1. held' = <<>> /\ UNCHANGED <<queue, completions>>
    BY <1>6 DEF PutAnswered, PutFails
  <2>2. Range(held') = {}
    BY <2>1, NothingCarried
  <2> QED
    BY <2>1, <2>2 DEF Line
<1>7. CASE ForwardCompletion
  <2> DEFINE m == Head(held)
  <2>1. /\ held # <<>> /\ m.op = "complete" /\ held' = <<>> /\ queue' = queue
        /\ completions' = Append(completions, m)
    BY <1>7 DEF ForwardCompletion
  <2>2. Range(held) = {m} /\ Range(held') = {} /\ m \in Command
    BY <2>1, HeldType, NothingCarried
  <2>3. m \in Completion /\ completions \in Seq(Completion)
    BY <2>1, <2>2 DEF TypeInv, TypeOK, OutstandingPublish, ReporterKnown, Command, Completion
  <2> HIDE DEF m
  <2>4. Range(completions') = Range(completions) \cup {m}
    BY <2>1, <2>3, SendCarries
  <2>5. m \notin A \/ Range(completions) \cap M = {}
    BY <2>2 DEF Line
  <2>6. LastOf(completions', M, A)
    BY <2>1, <2>3, <2>5, SendKeepsLast DEF Line
  <2>7. Range(completions') \cap M # {} => Range(queue) \cap A = {}
    BY <2>2, <2>4 DEF Line
  <2> QED
    BY <2>1, <2>2, <2>6, <2>7 DEF Line
<1>8. CASE IgnoreCompletion \/ CountCompletion
  <2>1. /\ completions \in Seq(Completion) /\ completions # <<>>
        /\ completions' = Tail(completions) /\ UNCHANGED <<queue, held>>
    BY <1>8 DEF IgnoreCompletion, CountCompletion, Count, TypeInv, TypeOK
  <2>2. LastOf(completions', M, A) /\ Range(completions') \subseteq Range(completions)
    BY <2>1, ReceiveKeepsLast, ReceiveCarries DEF Line
  <2> QED
    BY <2>1, <2>2 DEF Line
<1>9. CASE Publisher
  BY <1>4, <1>5, <1>6, <1>7, <1>9 DEF Publisher
<1>10. CASE SendFlush
  <2> DEFINE m == Request("flush", "coordinator", coord.cycle, TRUE)
  <2>1. m \in Command /\ m.op # "complete"
    BY DEF Request, Command, TypeInv, TypeOK
  <2>2. queue' = Append(queue, m) /\ UNCHANGED <<held, completions>>
    BY <1>10 DEF SendFlush
  <2> HIDE DEF m
  <2>3. m \notin A
    BY <2>1 DEF ReportsOf
  <2> QED
    BY <1>2, <2>1, <2>2, <2>3
<1>11. CASE Coordinator
  <2>1. \/ SendFlush \/ IgnoreCompletion \/ CountCompletion
        \/ UNCHANGED <<queue, held, completions>>
    BY <1>11 DEF Coordinator, IgnoreEvent, StartCycle, SendTrigger, SyncRefused, RequestSync,
                 SyncServed, SyncFails
  <2> QED
    BY <1>1, <1>8, <1>10, <2>1
<1>12. ASSUME NEW q \in Producers, Producer(q) PROVE Line(M, A, queue', held', completions')
  <2>1. CASE Publish(q) \/ ReportCycle(q)
    <3>1. PICK op \in {"publish", "complete"}, ok \in BOOLEAN :
             /\ queue' = Append(queue, Request(op, q, producer[q].cycle, ok))
             /\ UNCHANGED <<held, completions>>
             /\ op = "complete" => ReportCycle(q)
      BY <2>1 DEF Publish, ReportCycle, Report, TypeInv, TypeOK
    <3> DEFINE m == Request(op, q, producer[q].cycle, ok)
    <3>2. m \in Command /\ m.op = op /\ m.from = q
      BY DEF Request, Command, TypeInv, TypeOK
    <3> HIDE DEF m
    <3>3. m \notin A
      BY <3>1, <3>2 DEF ReportsOf
    <3> QED
      BY <1>2, <3>1, <3>2, <3>3 DEF m
  <2>2. CASE TakeTrigger(q) \/ Poll(q) \/ CollectFails(q) \/ EndRun(q) \/ DropCycle(q)
    BY <1>1, <2>2 DEF TakeTrigger, Poll, CollectFails, EndRun, DropCycle
  <2> QED
    BY <1>12, <2>1, <2>2 DEF Producer
<1>13. CASE Environment
  BY <1>1, <1>13 DEF Environment, Connect, Disconnect, ChangeMode, RefreshManually
<1> QED
  BY <1>9, <1>11, <1>12, <1>13 DEF Next

\* A new cycle: nobody has heard of it.
LEMMA LineStarts ==
  ASSUME CycleInv, StartCycle, NEW p \in Producers
  PROVE  /\ LatestIsLast(p)'
         /\ Line(LatestOf(p), ReportsOf(p), queue, held, completions)'
<1>1. /\ TypeInv /\ KnownCycles /\ nextId \in Nat \ {0} /\ nextId' = nextId + 1
      /\ UNCHANGED <<triggers, producer, queue, held, completions>>
  BY DEF CycleInv, StartCycle, TypeInv, TypeOK
<1>2. Latest' = nextId /\ Reports' = Reports
  BY <1>1 DEF Latest, Reports, InTransit
<1>3. Range(triggers[p]) \subseteq Nat /\ producer[p].cycle \in Nat
  BY <1>1, CarriesTyped DEF TypeInv, TypeOK
<1>4. nextId \notin Range(triggers[p]) /\ producer[p].cycle # nextId
  BY <1>1, <1>3 DEF KnownCycles
<1>5. \A m \in InTransit : m \notin LatestOf(p)'
  <2> SUFFICES ASSUME NEW m \in InTransit, m \in LatestOf(p)' PROVE FALSE
    OBVIOUS
  <2>1. m \in Reports /\ m.cycle = nextId
    BY <1>2 DEF LatestOf, ReportsOf, Reports
  <2> QED
    BY <1>1, <2>1 DEF KnownCycles
<1>6. LatestIsLast(p)'
  <2>1. LastOf(triggers[p], {nextId}, Nat \ {Manual})
    BY <1>4 DEF LastOf, Range
  <2>2. \A m \in Reports' : m \notin LatestOf(p)'
    BY <1>2, <1>5 DEF Reports
  <2> QED
    BY <1>1, <1>2, <1>4, <2>1, <2>2 DEF LatestIsLast
<1>7. Line(LatestOf(p), ReportsOf(p), queue, held, completions)'
  <2> DEFINE M == LatestOf(p)'
             A == ReportsOf(p)
  <2>1. /\ \A m \in Range(queue) : m \notin M
        /\ \A m \in Range(held) : m \notin M
        /\ \A m \in Range(completions) : m \notin M
    BY <1>5 DEF InTransit
  <2> HIDE DEF M
  <2>2. Line(M, A, queue, held, completions)
    BY <2>1 DEF Line, LastOf, Range
  <2> QED
    BY <1>1, <2>2 DEF M, ReportsOf
<1> QED
  BY <1>6, <1>7

\* What a producer gets, works on and reports is in the order of the triggers.
LEMMA LatestStaysLast ==
  ASSUME CycleInv, Next, ~ StartCycle, nextId > 1, NEW p \in Producers, LatestIsLast(p)
  PROVE  LatestIsLast(p)'
<1>1. /\ TypeInv /\ LatestCycle /\ Latest \in Nat \ {0} /\ Latest' = Latest
      /\ LatestOf(p)' = LatestOf(p)
  <2>1. nextId' = nextId
    BY NextIdMoves
  <2>2. TypeInv /\ LatestCycle /\ nextId \in Nat
    BY DEF CycleInv, TypeInv, TypeOK
  <2>3. Latest \in Nat \ {0} /\ Latest' = Latest
    BY <2>1, <2>2 DEF Latest
  <2> QED
    BY <2>2, <2>3 DEF LatestOf, ReportsOf
<1>2. /\ triggers[p] \in Seq(Nat) /\ triggers'[p] \in Seq(Nat)
      /\ triggers \in [Producers -> Seq(Nat)]
  BY <1>1, TypeStep DEF TypeInv, TypeOK
<1>3. SendTrigger(p) => p \in coord.toSend /\ coord.cycle = Latest
  BY <1>1 DEF SendTrigger, LatestCycle, Latest
<1>4. ASSUME NEW m \in Reports', m \notin Reports, m \in LatestOf(p)
      PROVE  ReportCycle(p) /\ producer[p].cycle = Latest
  <2>1. PICK q \in Producers : ReportCycle(q)
    BY <1>1, <1>4, ReportsKept, ReportReceived
  <2>2. m.from = q /\ m.cycle = producer[q].cycle
    BY <1>1, <1>4, <2>1, ReportAdded DEF Request
  <2> QED
    BY <1>4, <2>1, <2>2 DEF LatestOf, ReportsOf
<1>5. ASSUME p \in coord'.toSend
      PROVE  /\ Latest \notin Range(triggers'[p])
             /\ producer'[p].cycle # Latest
             /\ \A m \in Reports' : m \notin LatestOf(p)
  <2>1. p \in coord.toSend /\ ~ SendTrigger(p)
    BY <1>1, <1>5, SendingMoves
  <2>2. /\ Latest \notin Range(triggers[p])
        /\ producer[p].cycle # Latest
        /\ \A m \in Reports : m \notin LatestOf(p)
    BY <2>1 DEF LatestIsLast
  <2>3. Latest # Manual
    BY <1>1 DEF Manual
  <2>4. CASE Unmoved(p)
    BY <1>4, <2>2, <2>4 DEF Unmoved
  <2>5. CASE ~ Unmoved(p)
    BY <1>1, <1>4, <2>1, <2>2, <2>3, <2>5, ProducerMoves, MoveEffects
  <2> QED
    BY <2>4, <2>5
<1>6. LastOf(triggers'[p], {Latest}, Nat \ {Manual})
  <2>1. LastOf(triggers[p], {Latest}, Nat \ {Manual})
    BY DEF LatestIsLast
  <2>2. CASE triggers'[p] = triggers[p]
    BY <2>1, <2>2
  <2>3. CASE RefreshManually(p)
    <3>1. triggers'[p] = Append(triggers[p], Manual) /\ Manual \in Nat
      BY <1>2, <2>3 DEF RefreshManually, Manual
    <3> QED
      BY <1>2, <2>1, <3>1, SendKeepsLast
  <2>4. CASE SendTrigger(p)
    <3>1. triggers'[p] = Append(triggers[p], Latest)
      BY <1>2, <1>3, <2>4 DEF SendTrigger
    <3>2. Range(triggers[p]) \cap {Latest} = {}
      BY <1>3, <2>4 DEF LatestIsLast
    <3> QED
      BY <1>1, <1>2, <2>1, <3>1, <3>2, SendKeepsLast
  <2>5. CASE TakeTrigger(p)
    <3>1. triggers'[p] = Tail(triggers[p]) /\ triggers[p] # <<>>
      BY <1>2, <2>5 DEF TakeTrigger
    <3> QED
      BY <1>2, <2>1, <3>1, ReceiveKeepsLast
  <2>6. ASSUME Poll(p) \/ EndRun(p) \/ ReportCycle(p) \/ DropCycle(p)
        PROVE  triggers'[p] = triggers[p]
    BY <2>6 DEF Poll, EndRun, ReportCycle, Report, DropCycle
  <2> QED
    BY <1>1, <2>2, <2>3, <2>4, <2>5, <2>6, ProducerMoves DEF Unmoved
<1>7. ASSUME producer'[p].cycle = Latest
      PROVE  \A c \in Range(triggers'[p]) : c = Manual
  <2>1. Latest # Manual
    BY <1>1 DEF Manual
  <2>2. CASE TakeTrigger(p)
    <3>1. /\ triggers[p] # <<>> /\ triggers'[p] = Tail(triggers[p])
          /\ producer'[p].cycle = Head(triggers[p])
      BY <1>1, <1>2, <2>2 DEF TakeTrigger, Run, TypeInv, TypeOK
    <3>2. LastOf(triggers[p], {Latest}, Nat \ {Manual})
      BY DEF LatestIsLast
    <3>3. Range(triggers'[p]) \cap (Nat \ {Manual}) = {}
      BY <1>2, <1>7, <3>1, <3>2, ReceiveKeepsLast
    <3>4. Range(triggers'[p]) \subseteq Nat
      BY <1>2, CarriesTyped
    <3> QED
      BY <3>3, <3>4
  <2>3. CASE ~ TakeTrigger(p)
    <3>1. /\ producer[p].cycle = Latest /\ ~ SendTrigger(p)
          /\ Unmoved(p) \/ RefreshManually(p)
      BY <1>1, <1>3, <1>7, <2>1, <2>3, ProducerMoves, MoveEffects DEF Unmoved, LatestIsLast
    <3>2. \A c \in Range(triggers[p]) : c = Manual
      BY <3>1 DEF LatestIsLast, NoneQueued
    <3> QED
      BY <1>1, <3>1, <3>2, MoveEffects DEF Unmoved
  <2> QED
    BY <2>2, <2>3
<1>8. ASSUME NEW m \in Reports', m \in LatestOf(p) PROVE NothingInHand(p)'
  <2>1. CASE m \in Reports
    <3>1. NothingInHand(p) /\ ~ SendTrigger(p)
      BY <1>3, <1>8, <2>1 DEF LatestIsLast
    <3> QED
      BY <1>1, <3>1, HandsStayEmpty
  <2>2. CASE m \notin Reports
    <3>1. ReportCycle(p) /\ NoneQueued(p)
      BY <1>4, <1>8, <2>2 DEF LatestIsLast
    <3>2. /\ Range(triggers'[p]) = Range(triggers[p])
          /\ producer'[p].cycle = Manual
      BY <1>1, <3>1, MoveEffects
    <3> QED
      BY <3>1, <3>2 DEF NothingInHand, NoneQueued
  <2> QED
    BY <2>1, <2>2
<1> QED
  BY <1>1, <1>5, <1>6, <1>7, <1>8 DEF LatestIsLast, NoneQueued

LEMMA LineStep == CycleInv /\ LineInv /\ Next => LineInv'
<1> SUFFICES ASSUME CycleInv, LineInv, Next, (nextId > 1)', NEW p \in Producers
             PROVE  /\ LatestIsLast(p)'
                    /\ Line(LatestOf(p), ReportsOf(p), queue, held, completions)'
  BY DEF LineInv
<1>1. CASE StartCycle
  BY <1>1, LineStarts
<1>2. CASE ~ StartCycle
  <2>1. nextId' = nextId /\ TypeInv
    BY <1>2, NextIdMoves DEF CycleInv
  <2>2. LatestIsLast(p) /\ Line(LatestOf(p), ReportsOf(p), queue, held, completions)
    BY <2>1 DEF LineInv
  <2>3. LatestIsLast(p)'
    BY <1>2, <2>1, <2>2, LatestStaysLast
  <2> DEFINE M == LatestOf(p)
             A == ReportsOf(p)
  <2>4. M \subseteq A /\ A \subseteq ReportsOf(p) /\ M' = M /\ A' = A
    BY <2>1 DEF LatestOf, ReportsOf, Latest
  <2>5. CASE ~ ReportCycle(p)
    <3> HIDE DEF M, A
    <3>1. Line(M, A, queue', held', completions')
      BY <2>1, <2>2, <2>4, <2>5, LineKept DEF M, A
    <3> QED
      BY <2>3, <2>4, <3>1 DEF M, A
  <2>6. CASE ReportCycle(p)
    <3> DEFINE m == Request("complete", p, producer[p].cycle, producer[p].ok)
    <3>1. m \in Command /\ queue \in Seq(Command)
      BY <2>1 DEF Request, Command, TypeInv, TypeOK
    <3>2. queue' = Append(queue, m) /\ UNCHANGED <<held, completions>> /\ producer[p].cycle # Manual
      BY <2>6 DEF ReportCycle, Report
    <3>3. \A r \in Reports : r \notin M
      BY <2>2, <3>2 DEF LatestIsLast, NothingInHand
    <3>4. \A r \in InTransit : r \notin M
      BY <3>3 DEF LatestOf, ReportsOf, Reports
    <3>5. /\ Range(queue) \cap M = {} /\ Range(held) \cap M = {}
          /\ Range(completions) \cap M = {}
      BY <3>4 DEF InTransit
    <3> HIDE DEF M, A, m
    <3>6. LastOf(queue, M, A) /\ LastOf(completions, M, A)
      BY <2>2 DEF M, A, Line
    <3>7. LastOf(queue', M, A)
      BY <3>1, <3>2, <3>5, <3>6, SendKeepsLast
    <3>8. Line(M, A, queue', held', completions')
      BY <3>2, <3>5, <3>6, <3>7 DEF Line
    <3> QED
      BY <2>3, <2>4, <3>8 DEF M, A
  <2> QED
    BY <2>5, <2>6
<1> QED
  BY <1>1, <1>2

\* The report that is counted is its producer's last.
LEMMA CountedLast ==
  ASSUME CycleInv, LineInv, CountCompletion, NEW p, p = Head(completions).from
  PROVE  Quiet(p)'
<1> DEFINE h == Head(completions)
<1>1. /\ TypeInv /\ p \in Producers /\ h \in Reports /\ h.cycle = Latest /\ nextId > 1
      /\ UNCHANGED <<triggers, producer, queue, held>>
      /\ completions # <<>> /\ completions' = Tail(completions)
  <2>1. TypeInv /\ nextId \in Nat
    BY DEF CycleInv, TypeInv, TypeOK
  <2>2. /\ p \in Producers /\ active.id # 0 /\ active.id = nextId - 1
        /\ h \in Reports /\ h.cycle = active.id
    BY CountedReport
  <2>3. active.id \in Nat
    BY <2>1 DEF TypeInv, TypeOK
  <2> QED
    BY <2>1, <2>2, <2>3 DEF CountCompletion, Count, Latest
<1>2. h \in Range(completions) /\ completions \in Seq(Completion)
  BY <1>1, ReceiveCarries DEF TypeInv, TypeOK
<1>3. h \in LatestOf(p)
  <2>1. h \in Command /\ h.op = "complete"
    BY <1>1, <1>2, TransitTyped DEF Reports
  <2> QED
    BY <1>1, <2>1 DEF LatestOf, ReportsOf
<1>4. NothingInHand(p)'
  <2>1. NothingInHand(p)
    BY <1>1, <1>3 DEF LineInv, LatestIsLast
  <2> QED
    BY <1>1, <2>1 DEF NothingInHand, NoneQueued
<1>5. /\ (Range(queue) \cup Range(held)) \cap ReportsOf(p) = {}
      /\ Range(Tail(completions)) \cap ReportsOf(p) = {}
  <2>1. Line(LatestOf(p), ReportsOf(p), queue, held, completions)
    BY <1>1 DEF LineInv
  <2>2. (Range(queue) \cup Range(held)) \cap ReportsOf(p) = {}
    BY <1>2, <1>3, <2>1 DEF Line
  <2>3. LastOf(completions, LatestOf(p), ReportsOf(p))
    BY <2>1 DEF Line
  <2>4. Range(Tail(completions)) \cap ReportsOf(p) = {}
    BY <1>1, <1>2, <1>3, <2>3, ReceiveKeepsLast
  <2> QED
    BY <2>2, <2>4
<1>6. ASSUME NEW m \in Reports' PROVE m.from # p
  <2>1. /\ m \in Range(queue) \cup Range(held) \cup Range(Tail(completions))
        /\ m.op = "complete"
    BY <1>1 DEF Reports, InTransit
  <2>2. m \in Command
    <3>1. Range(Tail(completions)) \subseteq Range(completions)
      BY <1>1, <1>2, ReceiveCarries
    <3> QED
      BY <1>1, <2>1, <3>1, TransitTyped
  <2>3. m \notin ReportsOf(p)
    BY <1>5, <2>1
  <2> QED
    BY <2>1, <2>2, <2>3 DEF ReportsOf
<1> QED
  BY <1>4, <1>6 DEF Quiet

LEMMA CountedStep == CycleInv /\ FlushInv /\ Next => CountedIsQuiet'
<1> SUFFICES ASSUME CycleInv, FlushInv, Next PROVE CountedIsQuiet'
  OBVIOUS
<1>1. TypeInv /\ LatestCycle /\ LineInv /\ CountedIsQuiet
  BY DEF CycleInv, FlushInv
<1>2. CASE StartCycle
  BY <1>2 DEF StartCycle, CountedIsQuiet, Completing
<1>3. CASE CountCompletion
  <2>1. coord.pc = "select" /\ coord'.pc \in {"select", "flush"}
    BY <1>1, <1>3 DEF CountCompletion, Count, TypeInv, TypeOK
  <2> DEFINE r == Head(completions).from
             rest == active.expected \ {r}
  <2>2. /\ active.id # 0 /\ active'.expected = rest
        /\ rest # {} => coord' = coord
    BY <1>3, CountedReport
  <2> HIDE DEF r
  <2>3. ASSUME NEW p \in Producers, Completing' \/ (active'.id # 0 /\ p \notin active'.expected)
        PROVE  Quiet(p)'
    <3>1. p \notin rest
      BY <2>1, <2>2, <2>3 DEF Completing
    <3>2. CASE p = r
      BY <1>1, <1>3, <3>2, CountedLast DEF r
    <3>3. CASE p # r
      <4>1. Quiet(p) /\ ~ SendTrigger(p)
        BY <1>1, <2>1, <2>2, <3>1, <3>3 DEF CountedIsQuiet, SendTrigger
      <4> QED
        BY <1>1, <4>1, QuietStays
    <3> QED
      BY <3>2, <3>3
  <2> QED
    BY <2>1, <2>3 DEF CountedIsQuiet
<1>4. CASE ~ (StartCycle \/ CountCompletion)
  <2>1. active' = active /\ (Completing' => Completing) /\ (coord'.pc = "trigger" => coord.pc = "trigger")
    BY <1>1, <1>4, CycleMoves, SendingMoves
  <2>2. ASSUME NEW p \in Producers, Completing \/ (active.id # 0 /\ p \notin active.expected)
        PROVE  Quiet(p)'
    <3>1. Quiet(p) /\ ~ SendTrigger(p)
      BY <1>1, <2>2 DEF CountedIsQuiet, SendTrigger, Completing
    <3> QED
      BY <1>1, <3>1, QuietStays
  <2> QED
    BY <1>1, <2>1, <2>2 DEF CountedIsQuiet
<1> QED
  BY <1>2, <1>3, <1>4

LEMMA FlushInvariant == Spec => []FlushInv
<1>1. CycleInv /\ FlushInv /\ [Next]_vars => FlushInv'
  <2>1. CASE Next
    BY <2>1, LineStep, CountedStep DEF FlushInv
  <2>2. CASE UNCHANGED vars
    BY <2>2 DEF vars, FlushInv, LineInv, LatestIsLast, CountedIsQuiet, Quiet, NothingInHand,
                NoneQueued, LatestOf, ReportsOf, Latest, Reports, InTransit, Completing
  <2> QED
    BY <2>1, <2>2
<1> QED
  BY <1>1, InitFlush, CycleInvariant, PTL DEF Spec

\* While the coordinator waits for its flush, no report is on its way: neither one of an
\* earlier cycle, whatever became of it, nor one of a producer it has heard.  So the
\* publisher comes to the flush without waiting for room in the completions channel,
\* which only the coordinator could make (coordinator.rs flush, publisher.rs run).
THEOREM FlushGoesThrough == Spec => []FlushIsNeverBehindReports
<1>1. CycleInv /\ FlushInv => FlushIsNeverBehindReports
  <2> SUFFICES ASSUME CycleInv, FlushInv, coord.pc \in {"flush", "flushing"}, NEW m \in Reports
               PROVE  FALSE
    BY DEF FlushIsNeverBehindReports
  <2>1. m.from \in Producers
    BY TransitTyped DEF CycleInv
  <2>2. Quiet(m.from)
    BY <2>1 DEF FlushInv, CountedIsQuiet, Completing
  <2> QED
    BY <2>2 DEF Quiet
<1> QED
  BY <1>1, CycleInvariant, FlushInvariant, PTL

-----------------------------------------------------------------------------
(* The refinement.                                                         *)

\* The steps the contract does not see.
LEMMA HiddenStep ==
  ASSUME CycleInv, Next,
         ~ (StartCycle \/ CountCompletion \/ SyncServed \/ SyncRefused \/ SyncFails),
         \A p \in Producers : ~ ReportCycle(p)
  PROVE  UNCHANGED <<active, nextId, ran, synced>> /\ (Completing' <=> Completing)
<1>1. TypeInv /\ FlushAwaited
  BY DEF CycleInv
<1>2. active' = active /\ nextId' = nextId /\ synced' = synced
  BY CycleMoves, NextIdMoves
<1>3. CASE Coordinator
  <2>1. ASSUME NEW p \in Producers, SendTrigger(p)
        PROVE  ran' = ran /\ ~ Completing' /\ ~ Completing
    <3>1. coord.pc = "trigger" /\ coord'.pc \in {"trigger", "select"} /\ ran' = ran
      BY <1>1, <2>1 DEF SendTrigger, historyVars, TypeInv, TypeOK
    <3>2. QED  BY <3>1 DEF Completing
  <2>2. ASSUME SendFlush \/ RequestSync PROVE ran' = ran /\ Completing' /\ Completing
    <3>1. /\ coord.pc \in {"flush", "request"} /\ coord'.pc \in {"flushing", "waiting"}
          /\ ran' = ran
      BY <1>1, <2>2 DEF SendFlush, RequestSync, historyVars, TypeInv, TypeOK
    <3>2. QED  BY <3>1 DEF Completing
  <2>3. QED
    BY <1>2, <1>3, <2>1, <2>2 DEF Coordinator, IgnoreEvent, IgnoreCompletion, coordVars,
                                  historyVars, Completing
<1>4. ASSUME NEW p \in Producers, Producer(p) PROVE ran' = ran /\ coord' = coord
  BY <1>4 DEF Producer, TakeTrigger, Poll, CollectFails, Publish, EndRun, DropCycle,
              coordVars, historyVars
<1>5. CASE Publisher
  <2>1. ran' = ran /\ (coord' = coord \/ HandleFlush)
    BY <1>5 DEF Publisher, SkipPut, StartPut, PutAnswered, PutFails, HandleComplete,
                ForwardCompletion, HandleFlush, coordVars, historyVars
  <2>2. ASSUME HandleFlush PROVE Completing /\ Completing'
    <3>1. Completing
      BY <2>2, FlushTaken
    <3>2. coord'.pc = "request"
      BY <1>1, <2>2 DEF HandleFlush, TypeInv, TypeOK
    <3>3. QED  BY <3>1, <3>2 DEF Completing
  <2>3. QED  BY <1>2, <2>1, <2>2 DEF Completing
<1>6. CASE Environment
  BY <1>2, <1>6 DEF Environment, Connect, Disconnect, ChangeMode, RefreshManually, coordVars,
                    historyVars, Completing
<1>7. QED  BY <1>2, <1>3, <1>4, <1>5, <1>6 DEF Next, Completing

\* The bounded channels, the blocking sends, the failing and the dropping
\* producers keep the contract of a cycle.
THEOREM CycleImplementsContract == Spec => ImplementsContract
<1> USE DEF Contract!vars
<1>1. Init => Contract!Init
  <2> SUFFICES ASSUME Init PROVE Contract!Init
    OBVIOUS
  <2>1. ~ Completing /\ SyncedCycles = {} /\ active.id = 0 /\ active.expected = {}
    BY DEF Init, Completing, SyncedCycles, NoCycle
  <2>2. QED  BY <2>1 DEF Init, Contract!Init
<1>2. CycleInv /\ [Next]_vars => [Contract!Next]_(Contract!vars)
  <2> SUFFICES ASSUME CycleInv, [Next]_vars PROVE [Contract!Next]_(Contract!vars)
    OBVIOUS
  <2>1. /\ TypeInv /\ LatestCycle /\ KnownCycles /\ SyncedBefore
        /\ nextId \in Nat \ {0}
    BY DEF CycleInv, TypeInv, TypeOK
  <2>2. CASE StartCycle
    <3>1. /\ ~ Completing /\ ~ Completing' /\ nextId' = nextId + 1 /\ active'.id # 0
          /\ active'.expected = Producers /\ ran' = ran /\ SyncedCycles' = SyncedCycles
      BY <2>1, <2>2 DEF StartCycle, Completing, historyVars, SyncedCycles
    <3>2. Contract!Start
      BY <2>1, <3>1 DEF Contract!Start
    <3>3. QED  BY <3>2 DEF Contract!Next
  <2>3. CASE CountCompletion
    <3> DEFINE p == Head(completions).from
               rest == active.expected \ {p}
    <3>1. /\ p \in Producers /\ active.id # 0 /\ active.id = nextId - 1
          /\ <<active.id, p>> \in ran
          /\ active'.expected = rest
          /\ UNCHANGED <<ran, nextId, synced>>
      BY <2>3, CountedReport
    <3>2. coord.pc = "select" /\ ~ Completing
      BY <2>3 DEF CountCompletion, Completing
    <3>3. IF rest = {} THEN Completing' ELSE ~ Completing' /\ active'.id # 0
      BY <2>3, <3>1, <3>2, CountedReport DEF Completing
    <3>4. SyncedCycles' = SyncedCycles
      BY <3>1 DEF SyncedCycles
    <3> HIDE DEF p
    <3>5. Contract!Count(p)
      BY <3>1, <3>2, <3>3, <3>4 DEF Contract!Count
    <3>6. QED  BY <3>1, <3>5 DEF Contract!Next
  <2>4. CASE SyncServed
    <3>1. nextId - 1 \notin SyncedCycles
      <4>1. Completing
        BY <2>4, ServedCycle
      <4>2. \A c \in SyncedCycles : c < nextId - 1
        BY <2>1, <4>1 DEF SyncedBefore, SyncedCycles
      <4>3. QED  BY <2>1, <4>2
    <3>2. UNCHANGED <<active, ran>>
      BY <2>4 DEF SyncServed
    <3>3. Contract!Tell
      BY <2>4, <3>1, <3>2, ServedCycle DEF Contract!Tell
    <3>4. QED  BY <3>3 DEF Contract!Next
  <2>5. CASE SyncRefused \/ SyncFails
    <3>1. Completing /\ ~ Completing' /\ UNCHANGED <<active, nextId, ran, synced>>
      BY <2>1, <2>5 DEF SyncRefused, SyncFails, Completing, historyVars, TypeInv, TypeOK
    <3>2. active.id = 0 /\ SyncedCycles' = SyncedCycles
      BY <2>1, <3>1 DEF LatestCycle, SyncedCycles
    <3>3. Contract!GiveUp
      BY <3>1, <3>2 DEF Contract!GiveUp
    <3>4. QED  BY <3>3 DEF Contract!Next
  <2>6. ASSUME NEW p \in Producers, ReportCycle(p) PROVE Contract!Next
    <3>1. /\ UNCHANGED <<coord, active, nextId, synced>>
          /\ ran' = ran \cup {<<producer[p].cycle, p>>}
          /\ producer[p].cycle # 0
      BY <2>6 DEF ReportCycle, Report, coordVars, Manual
    <3>2. producer[p].cycle \in 1..nextId - 1
      BY <2>1, <3>1 DEF KnownCycles, TypeInv, TypeOK
    <3>3. (Completing' <=> Completing) /\ SyncedCycles' = SyncedCycles
      BY <3>1 DEF Completing, SyncedCycles
    <3>4. Contract!Report(p)
      BY <3>1, <3>2, <3>3 DEF Contract!Report
    <3>5. QED  BY <3>4 DEF Contract!Next
  <2>7. CASE UNCHANGED vars
    BY <2>7 DEF vars, Completing, SyncedCycles
  <2>8. CASE /\ Next
             /\ ~ (StartCycle \/ CountCompletion \/ SyncServed \/ SyncRefused \/ SyncFails)
             /\ \A p \in Producers : ~ ReportCycle(p)
    BY <2>8, HiddenStep DEF SyncedCycles
  <2>9. QED  BY <2>2, <2>3, <2>4, <2>5, <2>6, <2>7, <2>8
<1>3. QED  BY <1>1, <1>2, CycleInvariant, PTL DEF Spec, ImplementsContract, Contract!Spec

=============================================================================
