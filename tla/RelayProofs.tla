----------------------------- MODULE RelayProofs ----------------------------
(***************************************************************************)
(* Theorems about MessageRelay: the registration of the consumer, the      *)
(* safety of the refinement to Delivery, and that no recorded message is   *)
(* lost, for any messages, channels, overlapping runs and faults.          *)
(***************************************************************************)
EXTENDS MessageRelay, FiniteSetTheorems, TLAPS

Steps == {"none", "idle", "received", "checked", "handled", "failed"}
ConsumerRow == [at : Steps, msg : Message \union {None}]
CallRow == [at : {"idle", "connecting", "creating", "binding"},
            ch : Channel \union {None}]
DispatcherRow == [batch : SUBSET Message, msg : Message \union {None},
                  at : {"idle", "publish", "save", "catch", "catch_save"}]

LEMMA Shapes ==
  /\ NoConsumer \in ConsumerRow /\ IdleCall \in CallRow
  /\ IdleDispatcher \in DispatcherRow
  /\ ConsumerType <=> consumer \in [Channel -> ConsumerRow]
  BY DEF NoConsumer, ConsumerRow, Steps, IdleCall, CallRow, IdleDispatcher,
         DispatcherRow, ConsumerType

LEMMA ReceivedIs ==
  ASSUME consumer \in [Channel -> ConsumerRow], NEW h \in Channel,
         NEW m \in Message
  PROVE  LET taken == [consumer EXCEPT ![h].at = "received", ![h].msg = m]
         IN  /\ taken \in [Channel -> ConsumerRow]
             /\ taken[h].msg = m
             /\ \A x \in Channel \ {h} : taken[x] = consumer[x]
<1> DEFINE one == [consumer EXCEPT ![h].at = "received"]
           two == [one EXCEPT ![h].msg = m]
<1>1. one \in [Channel -> ConsumerRow]
  BY DEF ConsumerRow, Steps
<1>2. \A x \in Channel \ {h} : one[x] = consumer[x]
  OBVIOUS
<1> HIDE DEF one
<1>3. /\ two \in [Channel -> ConsumerRow] /\ two[h].msg = m
      /\ \A x \in Channel \ {h} : two[x] = one[x]
  BY <1>1 DEF ConsumerRow
<1>4. two = [consumer EXCEPT ![h].at = "received", ![h].msg = m]
  BY DEF one
<1>5. QED
  BY <1>2, <1>3, <1>4

\* A message that goes back to the queue is one a closed channel had.
LEMMA RequeuedIs ==
  ASSUME TypeOK, NEW closed \in SUBSET Channel
  PROVE  /\ Requeued(closed) \in [Message -> Nat]
         /\ \A m \in Message : Requeued(closed)[m] > 0 <=>
              queue[m] > 0 \/ \E h \in closed : consumer[h].msg = m
<1>1. ASSUME NEW m \in Message
      PROVE  LET had == {h \in closed : consumer[h].msg = m}
             IN  /\ queue[m] + Cardinality(had) \in Nat
                 /\ queue[m] + Cardinality(had) > 0 <=>
                      queue[m] > 0 \/ \E h \in closed : consumer[h].msg = m
  <2> DEFINE had == {h \in closed : consumer[h].msg = m}
  <2>1. IsFiniteSet(had)
    BY FS_Subset, RelayAssumption
  <2>2. Cardinality(had) \in Nat /\ (Cardinality(had) = 0 <=> had = {})
    BY <2>1, FS_CardinalityType, FS_EmptySet
  <2>3. queue[m] \in Nat
    BY DEF TypeOK
  <2>4. had # {} <=> \E h \in closed : consumer[h].msg = m
    OBVIOUS
  <2> HIDE DEF had
  <2>5. QED
    BY <2>2, <2>3, <2>4 DEF had
<1>2. QED
  BY <1>1 DEF Requeued

LEMMA CancelledIs ==
  ASSUME TypeOK, NEW closed
  PROVE  /\ Cancelled(closed) \in [Channel -> ConsumerRow]
         /\ \A h \in Channel : \/ Cancelled(closed)[h] = consumer[h]
                               \/ h \in closed /\ Cancelled(closed)[h] = NoConsumer
  BY Shapes DEF Cancelled, TypeOK

-----------------------------------------------------------------------------
(* Types.                                                                  *)

\* A handler at work has a message.
HandlersHaveMessages ==
  \A h \in Channel :
    consumer[h].at \in {"received", "checked", "handled", "failed"} =>
      consumer[h].msg \in Message

LEMMA Types == Spec => [](TypeOK /\ HandlersHaveMessages)
<1>1. ASSUME Init PROVE TypeOK /\ HandlersHaveMessages
  <2>1. /\ consumer \in [Channel -> ConsumerRow] /\ call \in [Call -> CallRow]
        /\ dispatcher \in DispatcherRow
    BY <1>1, Shapes DEF Init
  <2>2. HandlersHaveMessages
    BY <1>1 DEF Init, HandlersHaveMessages, NoConsumer
  <2>3. DispatcherType /\ ConsumerType
    BY <1>1, <2>1, Shapes DEF Init, DispatcherType, DispatcherRow
  <2>4. faults \in 0..MaxFaults
    BY <1>1, RelayAssumption DEF Init
  <2>5. QED
    BY <1>1, <2>1, <2>2, <2>3, <2>4 DEF Init, TypeOK, CallRow
<1>2. ASSUME TypeOK, HandlersHaveMessages, [Next]_vars
      PROVE  TypeOK' /\ HandlersHaveMessages'
  <2> USE DEF producerVars, brokerVars, channelVars
  <2>0. /\ consumer \in [Channel -> ConsumerRow]
        /\ call \in [Call -> CallRow]
        /\ dispatcher \in DispatcherRow
    BY <1>2, Shapes DEF TypeOK, DispatcherType, CallRow, DispatcherRow
  <2>1. SUFFICES ASSUME Next PROVE TypeOK' /\ HandlersHaveMessages'
    <3>1. CASE UNCHANGED vars
      BY <1>2, <3>1
      DEF vars, TypeOK, DispatcherType, ConsumerType, HandlersHaveMessages
    <3>2. QED
      BY <1>2, <3>1
  <2>2. SUFFICES
          /\ row' \in [Message -> {"none", "due", "waiting", "delivered"}]
          /\ dispatcher' \in DispatcherRow
          /\ queue' \in [Message -> Nat] /\ applied' \in [Message -> Nat]
          /\ declared' \in BOOLEAN /\ connected' \in BOOLEAN
          /\ dropped' \subseteq Message /\ dead' \subseteq Message
          /\ open' \subseteq Channel
          /\ {channel', bound'} \subseteq Channel \union {None}
          /\ call' \in [Call -> CallRow]
          /\ consumer' \in [Channel -> ConsumerRow]
          /\ faults' \in 0..MaxFaults
          /\ HandlersHaveMessages'
    BY DEF TypeOK, DispatcherType, ConsumerType, DispatcherRow, CallRow,
           ConsumerRow, Steps
  <2> USE <1>2, <2>0 DEF TypeOK, DispatcherType
  <2>26. UNCHANGED consumer => HandlersHaveMessages'
    BY DEF HandlersHaveMessages
  <2>27. ASSUME NEW closed, consumer' = Cancelled(closed)
         PROVE  HandlersHaveMessages'
    BY <2>27, CancelledIs DEF HandlersHaveMessages, NoConsumer
  <2> USE <2>26
  <2>3. CASE \E m \in Message : Record(m) \/ Due(m)
    BY <2>3 DEF Record, Due
  <2>4. Fault \/ NoFault => faults' \in 0..MaxFaults
    BY RelayAssumption DEF Fault, NoFault
  <2>5. NextRow \in DispatcherRow /\ IdleDispatcher \in DispatcherRow
    BY Shapes DEF NextRow, DispatcherRow
  <2>6. ASSUME NEW m \in Message, NEW s \in {"save", "catch"}
        PROVE  Working(m, s) \in DispatcherRow
    BY <2>6 DEF Working, DispatcherRow
  <2>7. CASE Poll
    BY <2>7 DEF Poll, DueRows, DispatcherRow
  <2>8. CASE \E m \in Message : Publish(m) \/ PublishFails(m)
    <3>1. PICK m \in Message : Publish(m) \/ PublishFails(m)
      BY <2>8
    <3>2. dispatcher' \in DispatcherRow /\ faults' \in 0..MaxFaults
      BY <2>4, <2>6, <3>1 DEF Publish, PublishFails
    <3>3. queue' \in [Message -> Nat] /\ dropped' \subseteq Message
      BY <3>1 DEF Publish, PublishFails, Route
    <3>4. QED
      BY <3>1, <3>2, <3>3 DEF Publish, PublishFails
  <2>9. CASE SaveDelivered \/ SaveFailure
    <3>1. dispatcher' \in DispatcherRow /\ faults' \in 0..MaxFaults
      BY <2>4, <2>5, <2>9 DEF SaveDelivered, SaveFailure, DispatcherRow
    <3>2. row' \in [Message -> {"none", "due", "waiting", "delivered"}]
      BY <2>9 DEF SaveDelivered, SaveFailure
    <3>3. QED
      BY <2>9, <3>1, <3>2 DEF SaveDelivered, SaveFailure
  <2>10. CASE ProducerCrash
    BY <2>4, <2>5, <2>10 DEF ProducerCrash
  <2>11. CASE Connect \/ ConnectFails
    <3>1. call' \in [Call -> CallRow]
      BY <2>11, Shapes DEF Connect, ConnectFails
    <3>2. faults' \in 0..MaxFaults
      BY <2>4, <2>11 DEF Connect, ConnectFails, NoFault
    <3>3. CASE Connect
      BY <3>1, <3>2, <3>3 DEF Connect
    <3>4. CASE ConnectFails
      BY <3>1, <3>2, <3>4 DEF ConnectFails
    <3>5. QED
      BY <2>11, <3>3, <3>4
  <2>12. CASE ConnectionLost
    <3>1. open \in SUBSET Channel
      OBVIOUS
    <3>2. queue' \in [Message -> Nat] /\ consumer' \in [Channel -> ConsumerRow]
      BY <2>12, <3>1, RequeuedIs, CancelledIs DEF ConnectionLost, CloseChannels
    <3>3. call' \in [Call -> CallRow] /\ faults' \in 0..MaxFaults
      BY <2>4, <2>12, Shapes DEF ConnectionLost
    <3>4. QED
      BY <2>12, <2>27, <3>2, <3>3 DEF ConnectionLost, CloseChannels
  <2>13. CASE \E h \in Channel : ChannelLost(h)
    <3>1. PICK h \in Channel : ChannelLost(h)
      BY <2>13
    <3>2. {h} \in SUBSET Channel
      OBVIOUS
    <3>3. queue' \in [Message -> Nat] /\ consumer' \in [Channel -> ConsumerRow]
      BY <3>1, <3>2, RequeuedIs, CancelledIs DEF ChannelLost, CloseChannels
    <3>4. call' \in [Call -> CallRow] /\ faults' \in 0..MaxFaults
      BY <2>4, <3>1, Shapes DEF ChannelLost
    <3>5. QED
      BY <2>27, <3>1, <3>3, <3>4 DEF ChannelLost, CloseChannels
  <2>14. ASSUME NEW c \in Call, NEW h \in Channel, WithChannel(c, h)
         PROVE  call' \in [Call -> CallRow]
    BY <2>14, Shapes DEF WithChannel, CallRow
  <2>15. CASE \E c \in Call : StartEnsure(c)
    BY <2>15 DEF StartEnsure, CallRow
  <2>16. CASE \E c \in Call : GetChannel(c)
    <3>1. PICK c \in Call : GetChannel(c)
      BY <2>16
    <3>2. call' \in [Call -> CallRow]
      <4>1. CASE channel # None
        BY <2>14, <3>1, <4>1 DEF GetChannel
      <4>2. CASE channel = None
        BY <3>1, <4>2 DEF GetChannel, CallRow
      <4>3. QED
        BY <4>1, <4>2
    <3>3. QED
      BY <3>1, <3>2 DEF GetChannel
  <2>17. CASE \E c \in Call : CreateChannel(c)
    <3>1. PICK c \in Call : CreateChannel(c)
      BY <2>17
    <3>2. PICK h \in Unused : /\ open' = open \union {h} /\ channel' = h
                              /\ WithChannel(c, h)
      BY <3>1 DEF CreateChannel
    <3>3. h \in Channel
      BY DEF Unused
    <3>4. QED
      BY <2>14, <3>1, <3>2, <3>3 DEF CreateChannel
  <2>18. CASE \E c \in Call : BindConsumer(c)
    <3>1. PICK c \in Call : BindConsumer(c)
      BY <2>18
    <3>2. /\ consumer' \in [Channel -> ConsumerRow] /\ call' \in [Call -> CallRow]
          /\ HandlersHaveMessages'
      BY <3>1, Shapes
      DEF BindConsumer, ConsumerRow, Steps, NoConsumer, HandlersHaveMessages
    <3>3. bound' \in Channel \union {None}
      BY <3>1 DEF BindConsumer, CallRow
    <3>4. QED
      BY <3>1, <3>2, <3>3 DEF BindConsumer
  <2>19. ASSUME NEW h \in Channel, NEW s \in Steps, At(h, s)
         PROVE  /\ consumer' \in [Channel -> ConsumerRow]
                /\ consumer[h].msg \in Message => HandlersHaveMessages'
    BY <2>19 DEF At, ConsumerRow, HandlersHaveMessages
  <2>20. CASE \E h \in Channel, m \in Message : Deliver(h, m)
    <3>1. PICK h \in Channel, m \in Message : Deliver(h, m)
      BY <2>20
    <3>2. queue' \in [Message -> Nat]
      BY <3>1 DEF Deliver
    <3>3. /\ consumer' \in [Channel -> ConsumerRow] /\ consumer'[h].msg = m
          /\ \A x \in Channel \ {h} : consumer'[x] = consumer[x]
      BY <3>1, ReceivedIs, ZenonT(60) DEF Deliver
    <3>4. HandlersHaveMessages'
      BY <3>3 DEF HandlersHaveMessages
    <3>5. QED
      BY <3>1, <3>2, <3>3, <3>4 DEF Deliver
  <2>21. CASE \E h \in Channel : CheckProcessed(h) \/ HandlerFails(h)
    BY <2>4, <2>19, <2>21
    DEF CheckProcessed, HandlerFails, Steps, HandlersHaveMessages
  <2>22. CASE \E h \in Channel : Commit(h)
    <3>1. PICK h \in Channel : Commit(h)
      BY <2>22
    <3>2. consumer' \in [Channel -> ConsumerRow] /\ HandlersHaveMessages'
      BY <2>19, <3>1 DEF Commit, Steps, HandlersHaveMessages
    <3>3. applied' \in [Message -> Nat]
      BY <3>1 DEF Commit
    <3>4. QED
      BY <3>1, <3>2, <3>3 DEF Commit
  <2>23. CASE \E h \in Channel : Ack(h) \/ Nack(h)
    <3>1. PICK h \in Channel : Ack(h) \/ Nack(h)
      BY <2>23
    <3>2. consumer' \in [Channel -> ConsumerRow] /\ HandlersHaveMessages'
      BY <3>1, SMTT(40) DEF Ack, Nack, Released, ConsumerRow, Steps, HandlersHaveMessages
    <3>3. dead' \subseteq Message
      BY <3>1 DEF Ack, Nack, HandlersHaveMessages
    <3>4. QED
      BY <3>1, <3>2, <3>3 DEF Ack, Nack
  <2>24. CASE SubscriberCrash \/ \E h \in Channel : AnswerOnClosedChannel(h)
    <3>1. Restart /\ faults' \in 0..MaxFaults
      BY <2>4, <2>24 DEF SubscriberCrash, AnswerOnClosedChannel
    <3>2. queue' \in [Message -> Nat]
      BY <3>1, RequeuedIs DEF Restart
    <3>3. HandlersHaveMessages'
      BY <3>1 DEF Restart, HandlersHaveMessages, NoConsumer
    <3>4. QED
      BY <3>1, <3>2, <3>3, Shapes DEF Restart
  <2>25. QED
    BY <2>1, <2>3, <2>7, <2>8, <2>9, <2>10, <2>11, <2>12, <2>13, <2>15,
       <2>16, <2>17, <2>18, <2>20, <2>21, <2>22, <2>23, <2>24
    DEF Next, DispatcherStep, EnsureStep, HandlerStep
<1>3. QED
  BY <1>1, <1>2, PTL DEF Spec

\* The rows of the outbox, the queues, the channels and the handlers hold what
\* the code puts in them, for any messages, channels, runs and faults.
THEOREM TypeCorrect == Spec => []TypeOK
  BY Types, PTL

-----------------------------------------------------------------------------
(* The consumer on the listed channel.                                     *)

\* The broker has the listed channel open, and every channel that a run of
\* ensureConsumer is about to bind.
ListedIsOpen ==
  /\ channel # None => channel \in open
  /\ \A c \in Call : call[c].at = "binding" => call[c].ch \in open

\* Where the channels and the consumers stay as they are, so does what is
\* said of them.
LEMMA ConsumersStay ==
  ASSUME ListedIsOpen, RegistrationIsLive, UNCHANGED channelVars,
         \A h \in Channel : consumer[h] # NoConsumer => consumer'[h] # NoConsumer,
         open \subseteq Channel
  PROVE  ListedIsOpen' /\ RegistrationIsLive'
  BY DEF ListedIsOpen, RegistrationIsLive, channelVars

\* A consumer that goes on with its message is a consumer.
LEMMA GoesOn ==
  ASSUME consumer \in [Channel -> ConsumerRow], NEW h \in Channel,
         NEW s \in Steps \ {"none"},
         At(h, s) \/ consumer' = Released(h)
  PROVE  \A x \in Channel : consumer[x] # NoConsumer => consumer'[x] # NoConsumer
<1>1. CASE At(h, s)
  <2>1. consumer'[h].at = s
    BY <1>1 DEF At, ConsumerRow
  <2>2. QED
    BY <1>1, <2>1 DEF At, NoConsumer, Steps
<1>2. CASE consumer' = Released(h)
  <2>1. consumer'[h].at = "idle"
    BY <1>2 DEF Released, ConsumerRow
  <2>2. \A x \in Channel \ {h} : consumer'[x] = consumer[x]
    BY <1>2 DEF Released
  <2>3. QED
    BY <2>1, <2>2 DEF NoConsumer
<1>3. QED
  BY <1>1, <1>2

LEMMA Listed == Spec => [](ListedIsOpen /\ RegistrationIsLive)
<1>1. Init => ListedIsOpen /\ RegistrationIsLive
  BY DEF Init, ListedIsOpen, RegistrationIsLive, IdleCall
<1>2. ASSUME TypeOK, TypeOK', ListedIsOpen, RegistrationIsLive, [Next]_vars
      PROVE  ListedIsOpen' /\ RegistrationIsLive'
  <2>0. /\ consumer \in [Channel -> ConsumerRow] /\ open \subseteq Channel
        /\ call \in [Call -> CallRow]
    BY <1>2, Shapes DEF TypeOK, CallRow
  <2> USE <1>2, <2>0
  <2>1. CASE UNCHANGED <<channelVars, consumer>>
    BY <2>1, ConsumersStay
  <2>2. CASE ConnectFails \/ \E c \in Call : StartEnsure(c)
    <3>1. UNCHANGED <<channel, open, bound, consumer>>
      BY <2>2 DEF ConnectFails, StartEnsure
    <3>2. \A c \in Call : call'[c].at = "binding" => call'[c] = call[c]
      BY <2>2 DEF ConnectFails, StartEnsure, IdleCall, CallRow
    <3>3. QED
      BY <3>1, <3>2 DEF ListedIsOpen, RegistrationIsLive
  <2>3. CASE Connect
    BY <2>3 DEF Connect, ListedIsOpen, RegistrationIsLive
  <2>4. CASE ConnectionLost \/ Restart
    BY <2>4, RelayAssumption
    DEF ConnectionLost, Restart, IdleCall, ListedIsOpen, RegistrationIsLive
  <2>5. CASE \E h \in Channel : ChannelLost(h)
    <3>1. PICK h \in Channel : ChannelLost(h)
      BY <2>5
    <3>2. \A x \in Channel \ {h} : consumer'[x] = consumer[x]
      BY <3>1 DEF ChannelLost, CloseChannels, Cancelled
    <3>3. ListedIsOpen'
      BY <3>1 DEF ChannelLost, CloseChannels, IdleCall, ListedIsOpen
    <3>4. RegistrationIsLive'
      BY <3>1, <3>2 DEF ChannelLost, CloseChannels, RegistrationIsLive
    <3>5. QED
      BY <3>3, <3>4
  <2>6. CASE \E c \in Call : GetChannel(c)
    <3>1. PICK c \in Call : GetChannel(c)
      BY <2>6
    <3>2. UNCHANGED <<channel, open, bound, consumer>>
      BY <3>1 DEF GetChannel
    <3>3. \A x \in Call : call'[x].at = "binding" =>
            call'[x] = call[x] \/ (call'[x].ch = channel /\ channel # None)
      <4>1. CASE channel # None
        <5>1. \/ call' = [call EXCEPT ![c] = IdleCall]
              \/ call' = [call EXCEPT ![c] = [at |-> "binding", ch |-> channel]]
          BY <3>1, <4>1 DEF GetChannel, WithChannel
        <5>2. QED
          BY <4>1, <5>1 DEF IdleCall
      <4>2. CASE channel = None
        <5>1. call' = [call EXCEPT ![c].at = "creating"]
          BY <3>1, <4>2 DEF GetChannel
        <5>2. call'[c].at = "creating"
          BY <5>1 DEF CallRow
        <5>3. QED
          BY <5>1, <5>2
      <4>3. QED
        BY <4>1, <4>2
    <3>4. QED
      BY <3>2, <3>3 DEF ListedIsOpen, RegistrationIsLive
  <2>7. CASE \E c \in Call : CreateChannel(c)
    <3>1. PICK c \in Call : CreateChannel(c)
      BY <2>7
    <3>2. PICK h \in Unused : /\ open' = open \union {h} /\ channel' = h
                              /\ WithChannel(c, h)
      BY <3>1 DEF CreateChannel
    <3>3. h # bound
      BY DEF Unused
    <3>4. ListedIsOpen'
      BY <3>2 DEF WithChannel, IdleCall, ListedIsOpen
    <3>5. RegistrationIsLive'
      BY <3>1, <3>2, <3>3 DEF CreateChannel, RegistrationIsLive
    <3>6. QED
      BY <3>4, <3>5
  <2>8. CASE \E c \in Call : BindConsumer(c)
    <3>1. PICK c \in Call : BindConsumer(c)
      BY <2>8
    <3>2. call[c].ch \in open /\ bound' = call[c].ch /\ UNCHANGED open
      BY <3>1 DEF BindConsumer, ListedIsOpen
    <3>3. consumer'[call[c].ch] # NoConsumer
      BY <3>1, <3>2 DEF BindConsumer, NoConsumer
    <3>4. ListedIsOpen'
      BY <3>1 DEF BindConsumer, IdleCall, ListedIsOpen
    <3>5. QED
      BY <3>2, <3>3, <3>4 DEF RegistrationIsLive
  <2>9. CASE \E h \in Channel, m \in Message : Deliver(h, m)
    <3>1. PICK h \in Channel, m \in Message : Deliver(h, m)
      BY <2>9
    <3>2. /\ consumer'[h].msg = m
          /\ \A x \in Channel \ {h} : consumer'[x] = consumer[x]
      BY <3>1, ReceivedIs DEF Deliver
    <3>3. \A x \in Channel : consumer[x] # NoConsumer => consumer'[x] # NoConsumer
      BY <3>2, RelayAssumption DEF NoConsumer
    <3>4. QED
      BY <3>1, <3>3, ConsumersStay DEF Deliver
  <2>10. CASE \E h \in Channel : \/ CheckProcessed(h) \/ Commit(h)
                                 \/ HandlerFails(h) \/ Ack(h) \/ Nack(h)
    <3>1. PICK h \in Channel : \/ CheckProcessed(h) \/ Commit(h)
                               \/ HandlerFails(h) \/ Ack(h) \/ Nack(h)
      BY <2>10
    <3>2. UNCHANGED channelVars
      BY <3>1 DEF CheckProcessed, Commit, HandlerFails, Ack, Nack
    <3>3. \E s \in Steps \ {"none"} : At(h, s) \/ consumer' = Released(h)
      BY <3>1 DEF CheckProcessed, Commit, HandlerFails, Ack, Nack, Steps
    <3>4. QED
      BY <3>2, <3>3, GoesOn, ConsumersStay
  <2>11. QED
    BY <2>1, <2>2, <2>3, <2>4, <2>5, <2>6, <2>7, <2>8, <2>9, <2>10
    DEF vars, channelVars, Next, DispatcherStep, EnsureStep, HandlerStep, Record, Due,
        Publish, PublishFails, Poll, SaveDelivered, SaveFailure, ProducerCrash,
        AnswerOnClosedChannel, SubscriberCrash
<1>3. QED
  BY <1>1, <1>2, TypeCorrect, PTL DEF Spec

\* RegistrationIsLive: a registration bound to the listed channel has a live
\* consumer there, so the early return of ensureConsumer loses nothing, however
\* many of its runs overlap with whatever losses.
THEOREM RegistrationsAreLive == Spec => []RegistrationIsLive
  BY Listed, PTL

-----------------------------------------------------------------------------
(* The promise of Delivery.                                                *)

Recorded == {m \in Message : row[m] # "none"}

\* Only what was recorded is published, queued or handled.
OnlyRecorded ==
  /\ dispatcher.batch \subseteq Recorded
  /\ dispatcher.at \in {"save", "catch", "catch_save"} => dispatcher.msg \in Recorded
  /\ \A m \in Message : queue[m] > 0 => m \in Recorded
  /\ \A h \in Channel : consumer[h].msg \in Message => consumer[h].msg \in Recorded

\* A row of the outbox stays, and only Record adds one.
LEMMA RowsStay ==
  ASSUME TypeOK, OnlyRecorded, [Next]_vars
  PROVE  Recorded' = Recorded \/ \E m \in Message : Record(m)
<1> USE DEF TypeOK, DispatcherType, Recorded
<1>1. CASE UNCHANGED row
  BY <1>1
<1>2. CASE \E m \in Message : Due(m)
  BY <1>2 DEF Due
<1>3. ASSUME NEW s, s # "none", dispatcher.msg \in Recorded,
             row' = [row EXCEPT ![dispatcher.msg] = s]
      PROVE  Recorded' = Recorded
  BY <1>3
<1>4. CASE SaveDelivered
  BY <1>1, <1>3, <1>4 DEF SaveDelivered, OnlyRecorded
<1>5. CASE SaveFailure
  BY <1>1, <1>3, <1>5 DEF SaveFailure, OnlyRecorded
<1>6. QED
  BY <1>1, <1>2, <1>4, <1>5
  DEF vars, producerVars, Next, DispatcherStep, EnsureStep, HandlerStep, Publish,
      PublishFails, Poll, ProducerCrash, Connect, ConnectFails, ConnectionLost,
      ChannelLost, StartEnsure, GetChannel, CreateChannel, BindConsumer, Deliver,
      CheckProcessed, Commit, HandlerFails, Ack, Nack, AnswerOnClosedChannel,
      SubscriberCrash, Restart

LEMMA RecordedOnly == Spec => []OnlyRecorded
<1>1. Init => OnlyRecorded
  BY RelayAssumption
  DEF Init, OnlyRecorded, IdleDispatcher, NoConsumer
<1>2. ASSUME TypeOK, OnlyRecorded, [Next]_vars PROVE OnlyRecorded'
  <2>0. /\ consumer \in [Channel -> ConsumerRow]
        /\ dispatcher \in DispatcherRow
        /\ queue \in [Message -> Nat] /\ open \subseteq Channel
    BY <1>2, Shapes DEF TypeOK, DispatcherType, DispatcherRow
  <2>1. Recorded \subseteq Recorded'
    <3>1. CASE \E m \in Message : Record(m)
      BY <1>2, <3>1 DEF Record, Recorded, TypeOK, DispatcherType
    <3>2. QED
      BY <1>2, <3>1, RowsStay
  <2> DEFINE Dispatched == \/ UNCHANGED dispatcher
                           \/ dispatcher' = IdleDispatcher
                           \/ dispatcher' = NextRow
  <2>2. Dispatched => /\ dispatcher'.batch \subseteq Recorded'
                      /\ dispatcher'.at \in {"save", "catch", "catch_save"} =>
                           dispatcher'.msg \in Recorded'
    <3>1. UNCHANGED dispatcher =>
            /\ dispatcher'.batch \subseteq Recorded'
            /\ dispatcher'.at \in {"save", "catch", "catch_save"} =>
                 dispatcher'.msg \in Recorded'
      BY <1>2, <2>1 DEF OnlyRecorded
    <3>2. dispatcher' = NextRow =>
            \/ dispatcher' = IdleDispatcher
            \/ dispatcher'.batch = dispatcher.batch /\ dispatcher'.at = "publish"
      BY <2>0 DEF NextRow, DispatcherRow
    <3>3. QED
      BY <1>2, <2>1, <3>1, <3>2 DEF OnlyRecorded, IdleDispatcher
  <2>3. ASSUME NEW q \in [Message -> Nat], queue' = q,
               \A m \in Message : q[m] > 0 => m \in Recorded
        PROVE  \A m \in Message : queue'[m] > 0 => m \in Recorded'
    BY <2>1, <2>3
  <2>4. ASSUME \A h \in Channel : \/ consumer'[h].msg \in Recorded
                                  \/ consumer'[h].msg \notin Message
                                  \/ consumer'[h].msg = consumer[h].msg
        PROVE  \A h \in Channel :
                 consumer'[h].msg \in Message => consumer'[h].msg \in Recorded'
    BY <1>2, <2>1, <2>4 DEF OnlyRecorded
  <2>5. UNCHANGED queue => \A m \in Message : queue'[m] > 0 => m \in Recorded'
    BY <1>2, <2>1 DEF OnlyRecorded
  <2>6. UNCHANGED consumer =>
          \A h \in Channel :
            consumer'[h].msg \in Message => consumer'[h].msg \in Recorded'
    BY <2>4
  <2>7. ASSUME NEW m \in dispatcher.batch, NEW s \in {"save", "catch"},
               dispatcher' = Working(m, s)
        PROVE  /\ dispatcher'.batch \subseteq Recorded'
               /\ dispatcher'.msg \in Recorded'
    BY <1>2, <2>1, <2>7 DEF OnlyRecorded, Working
  <2>8. CASE \E m \in Message : Publish(m) \/ PublishFails(m)
    <3>1. PICK m \in Message : Publish(m) \/ PublishFails(m)
      BY <2>8
    <3>2. m \in dispatcher.batch /\ m \in Recorded
      BY <1>2, <3>1 DEF Publish, PublishFails, OnlyRecorded
    <3>3. /\ dispatcher'.batch \subseteq Recorded'
          /\ dispatcher'.msg \in Recorded'
      BY <2>7, <3>1, <3>2 DEF Publish, PublishFails
    <3>4. \A x \in Message : queue'[x] > 0 => x \in Recorded'
      <4>1. UNCHANGED queue \/ queue' = [queue EXCEPT ![m] = @ + 1]
        BY <3>1 DEF Publish, PublishFails, Route, brokerVars
      <4>2. CASE queue' = [queue EXCEPT ![m] = @ + 1]
        BY <1>2, <2>0, <2>1, <3>2, <4>2 DEF OnlyRecorded
      <4>3. QED
        BY <2>5, <4>1, <4>2
    <3>5. QED
      BY <2>6, <3>1, <3>3, <3>4 DEF Publish, PublishFails, OnlyRecorded
  <2>9. CASE Poll
    <3>1. dispatcher' = [batch |-> DueRows, msg |-> None, at |-> "publish"]
      BY <2>9 DEF Poll
    <3>2. DueRows \subseteq Recorded
      BY DEF DueRows, Recorded
    <3>3. QED
      BY <2>1, <2>5, <2>6, <2>9, <3>1, <3>2 DEF Poll, OnlyRecorded, brokerVars
  <2>10. CASE SaveDelivered \/ SaveFailure
    <3>1. Dispatched \/ dispatcher' = [dispatcher EXCEPT !.at = "catch_save"]
      BY <2>10 DEF SaveDelivered, SaveFailure
    <3>2. /\ dispatcher'.batch \subseteq Recorded'
          /\ dispatcher'.at \in {"save", "catch", "catch_save"} =>
               dispatcher'.msg \in Recorded'
      <4>1. CASE Dispatched
        BY <2>2, <4>1
      <4>2. CASE ~Dispatched
        <5>1. dispatcher' = [dispatcher EXCEPT !.at = "catch_save"]
              /\ dispatcher.at = "save"
          BY <2>10, <4>2 DEF SaveDelivered, SaveFailure
        <5>2. QED
          BY <1>2, <2>0, <2>1, <5>1 DEF OnlyRecorded, DispatcherRow
      <4>3. QED
        BY <4>1, <4>2
    <3>3. QED
      BY <2>5, <2>6, <2>10, <3>2
      DEF SaveDelivered, SaveFailure, OnlyRecorded, brokerVars
  <2>11. CASE UNCHANGED <<queue, consumer>> /\ Dispatched
    BY <2>2, <2>5, <2>6, <2>11 DEF OnlyRecorded
  <2>12. ASSUME NEW closed \in SUBSET open, queue' = Requeued(closed)
         PROVE  \A m \in Message : queue'[m] > 0 => m \in Recorded'
    <3>1. \A m \in Message : Requeued(closed)[m] > 0 => m \in Recorded
      BY <1>2, <2>0, RequeuedIs DEF OnlyRecorded
    <3>2. QED
      BY <2>1, <2>12, <3>1
  <2>13. ASSUME NEW closed, consumer' = Cancelled(closed)
         PROVE  \A h \in Channel :
                  consumer'[h].msg \in Message => consumer'[h].msg \in Recorded'
    BY <1>2, <2>4, <2>13, CancelledIs, RelayAssumption DEF NoConsumer
  <2>14. CASE ConnectionLost \/ \E h \in Channel : ChannelLost(h)
    <3>1. PICK closed \in SUBSET open : CloseChannels(closed)
      BY <2>14 DEF ConnectionLost, ChannelLost
    <3>2. UNCHANGED dispatcher
      BY <2>14 DEF ConnectionLost, ChannelLost, producerVars
    <3>3. QED
      BY <2>2, <2>12, <2>13, <3>1, <3>2 DEF CloseChannels, OnlyRecorded
  <2>15. CASE Restart
    <3>1. \A h \in Channel : consumer'[h].msg = None
      BY <2>15 DEF Restart, NoConsumer
    <3>2. \A h \in Channel :
            consumer'[h].msg \in Message => consumer'[h].msg \in Recorded'
      BY <3>1, RelayAssumption
    <3>3. QED
      BY <2>2, <2>12, <2>15, <3>2 DEF Restart, OnlyRecorded, producerVars
  <2>16. CASE \E c \in Call : BindConsumer(c)
    <3>1. PICK c \in Call : BindConsumer(c)
      BY <2>16
    <3>2. \A h \in Channel : consumer'[h].msg = consumer[h].msg
      BY <2>0, <3>1 DEF BindConsumer, ConsumerRow
    <3>3. QED
      BY <2>2, <2>4, <2>5, <3>1, <3>2 DEF BindConsumer, OnlyRecorded, producerVars
  <2>17. CASE \E h \in Channel, m \in Message : Deliver(h, m)
    <3>1. PICK h \in Channel, m \in Message : Deliver(h, m)
      BY <2>17
    <3>2. /\ consumer'[h].msg = m
          /\ \A x \in Channel \ {h} : consumer'[x] = consumer[x]
      BY <2>0, <3>1, ReceivedIs DEF Deliver
    <3>3. m \in Recorded
      BY <1>2, <3>1 DEF Deliver, OnlyRecorded
    <3>4. \A x \in Message : queue'[x] > 0 => x \in Recorded'
      BY <1>2, <2>0, <2>1, <3>1, <3>3 DEF Deliver, OnlyRecorded
    <3>5. QED
      BY <2>2, <2>4, <3>1, <3>2, <3>3, <3>4 DEF Deliver, OnlyRecorded, producerVars
  <2>18. CASE \E h \in Channel : \/ CheckProcessed(h) \/ Commit(h)
                                 \/ HandlerFails(h) \/ Ack(h) \/ Nack(h)
    <3>1. PICK h \in Channel : \/ CheckProcessed(h) \/ Commit(h)
                               \/ HandlerFails(h) \/ Ack(h) \/ Nack(h)
      BY <2>18
    <3>2. UNCHANGED <<dispatcher, queue>>
      BY <3>1 DEF CheckProcessed, Commit, HandlerFails, Ack, Nack, producerVars,
                  brokerVars
    <3>3. \A x \in Channel : consumer'[x].msg \in {consumer[x].msg, None}
      BY <2>0, <3>1 DEF CheckProcessed, Commit, HandlerFails, Ack, Nack, At,
                        Released, ConsumerRow
    <3>4. QED
      BY <2>2, <2>4, <2>5, <3>2, <3>3, RelayAssumption DEF OnlyRecorded
  <2>19. QED
    BY <1>2, <2>8, <2>9, <2>10, <2>11, <2>14, <2>15, <2>16, <2>17, <2>18
    DEF vars, producerVars, brokerVars, Next, DispatcherStep, EnsureStep,
        HandlerStep, Record, Due, ProducerCrash, Connect, ConnectFails,
        StartEnsure, GetChannel, CreateChannel, AnswerOnClosedChannel,
        SubscriberCrash
<1>3. QED
  BY <1>1, <1>2, TypeCorrect, PTL DEF Spec

\* The safety of DeliverySpec: every step of the dispatcher, the broker and the
\* subscriber is one that Delivery allows, or none of its business.  So a
\* message is applied at most once, and only if it was recorded, however many
\* copies of it are published and delivered on however many channels.
THEOREM KeepsPromise == Spec => Promise!Init /\ [][Promise!Next]_(Promise!vars)
<1>1. Init => Promise!Init
  BY DEF Init, Promise!Init
<1>2. ASSUME TypeOK, HandlersHaveMessages, OnlyRecorded, [Next]_vars
      PROVE  [Promise!Next]_(Promise!vars)
  <2>0. Recorded' = Recorded \/ \E m \in Message : Record(m)
    BY <1>2, RowsStay
  <2> USE DEF Recorded
  <2>1. CASE \E m \in Message : Record(m)
    <3>1. PICK m \in Message : Record(m)
      BY <2>1
    <3>2. Promise!Record(m)
      BY <1>2, <3>1
      DEF Record, Promise!Record, brokerVars, TypeOK, DispatcherType
    <3>3. QED
      BY <3>2 DEF Promise!Next
  <2>2. CASE Recorded' = Recorded /\ UNCHANGED <<applied, dead, dropped, declared>>
    BY <2>2 DEF Promise!vars
  <2>3. CASE Recorded' = Recorded /\ \E m \in Message : Publish(m)
    <3>1. PICK m \in Message : Publish(m)
      BY <2>3
    <3>2. m \in Recorded
      BY <1>2, <3>1 DEF Publish, OnlyRecorded
    <3>3. CASE declared
      BY <2>2, <2>3, <3>1, <3>3 DEF Publish, Route
    <3>4. CASE ~declared
      <4>1. Promise!Drop(m)
        BY <2>3, <3>1, <3>2, <3>4 DEF Publish, Route, Promise!Drop
      <4>2. QED
        BY <4>1 DEF Promise!Next
    <3>5. QED
      BY <3>3, <3>4
  <2>4. CASE Recorded' = Recorded /\ \E c \in Call : BindConsumer(c)
    <3>1. Promise!Declare
      BY <2>4 DEF BindConsumer, Promise!Declare
    <3>2. QED
      BY <3>1 DEF Promise!Next
  <2>5. CASE Recorded' = Recorded /\ \E h \in Channel : Commit(h)
    <3>1. PICK h \in Channel : Commit(h)
      BY <2>5
    <3>2. consumer[h].msg \in Recorded
      BY <1>2, <3>1 DEF Commit, HandlersHaveMessages, OnlyRecorded
    <3>3. CASE applied[consumer[h].msg] = 0
      <4>1. Promise!Apply(consumer[h].msg)
        BY <2>5, <3>1, <3>2, <3>3 DEF Commit, Promise!Apply, brokerVars
      <4>2. QED
        BY <3>2, <4>1 DEF Promise!Next
    <3>4. CASE applied[consumer[h].msg] # 0
      BY <2>2, <2>5, <3>1, <3>4 DEF Commit, brokerVars
    <3>5. QED
      BY <3>3, <3>4
  <2>6. CASE Recorded' = Recorded /\ \E h \in Channel : Nack(h)
    <3>1. PICK h \in Channel : Nack(h)
      BY <2>6
    <3>2. consumer[h].msg \in Recorded
      BY <1>2, <3>1 DEF Nack, HandlersHaveMessages, OnlyRecorded
    <3>3. Promise!Bury(consumer[h].msg)
      BY <2>6, <3>1, <3>2 DEF Nack, Promise!Bury
    <3>4. QED
      BY <3>2, <3>3 DEF Promise!Next
  <2>7. QED
    BY <1>2, <2>0, <2>1, <2>2, <2>3, <2>4, <2>5, <2>6
    DEF vars, brokerVars, Next, DispatcherStep, EnsureStep, HandlerStep, Due,
        PublishFails, Poll, SaveDelivered, SaveFailure, ProducerCrash, Connect,
        ConnectFails, ConnectionLost, ChannelLost, StartEnsure, GetChannel,
        CreateChannel, Deliver, CheckProcessed, HandlerFails, Ack,
        AnswerOnClosedChannel, SubscriberCrash, Restart
<1>3. QED
  BY <1>1, <1>2, Types, RecordedOnly, PTL DEF Spec
-----------------------------------------------------------------------------
(* No message is lost.                                                     *)

\* A consumer without a message is on an open channel, and one that has handled
\* its message had it applied, by itself or by another.
ConsumersKept ==
  \A h \in Channel :
    /\ consumer[h].at = "idle" => h \in open /\ consumer[h].msg = None
    /\ consumer[h].at = "handled" => applied[consumer[h].msg] > 0

LEMMA HandlersMove ==
  ASSUME consumer \in [Channel -> ConsumerRow], NEW h \in Channel,
         NEW s \in Steps, At(h, s)
  PROVE  /\ consumer'[h].at = s /\ consumer'[h].msg = consumer[h].msg
         /\ \A x \in Channel \ {h} : consumer'[x] = consumer[x]
  BY DEF At, ConsumerRow

LEMMA ConsumerReleased ==
  ASSUME consumer \in [Channel -> ConsumerRow], NEW h \in Channel,
         consumer' = Released(h)
  PROVE  /\ consumer'[h].at = "idle" /\ consumer'[h].msg = None
         /\ \A x \in Channel \ {h} : consumer'[x] = consumer[x]
  BY DEF Released, ConsumerRow

LEMMA ConsumersKeptStep ==
  ASSUME TypeOK, HandlersHaveMessages, ListedIsOpen, ConsumersKept, [Next]_vars
  PROVE  ConsumersKept'
<1>0. /\ consumer \in [Channel -> ConsumerRow] /\ applied \in [Message -> Nat]
      /\ open \subseteq Channel
      /\ {"received", "checked", "handled", "failed"} \subseteq Steps
  BY Shapes DEF TypeOK, Steps
<1>1. CASE UNCHANGED <<open, consumer, applied>>
  BY <1>1 DEF ConsumersKept
<1>2. CASE \E c \in Call : CreateChannel(c)
  BY <1>2 DEF CreateChannel, ConsumersKept
<1>3. CASE ConnectionLost \/ \E h \in Channel : ChannelLost(h)
  <2>1. PICK closed \in SUBSET Channel : CloseChannels(closed)
    BY <1>0, <1>3 DEF ConnectionLost, ChannelLost
  <2>2. /\ \A h \in Channel : consumer'[h] = IF h \in closed /\ consumer[h].msg = None
                                               THEN NoConsumer ELSE consumer[h]
        /\ open' = open \ closed
    BY <2>1 DEF CloseChannels, Cancelled
  <2>3. UNCHANGED applied
    BY <1>3 DEF ConnectionLost, ChannelLost
  <2>4. QED
    BY <2>2, <2>3 DEF ConsumersKept, NoConsumer
<1>4. CASE Restart
  BY <1>4 DEF Restart, NoConsumer, ConsumersKept
<1>5. CASE \E c \in Call : BindConsumer(c)
  <2>1. PICK c \in Call : BindConsumer(c)
    BY <1>5
  <2>2. call[c].ch \in open /\ UNCHANGED <<open, applied>>
    BY <2>1 DEF BindConsumer, ListedIsOpen, channelVars
  <2>3. \A h \in Channel : \/ consumer'[h] = consumer[h]
                           \/ /\ h = call[c].ch
                              /\ consumer'[h].at = "idle" /\ consumer'[h].msg = None
    BY <2>1 DEF BindConsumer, NoConsumer
  <2>4. QED
    BY <2>2, <2>3 DEF ConsumersKept
<1>6. CASE \E h \in Channel, m \in Message : Deliver(h, m)
  <2>1. PICK h \in Channel, m \in Message : Deliver(h, m)
    BY <1>6
  <2>2. /\ consumer'[h].at = "received"
        /\ \A x \in Channel \ {h} : consumer'[x] = consumer[x]
        /\ UNCHANGED <<open, applied>>
    BY <1>0, <2>1 DEF Deliver, channelVars, ConsumerRow
  <2>3. QED
    BY <2>2 DEF ConsumersKept
<1>7. CASE \E h \in Channel : CheckProcessed(h) \/ HandlerFails(h)
  <2>1. PICK h \in Channel : CheckProcessed(h) \/ HandlerFails(h)
    BY <1>7
  <2>2. PICK s \in {"handled", "checked", "failed"} :
          At(h, s) /\ (s = "handled" => applied[consumer[h].msg] > 0)
    BY <2>1 DEF CheckProcessed, HandlerFails
  <2>3. UNCHANGED <<open, applied>>
    BY <2>1 DEF CheckProcessed, HandlerFails, channelVars
  <2>4. QED
    BY <1>0, <2>2, <2>3, HandlersMove DEF ConsumersKept
<1>8. CASE \E h \in Channel : Commit(h)
  <2>1. PICK h \in Channel : Commit(h)
    BY <1>8
  <2> DEFINE m == consumer[h].msg
  <2>2. m \in Message /\ UNCHANGED open
    BY <2>1 DEF Commit, HandlersHaveMessages, channelVars
  <2>3. \/ applied' = [applied EXCEPT ![m] = @ + 1] /\ At(h, "handled")
        \/ UNCHANGED applied /\ At(h, "failed")
    BY <2>1 DEF Commit
  <2>4. \A x \in Message : applied[x] > 0 => applied'[x] > 0
    BY <1>0, <2>2, <2>3
  <2>5. At(h, "handled") => applied'[m] > 0
    <3>1. ASSUME At(h, "handled") PROVE ~ At(h, "failed")
      <4>1. consumer'[h].at = "handled"
        BY <1>0, <3>1, HandlersMove
      <4>2. At(h, "failed") => consumer'[h].at = "failed"
        BY <1>0, HandlersMove
      <4>3. QED
        BY <4>1, <4>2
    <3>2. QED
      BY <1>0, <2>2, <2>3, <3>1
  <2> HIDE DEF m
  <2>6. \A x \in Channel \ {h} :
          consumer'[x].at = "handled" => applied'[consumer'[x].msg] > 0
    <3>1. \A x \in Channel \ {h} : consumer'[x] = consumer[x]
      BY <1>0, <2>3, HandlersMove
    <3>2. QED
      BY <2>4, <3>1 DEF ConsumersKept, HandlersHaveMessages
  <2>7. consumer'[h].at \in {"handled", "failed"} /\ consumer'[h].msg = m
    BY <1>0, <2>3, HandlersMove DEF m
  <2>8. consumer'[h].at = "handled" => applied'[m] > 0
    BY <1>0, <2>3, <2>5, HandlersMove
  <2>9. \A x \in Channel \ {h} : consumer'[x] = consumer[x]
    BY <1>0, <2>3, HandlersMove
  <2>10. QED
    BY <2>2, <2>6, <2>7, <2>8, <2>9 DEF ConsumersKept
<1>9. CASE \E h \in Channel : Ack(h) \/ Nack(h)
  <2>1. PICK h \in Channel : Ack(h) \/ Nack(h)
    BY <1>9
  <2>2. h \in open /\ consumer' = Released(h) /\ UNCHANGED <<open, applied>>
    BY <2>1 DEF Ack, Nack, channelVars
  <2>3. QED
    BY <1>0, <2>2, ConsumerReleased DEF ConsumersKept
<1>10. QED
  BY <1>1, <1>2, <1>3, <1>4, <1>5, <1>6, <1>7, <1>8, <1>9
  DEF vars, channelVars, Next, DispatcherStep, EnsureStep, HandlerStep, Record, Due,
      Publish, PublishFails, Poll, SaveDelivered, SaveFailure, ProducerCrash, Connect,
      ConnectFails, StartEnsure, GetChannel, AnswerOnClosedChannel, SubscriberCrash

\* Whoever lets a message go has put it somewhere else.
LEMMA StaysInHand ==
  ASSUME TypeOK, HandlersHaveMessages, ConsumersKept, [Next]_vars,
         NEW m \in Message, InHand(m)
  PROVE  InHand(m)'
<1>0. /\ consumer \in [Channel -> ConsumerRow] /\ applied \in [Message -> Nat]
      /\ queue \in [Message -> Nat] /\ open \subseteq Channel
      /\ {"received", "checked", "handled", "failed"} \subseteq Steps
  BY Shapes DEF TypeOK, Steps
<1>1. ASSUME queue[m] > 0 => queue'[m] > 0, open \subseteq open',
             \A h \in open : consumer'[h].msg = consumer[h].msg,
             applied[m] > 0 => applied'[m] > 0,
             dead \subseteq dead', dropped \subseteq dropped'
      PROVE  InHand(m)'
  BY <1>1 DEF InHand
<1>2. CASE UNCHANGED <<queue, open, consumer, applied, dead, dropped>>
  BY <1>1, <1>2
<1>3. CASE \E x \in Message : Publish(x)
  <2>1. PICK x \in Message : Publish(x)
    BY <1>3
  <2>2. queue[m] > 0 => queue'[m] > 0
    BY <1>0, <2>1 DEF Publish, Route
  <2>3. QED
    BY <1>1, <2>1, <2>2 DEF Publish, Route, channelVars
<1>4. CASE \E c \in Call : CreateChannel(c)
  BY <1>1, <1>4 DEF CreateChannel, brokerVars
<1>5. CASE \E c \in Call : BindConsumer(c)
  <2>1. PICK c \in Call : BindConsumer(c)
    BY <1>5
  <2>2. \A h \in Channel : consumer'[h].msg = consumer[h].msg
    BY <1>0, <2>1 DEF BindConsumer, ConsumerRow
  <2>3. QED
    BY <1>0, <1>1, <2>1, <2>2 DEF BindConsumer
<1>6. ASSUME NEW closed \in SUBSET Channel, queue' = Requeued(closed),
             UNCHANGED <<applied, dead, dropped>>,
             \A h \in open \ closed : h \in open' /\ consumer'[h].msg = consumer[h].msg
      PROVE  InHand(m)'
  <2>1. queue[m] > 0 \/ (\E h \in closed : consumer[h].msg = m) => queue'[m] > 0
    BY <1>6, RequeuedIs
  <2>2. QED
    BY <1>6, <2>1 DEF InHand
<1>7. CASE ConnectionLost \/ \E h \in Channel : ChannelLost(h)
  <2>1. PICK closed \in SUBSET Channel : CloseChannels(closed)
    BY <1>0, <1>7 DEF ConnectionLost, ChannelLost
  <2>2. \A h \in open \ closed : h \in open' /\ consumer'[h].msg = consumer[h].msg
    BY <1>0, <2>1 DEF CloseChannels, Cancelled
  <2>3. UNCHANGED <<applied, dead, dropped>>
    BY <1>7 DEF ConnectionLost, ChannelLost
  <2>4. QED
    BY <1>6, <2>1, <2>2, <2>3 DEF CloseChannels
<1>8. CASE Restart
  <2>1. queue' = Requeued(open) /\ UNCHANGED <<applied, dead, dropped>>
    BY <1>8 DEF Restart
  <2>2. QED
    BY <1>0, <1>6, <2>1
<1>9. CASE \E h \in Channel, x \in Message : Deliver(h, x)
  <2>1. PICK h \in Channel, x \in Message : Deliver(h, x)
    BY <1>9
  <2>2. /\ consumer'[h].msg = x
        /\ \A y \in Channel \ {h} : consumer'[y] = consumer[y]
    BY <1>0, <2>1, ReceivedIs DEF Deliver
  <2>3. consumer[h].msg = None /\ h \in open /\ m # None
    BY <2>1, RelayAssumption DEF Deliver, ConsumersKept
  <2>4. UNCHANGED <<open, applied, dead, dropped>>
    BY <2>1 DEF Deliver, channelVars
  <2>5. CASE x = m
    BY <2>2, <2>3, <2>4, <2>5 DEF InHand
  <2>6. CASE x # m
    <3>1. queue'[m] = queue[m]
      BY <1>0, <2>1, <2>6 DEF Deliver
    <3>2. \A y \in open : consumer[y].msg = m => consumer'[y].msg = m
      BY <1>0, <2>2, <2>3
    <3>3. QED
      BY <2>4, <3>1, <3>2 DEF InHand
  <2>7. QED
    BY <2>5, <2>6
<1>10. CASE \E h \in Channel : CheckProcessed(h) \/ HandlerFails(h) \/ Commit(h)
  <2>1. PICK h \in Channel : CheckProcessed(h) \/ HandlerFails(h) \/ Commit(h)
    BY <1>10
  <2>2. PICK s \in Steps : At(h, s)
    BY <1>0, <2>1 DEF CheckProcessed, HandlerFails, Commit
  <2>3. \A x \in open : consumer'[x].msg = consumer[x].msg
    BY <1>0, <2>2, HandlersMove
  <2>4. applied[m] > 0 => applied'[m] > 0
    BY <1>0, <2>1 DEF CheckProcessed, HandlerFails, Commit
  <2>5. UNCHANGED <<queue, open, dead, dropped>>
    BY <2>1 DEF CheckProcessed, HandlerFails, Commit, brokerVars, channelVars
  <2>6. QED
    BY <1>0, <1>1, <2>3, <2>4, <2>5
<1>11. CASE \E h \in Channel : Ack(h) \/ Nack(h)
  <2>1. PICK h \in Channel : Ack(h) \/ Nack(h)
    BY <1>11
  <2>2. /\ \A x \in Channel \ {h} : consumer'[x] = consumer[x]
        /\ UNCHANGED <<queue, open, applied, dropped>> /\ dead \subseteq dead'
    BY <1>0, <2>1, ConsumerReleased DEF Ack, Nack, brokerVars, channelVars
  <2>3. consumer[h].msg = m => applied[m] > 0 \/ m \in dead'
    BY <2>1 DEF Ack, Nack, ConsumersKept
  <2>4. QED
    BY <1>0, <2>2, <2>3 DEF InHand
<1>12. QED
  BY <1>2, <1>3, <1>4, <1>5, <1>7, <1>8, <1>9, <1>10, <1>11
  DEF vars, producerVars, brokerVars, channelVars, Next, DispatcherStep, EnsureStep,
      HandlerStep, Record, Due, PublishFails, Poll, SaveDelivered, SaveFailure,
      ProducerCrash, Connect, ConnectFails, StartEnsure, GetChannel,
      AnswerOnClosedChannel, SubscriberCrash

\* What the dispatcher is about to stamp as delivered has reached the broker.
ConfirmedIsInHand ==
  dispatcher.at \in {"save", "catch_save"} => InHand(dispatcher.msg)

\* NoMessageIsLost: from the moment a message is recorded, it waits in its row, in
\* the queue or with a consumer that has not acknowledged it, or it is applied,
\* dead-lettered or dropped, whatever crashes, closes or times out.
THEOREM NoMessagesAreLost == Spec => []NoMessageIsLost
<1>1. Init => ConsumersKept /\ ConfirmedIsInHand /\ NoMessageIsLost
  BY DEF Init, ConsumersKept, ConfirmedIsInHand, NoMessageIsLost, NoConsumer,
         IdleDispatcher
<1>2. ASSUME TypeOK, HandlersHaveMessages, OnlyRecorded, ListedIsOpen, ConsumersKept,
             ConfirmedIsInHand, NoMessageIsLost, [Next]_vars
      PROVE  ConsumersKept' /\ ConfirmedIsInHand' /\ NoMessageIsLost'
  <2> USE <1>2
  <2>0. /\ dispatcher \in DispatcherRow
        /\ row \in [Message -> {"none", "due", "waiting", "delivered"}]
        /\ dispatcher.at \in {"save", "catch", "catch_save"} => dispatcher.msg \in Message
        /\ dispatcher.batch \subseteq Message
    BY Shapes DEF TypeOK, DispatcherType, DispatcherRow, OnlyRecorded, Recorded
  <2>1. ConsumersKept'
    BY ConsumersKeptStep
  <2>2. \A m \in Message : InHand(m) => InHand(m)'
    BY StaysInHand
  <2>3. CASE UNCHANGED producerVars
    BY <2>0, <2>1, <2>2, <2>3 DEF producerVars, ConfirmedIsInHand, NoMessageIsLost
  <2>4. CASE \E m \in Message : Record(m) \/ Due(m)
    <3>1. PICK m \in Message : row' = [row EXCEPT ![m] = "due"] /\ UNCHANGED dispatcher
      BY <2>4 DEF Record, Due
    <3>2. NoMessageIsLost'
      BY <2>0, <2>2, <3>1 DEF NoMessageIsLost
    <3>3. QED
      BY <2>0, <2>1, <2>2, <3>1, <3>2 DEF ConfirmedIsInHand
  <2>5. CASE Poll \/ ProducerCrash
    <3>1. dispatcher'.at \in {"idle", "publish"} /\ UNCHANGED row
      BY <2>5 DEF Poll, ProducerCrash, IdleDispatcher
    <3>2. QED
      BY <2>1, <2>2, <3>1 DEF ConfirmedIsInHand, NoMessageIsLost
  <2>6. CASE \E m \in Message : Publish(m) \/ PublishFails(m)
    <3>1. PICK m \in Message : Publish(m) \/ PublishFails(m)
      BY <2>6
    <3>2. UNCHANGED row
      BY <3>1 DEF Publish, PublishFails
    <3>3. CASE PublishFails(m)
      BY <2>1, <2>2, <3>2, <3>3
      DEF PublishFails, Working, ConfirmedIsInHand, NoMessageIsLost
    <3>4. CASE Publish(m)
      <4>1. dispatcher'.msg = m
        BY <3>4 DEF Publish, Working
      <4>2. InHand(m)'
        <5>1. queue'[m] > 0 \/ m \in dropped'
          BY <3>4 DEF Publish, Route, TypeOK
        <5>2. QED
          BY <5>1 DEF InHand
      <4>3. QED
        BY <2>1, <2>2, <3>2, <4>1, <4>2 DEF ConfirmedIsInHand, NoMessageIsLost
    <3>5. QED
      BY <3>1, <3>3, <3>4
  <2>7. CASE SaveDelivered \/ SaveFailure
    <3>1. NextRow.at \in {"idle", "publish"} /\ IdleDispatcher.at = "idle"
      BY <2>0 DEF NextRow, IdleDispatcher, DispatcherRow
    <3>2. ConfirmedIsInHand'
      <4>1. \/ dispatcher' = NextRow \/ dispatcher' = IdleDispatcher
            \/ dispatcher.at = "save" /\ dispatcher' = [dispatcher EXCEPT !.at = "catch_save"]
        BY <2>7 DEF SaveDelivered, SaveFailure
      <4>2. QED
        BY <2>0, <2>2, <3>1, <4>1 DEF ConfirmedIsInHand, DispatcherRow
    <3>3. NoMessageIsLost'
      <4>1. \/ UNCHANGED row
            \/ row' = [row EXCEPT ![dispatcher.msg] = "waiting"]
            \/ /\ row' = [row EXCEPT ![dispatcher.msg] = "delivered"]
               /\ dispatcher.at \in {"save", "catch_save"}
        BY <2>7 DEF SaveDelivered, SaveFailure
      <4>2. QED
        BY <2>0, <2>2, <4>1 DEF ConfirmedIsInHand, NoMessageIsLost
    <3>4. QED
      BY <2>1, <3>2, <3>3
  <2>8. QED
    BY <2>3, <2>4, <2>5, <2>6, <2>7
    DEF vars, producerVars, Next, DispatcherStep, EnsureStep, HandlerStep, Connect,
        ConnectFails, ConnectionLost, ChannelLost, StartEnsure, GetChannel,
        CreateChannel, BindConsumer, Deliver, CheckProcessed, Commit, HandlerFails, Ack,
        Nack, AnswerOnClosedChannel, SubscriberCrash, Restart
<1>3. QED
  BY <1>1, <1>2, Types, RecordedOnly, Listed, PTL DEF Spec
=============================================================================
