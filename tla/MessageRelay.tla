---------------------------- MODULE MessageRelay ----------------------------
(***************************************************************************)
(* One event on its way from the outbox table of a service to a subscriber *)
(* of another: the dispatcher that polls the table and publishes with a    *)
(* confirm, the exchange and durable queue of the broker, and in the       *)
(* subscriber the connection, the consumer channels and the timer that     *)
(* registers the consumer again after they are lost.                       *)
(*                                                                         *)
(* The queue is a bag: redelivery, parallel consumers and republished rows *)
(* leave no order to rely on.  A handler runs one transaction that inserts *)
(* the processed-message row with the effect.  What fails is counted by    *)
(* `faults`; every other step is the program running as it should.         *)
(* A channel has one consumer: a second one that a run of ensureConsumer    *)
(* adds to the same channel is folded into it, as two channels already let *)
(* two handlers of one queue run at once.                                  *)
(***************************************************************************)
EXTENDS Naturals, FiniteSets

CONSTANTS Message,    \* outbox messages, named by their messageId
          Channel,    \* names for the AMQP channels of the subscriber
          Call,       \* overlapping runs of ensureConsumer
          None,
          MaxFaults   \* bound on faults

ASSUME RelayAssumption ==
  /\ None \notin Message \union Channel /\ IsFiniteSet(Channel)
  /\ MaxFaults \in Nat

VARIABLES row,         \* state of each outbox row
          dispatcher,  \* rows left in the batch, the one at work, where the loop stands
          queue,       \* copies of each message waiting in the broker's queue
          declared,    \* the queue has been asserted and bound
          dropped,     \* messages confirmed and routed to no queue
          dead,        \* messages in the dead-letter queue
          connected,   \* the subscriber's connection
          open,        \* channels the broker has open for this queue
          channel,     \* the entry of consumerChannels for this queue
          bound,       \* registration.boundChannel, with its consumerTag
          call,        \* the runs of ensureConsumer
          consumer,    \* the consumer on each channel and its handler
          applied,     \* committed transactions of the handler
          faults

producerVars == <<row, dispatcher>>
channelVars == <<connected, open, channel, bound, call>>
brokerVars == <<queue, declared, dropped, dead>>
vars == <<producerVars, brokerVars, channelVars, consumer, applied, faults>>

IdleDispatcher == [batch |-> {}, msg |-> None, at |-> "idle"]
IdleCall == [at |-> "idle", ch |-> None]
NoConsumer == [at |-> "none", msg |-> None]

Init ==
  /\ row = [m \in Message |-> "none"]
  /\ dispatcher = IdleDispatcher
  /\ queue = [m \in Message |-> 0]
  /\ declared = FALSE /\ dropped = {} /\ dead = {}
  /\ connected = FALSE /\ open = {} /\ channel = None /\ bound = None
  /\ call = [c \in Call |-> IdleCall]
  /\ consumer = [h \in Channel |-> NoConsumer]
  /\ applied = [m \in Message |-> 0]
  /\ faults = 0

Fault == faults < MaxFaults /\ faults' = faults + 1
NoFault == UNCHANGED faults

-----------------------------------------------------------------------------
(* The dispatcher. *)

\* The row is committed with the change it announces.
Record(m) ==
  /\ row[m] = "none"
  /\ row' = [row EXCEPT ![m] = "due"]
  /\ UNCHANGED <<dispatcher, brokerVars, channelVars, consumer, applied, faults>>

\* nextAttemptAt has come.
Due(m) ==
  /\ row[m] = "waiting"
  /\ row' = [row EXCEPT ![m] = "due"]
  /\ UNCHANGED <<dispatcher, brokerVars, channelVars, consumer, applied, faults>>

\* isRunning keeps a second poll out until the batch is done.  The rows are
\* published oldest first; the receivers cannot rely on it, and the order is
\* left open.
DueRows == {m \in Message : row[m] = "due"}
Poll ==
  /\ dispatcher.at = "idle" /\ DueRows # {}
  /\ dispatcher' = [batch |-> DueRows, msg |-> None, at |-> "publish"]
  /\ UNCHANGED <<row, brokerVars, channelVars, consumer, applied, faults>>

Working(m, step) == [batch |-> dispatcher.batch \ {m}, msg |-> m, at |-> step]
NextRow ==
  IF dispatcher.batch = {} THEN IdleDispatcher
  ELSE [dispatcher EXCEPT !.msg = None, !.at = "publish"]

\* A fanout exchange without a bound queue confirms and forgets.
Route(m) ==
  IF declared THEN queue' = [queue EXCEPT ![m] = @ + 1] /\ UNCHANGED dropped
  ELSE dropped' = dropped \union {m} /\ UNCHANGED queue

\* The confirm arrives, or does not before its timeout.
Publish(m) ==
  /\ dispatcher.at = "publish" /\ m \in dispatcher.batch
  /\ Route(m)
  /\ \/ dispatcher' = Working(m, "save") /\ NoFault
     \/ dispatcher' = Working(m, "catch") /\ Fault
  /\ UNCHANGED <<row, declared, dead, channelVars, consumer, applied>>

\* No connection, or the broker did not take the message.
PublishFails(m) ==
  /\ dispatcher.at = "publish" /\ m \in dispatcher.batch /\ Fault
  /\ dispatcher' = Working(m, "catch")
  /\ UNCHANGED <<row, brokerVars, channelVars, consumer, applied>>

SaveDelivered ==
  /\ dispatcher.at = "save"
  /\ \/ /\ row' = [row EXCEPT ![dispatcher.msg] = "delivered"]
        /\ dispatcher' = NextRow /\ NoFault
     \/ /\ dispatcher' = [dispatcher EXCEPT !.at = "catch_save"] /\ Fault
        /\ UNCHANGED row
  /\ UNCHANGED <<brokerVars, channelVars, consumer, applied>>

\* Fault: a message whose publication failed is stamped as delivered.
SaveFailure_AnyDelivered ==
  /\ dispatcher.at \in {"catch", "catch_save"}
  /\ \/ /\ row' = [row EXCEPT ![dispatcher.msg] = "delivered"]
        /\ dispatcher' = NextRow /\ NoFault
     \/ dispatcher' = IdleDispatcher /\ Fault /\ UNCHANGED row
  /\ UNCHANGED <<brokerVars, channelVars, consumer, applied>>

\* After a failed save the entity in memory already has its deliveredAt, and
\* the catch block saves that; when it fails too the rest of the batch is
\* abandoned to the next poll.
SaveFailure ==
  /\ dispatcher.at \in {"catch", "catch_save"}
  /\ \/ /\ row' = [row EXCEPT ![dispatcher.msg] =
                     IF dispatcher.at = "catch" THEN "waiting" ELSE "delivered"]
        /\ dispatcher' = NextRow /\ NoFault
     \/ dispatcher' = IdleDispatcher /\ Fault /\ UNCHANGED row
  /\ UNCHANGED <<brokerVars, channelVars, consumer, applied>>

ProducerCrash ==
  /\ dispatcher # IdleDispatcher /\ Fault
  /\ dispatcher' = IdleDispatcher
  /\ UNCHANGED <<row, brokerVars, channelVars, consumer, applied>>

-----------------------------------------------------------------------------
(* The subscriber's connection and channels. *)

\* The unacknowledged message of a consumer whose channel closes is queued
\* again; a handler at work on it goes on.
Requeued(closed) ==
  [m \in Message |-> queue[m] + Cardinality({h \in closed : consumer[h].msg = m})]
Cancelled(closed) ==
  [h \in Channel |-> IF h \in closed /\ consumer[h].msg = None
                     THEN NoConsumer ELSE consumer[h]]

CloseChannels(closed) ==
  /\ open' = open \ closed
  /\ queue' = Requeued(closed)
  /\ consumer' = Cancelled(closed)

\* connectionPromise is shared: one attempt, for everyone who waits.
Connect ==
  /\ ~connected
  /\ connected' = TRUE
  /\ UNCHANGED <<producerVars, brokerVars, open, channel, bound, call,
                 consumer, applied, faults>>

\* The attempt ran out of retries: every caller of ensureConnection fails.
ConnectFails ==
  /\ ~connected /\ Fault
  /\ call' = [c \in Call |-> IF call[c].at = "connecting" THEN IdleCall ELSE call[c]]
  /\ UNCHANGED <<producerVars, brokerVars, connected, open, channel, bound,
                 consumer, applied>>

\* The close handler forgets the connection and clears consumerChannels; runs
\* of ensureConsumer that use it fail.  The registration keeps its tag.
ConnectionLost ==
  /\ connected /\ Fault
  /\ connected' = FALSE /\ channel' = None
  /\ CloseChannels(open)
  /\ call' = [c \in Call |-> IF call[c].at = "connecting" THEN call[c] ELSE IdleCall]
  /\ UNCHANGED <<producerVars, declared, dropped, dead, bound, applied>>

\* Fault: the closed channel stays listed.
ChannelLost_KeepsListed(h) ==
  /\ h \in open /\ Fault
  /\ CloseChannels({h})
  /\ call' = [c \in Call |-> IF call[c].ch = h THEN IdleCall ELSE call[c]]
  /\ UNCHANGED <<producerVars, declared, dropped, dead, connected, channel, bound, applied>>

\* The error and close handlers remove the channel if it is the one listed.
ChannelLost(h) ==
  /\ h \in open /\ Fault
  /\ CloseChannels({h})
  /\ channel' = IF channel = h THEN None ELSE channel
  /\ call' = [c \in Call |-> IF call[c].ch = h THEN IdleCall ELSE call[c]]
  /\ UNCHANGED <<producerVars, declared, dropped, dead, connected, bound, applied>>

\* Once at module init and then every five seconds, whether or not the run
\* before has ended.
StartEnsure(c) ==
  /\ call[c].at = "idle"
  /\ call' = [call EXCEPT ![c].at = "connecting"]
  /\ UNCHANGED <<producerVars, brokerVars, connected, open, channel, bound,
                 consumer, applied, faults>>

\* Fault: a registration that has a tag is taken to be live.
IsRegistered_TagOnly(h) == bound # None
IsRegistered(h) == bound = h
WithChannel(c, h) ==
  call' = [call EXCEPT ![c] = IF IsRegistered(h) THEN IdleCall
                              ELSE [at |-> "binding", ch |-> h]]

\* getConsumerChannel, with a channel listed or none.
GetChannel(c) ==
  /\ call[c].at = "connecting" /\ connected
  /\ IF channel # None THEN WithChannel(c, channel)
     ELSE call' = [call EXCEPT ![c].at = "creating"]
  /\ UNCHANGED <<producerVars, brokerVars, connected, open, channel, bound,
                 consumer, applied, faults>>

\* Names no variable refers to any more.
Unused ==
  {h \in Channel \ (open \union {bound, channel}) : consumer[h] = NoConsumer}

\* Nobody looks again whether another run has listed a channel meanwhile.
CreateChannel(c) ==
  /\ call[c].at = "creating"
  /\ Unused # {}
  /\ LET h == CHOOSE x \in Unused : TRUE
     IN /\ open' = open \union {h}
        /\ channel' = h
        /\ WithChannel(c, h)
  /\ UNCHANGED <<producerVars, brokerVars, connected, bound, consumer, applied, faults>>

\* The exchange, the queues and their bindings are asserted, the consumer is
\* added and the registration updated.
BindConsumer(c) ==
  /\ call[c].at = "binding"
  /\ declared' = TRUE
  /\ LET h == call[c].ch
     IN consumer' = [consumer EXCEPT ![h] = IF @ = NoConsumer THEN [@ EXCEPT !.at = "idle"] ELSE @]
  /\ bound' = call[c].ch
  /\ call' = [call EXCEPT ![c] = IdleCall]
  /\ UNCHANGED <<producerVars, queue, dropped, dead, connected, open, channel,
                 applied, faults>>

-----------------------------------------------------------------------------
(* Handling one message. *)

At(h, step) == consumer' = [consumer EXCEPT ![h].at = step]

\* prefetch(1): a consumer has one unacknowledged message at a time.
Deliver(h, m) ==
  /\ consumer[h].at = "idle" /\ queue[m] > 0
  /\ queue' = [queue EXCEPT ![m] = @ - 1]
  /\ consumer' = [consumer EXCEPT ![h].at = "received", ![h].msg = m]
  /\ UNCHANGED <<producerVars, declared, dropped, dead, channelVars, applied, faults>>

\* hasProcessed, read before the transaction.
CheckProcessed(h) ==
  /\ consumer[h].at = "received"
  /\ At(h, IF applied[consumer[h].msg] > 0 THEN "handled" ELSE "checked")
  /\ UNCHANGED <<producerVars, brokerVars, channelVars, applied, faults>>

\* Fault: the processed-message row is not unique.
Commit_NoUnique(h) ==
  /\ consumer[h].at = "checked"
  /\ applied' = [applied EXCEPT ![consumer[h].msg] = @ + 1]
  /\ At(h, "handled")
  /\ UNCHANGED <<producerVars, brokerVars, channelVars, faults>>

\* The processed-message row is unique: the loser of a race rolls back.
Commit(h) ==
  LET m == consumer[h].msg
  IN /\ consumer[h].at = "checked"
     /\ IF applied[m] = 0
        THEN applied' = [applied EXCEPT ![m] = @ + 1] /\ At(h, "handled")
        ELSE At(h, "failed") /\ UNCHANGED applied
     /\ UNCHANGED <<producerVars, brokerVars, channelVars, faults>>

HandlerFails(h) ==
  /\ consumer[h].at \in {"received", "checked"} /\ Fault
  /\ At(h, "failed")
  /\ UNCHANGED <<producerVars, brokerVars, channelVars, applied>>

Released(h) == [consumer EXCEPT ![h].at = "idle", ![h].msg = None]

Ack(h) ==
  /\ consumer[h].at = "handled" /\ h \in open
  /\ consumer' = Released(h)
  /\ UNCHANGED <<producerVars, brokerVars, channelVars, applied, faults>>

Nack(h) ==
  /\ consumer[h].at = "failed" /\ h \in open
  /\ dead' = dead \union {consumer[h].msg}
  /\ consumer' = Released(h)
  /\ UNCHANGED <<producerVars, queue, declared, dropped, channelVars, applied, faults>>

Restart ==
  /\ connected' = FALSE /\ channel' = None /\ bound' = None
  /\ call' = [c \in Call |-> IdleCall]
  /\ open' = {}
  /\ queue' = Requeued(open)
  /\ consumer' = [h \in Channel |-> NoConsumer]
  /\ UNCHANGED <<producerVars, declared, dropped, dead, applied>>

\* ack and nack throw on a closed channel, the second time inside the catch
\* block of an async callback: the rejection has no handler and ends the
\* process.
AnswerOnClosedChannel(h) ==
  /\ consumer[h].at \in {"handled", "failed"} /\ h \notin open
  /\ Restart /\ NoFault

SubscriberCrash == Fault /\ Restart

-----------------------------------------------------------------------------
DispatcherStep ==
  Poll \/ (\E m \in Message : Publish(m)) \/ SaveDelivered \/ SaveFailure
EnsureStep(c) == GetChannel(c) \/ CreateChannel(c) \/ BindConsumer(c)
HandlerStep(h) ==
  CheckProcessed(h) \/ Commit(h) \/ Ack(h) \/ Nack(h) \/ AnswerOnClosedChannel(h)

Next ==
  \/ \E m \in Message : Record(m) \/ Due(m) \/ PublishFails(m)
  \/ DispatcherStep \/ ProducerCrash
  \/ Connect \/ ConnectFails \/ ConnectionLost
  \/ \E h \in Channel : ChannelLost(h)
  \/ \E c \in Call : StartEnsure(c) \/ EnsureStep(c)
  \/ \E h \in Channel : HandlerStep(h) \/ HandlerFails(h)
  \/ \E h \in Channel, m \in Message : Deliver(h, m)
  \/ SubscriberCrash

Spec == Init /\ [][Next]_vars

Fairness ==
  /\ WF_vars(DispatcherStep)
  /\ \A m \in Message : WF_vars(Due(m))
  /\ WF_vars(Connect)
  /\ \A c \in Call : WF_vars(StartEnsure(c)) /\ WF_vars(EnsureStep(c))
  /\ \A h \in Channel :
       WF_vars(HandlerStep(h)) /\ WF_vars(\E m \in Message : Deliver(h, m))

FairSpec == Spec /\ Fairness
-----------------------------------------------------------------------------
DispatcherType ==
  /\ row \in [Message -> {"none", "due", "waiting", "delivered"}]
  /\ dispatcher \in [batch : SUBSET Message, msg : Message \union {None},
                    at : {"idle", "publish", "save", "catch", "catch_save"}]

ConsumerType ==
  consumer \in [Channel -> [at : {"none", "idle", "received", "checked", "handled", "failed"},
                            msg : Message \union {None}]]

TypeOK ==
  /\ DispatcherType
  /\ queue \in [Message -> Nat] /\ applied \in [Message -> Nat]
  /\ declared \in BOOLEAN /\ connected \in BOOLEAN
  /\ dropped \subseteq Message /\ dead \subseteq Message
  /\ open \subseteq Channel
  /\ {channel, bound} \subseteq Channel \union {None}
  /\ call \in [Call -> [at : {"idle", "connecting", "creating", "binding"},
                        ch : Channel \union {None}]]
  /\ ConsumerType
  /\ faults \in 0..MaxFaults

\* The relay keeps the promise of Delivery: a message recorded in the outbox
\* is applied at most once, however often it is published and delivered, and
\* is not lost between the services once the queue exists.
Promise == INSTANCE Delivery WITH recorded <- {m \in Message : row[m] # "none"}
DeliverySpec == Promise!Spec

\* A message is never in nobody's hands: it is in a row that will be published
\* again, in the queue or with a consumer that has not acknowledged it, until
\* it is applied, dead-lettered or dropped.
InHand(m) ==
  \/ queue[m] > 0
  \/ \E h \in open : consumer[h].msg = m
  \/ applied[m] > 0
  \/ m \in dead \union dropped

NoMessageIsLost ==
  \A m \in Message : row[m] \in {"none", "due", "waiting"} \/ InHand(m)

\* ensureConsumer returns early when the listed channel is the one the
\* registration is bound to.  That is safe only if a consumer is live there:
\* otherwise no later run would register it again and the queue would fill
\* with nobody to read it.
RegistrationIsLive ==
  bound # None /\ bound = channel =>
    bound \in open /\ consumer[bound] # NoConsumer

\* Whatever is lost, the timer brings the subscriber back to a state with a
\* consumer on the channel it lists.
ConsumersReturn ==
  <>[](channel \in open /\ consumer[channel] # NoConsumer)
-----------------------------------------------------------------------------
=============================================================================
