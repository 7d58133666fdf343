------------------------- MODULE StoreTransactions --------------------------
(***************************************************************************)
(* The transactions the service runs on its store.  A transaction is the   *)
(* sequence of store.Tx operations its callback performs; the callback     *)
(* stops at the first operation that returns an error and passes the error *)
(* on, which makes Store.Tx drop the whole transaction.                    *)
(***************************************************************************)
EXTENDS StoreState, Integers, Sequences

CONSTANTS
  TopicName,   \* names of topics
  UUID,        \* random identifiers of subscriptions (util.UUID)
  Token,       \* confirmation tokens (util.RandomHex)
  JobID,       \* identifiers of delivery jobs
  TopicData,   \* contents of the topic fields the store only copies
  SubData,     \* the same for subscriptions
  JobData,     \* the same for delivery jobs
  NoState      \* the outcome of a transaction that fails

Topic == { [ARN |-> FormatARN(n), Name |-> n, data |-> v] :
             n \in TopicName, v \in TopicData }
TopicARN == { FormatARN(n) : n \in TopicName }

Subscription ==
  { [ARN |-> SubscriptionARN(t, u), TopicARN |-> t, data |-> v] :
      t \in TopicARN, u \in UUID, v \in SubData }
SubARN == { SubscriptionARN(t, u) : t \in TopicARN, u \in UUID }

ConfirmationToken ==
  [Token : Token, TopicARN : TopicARN, SubscriptionARN : SubARN]

DeliveryJob == [ID : JobID, TopicARN : TopicARN, data : JobData]

\* Every map of the store holds records of its own kind.
StateType ==
  [ topics        : Map(TopicARN, Topic),
    topicsByName  : Map(TopicName, TopicARN),
    subscriptions : Map(SubARN, Subscription),
    subsByTopic   : Map(TopicARN, SUBSET SubARN),
    confirmation  : Map(Token, ConfirmationToken),
    deliveryJobs  : Map(JobID, DeliveryJob) ]

ASSUME NoStateAssumption == NoState \notin StateType

-----------------------------------------------------------------------------
(***************************************************************************)
(* Operations as records, so that a transaction is a sequence of them.     *)
(* An update carries what the callback leaves in the mutable fields.       *)
(***************************************************************************)
Operation ==
  [op : {"CreateTopic"}, topic : Topic]
  \cup [op : {"UpdateTopic"}, arn : TopicARN, data : TopicData]
  \cup [op : {"DeleteTopic"}, arn : TopicARN]
  \cup [op : {"CreateSubscription"}, sub : Subscription]
  \cup [op : {"UpdateSubscription"}, arn : SubARN, data : SubData]
  \cup [op : {"DeleteSubscription"}, arn : SubARN]
  \cup [op : {"PutConfirmationToken"}, token : ConfirmationToken]
  \cup [op : {"DeleteConfirmationToken"}, token : Token]
  \cup [op : {"EnqueueDeliveryJob"}, job : DeliveryJob]
  \cup [op : {"UpdateDeliveryJob"}, id : JobID, data : JobData]

\* The operation returns ErrConflict or ErrNotFound.
OpFails(s, o) ==
  \/ o.op = "CreateTopic" /\ CreateTopicConflict(s, o.topic)
  \/ o.op = "UpdateTopic" /\ ~HasTopic(s, o.arn)
  \/ o.op \in {"UpdateSubscription", "DeleteSubscription"}
     /\ ~HasSubscription(s, o.arn)
  \/ o.op = "UpdateDeliveryJob" /\ ~HasDeliveryJob(s, o.id)

ApplyOp(s, o) ==
  CASE o.op = "CreateTopic" -> CreateTopic(s, o.topic)
    [] o.op = "UpdateTopic" ->
         UpdateTopic(s, o.arn, [s.topics[o.arn] EXCEPT !.data = o.data])
    [] o.op = "DeleteTopic" -> DeleteTopic(s, o.arn)
    [] o.op = "CreateSubscription" -> CreateSubscription(s, o.sub)
    [] o.op = "UpdateSubscription" ->
         UpdateSubscription(s, o.arn,
                            [s.subscriptions[o.arn] EXCEPT !.data = o.data])
    [] o.op = "DeleteSubscription" -> DeleteSubscription(s, o.arn)
    [] o.op = "PutConfirmationToken" -> PutConfirmationToken(s, o.token)
    [] o.op = "DeleteConfirmationToken" -> DeleteConfirmationToken(s, o.token)
    [] o.op = "EnqueueDeliveryJob" -> EnqueueDeliveryJob(s, o.job)
    [] o.op = "UpdateDeliveryJob" ->
         UpdateDeliveryJob(s, o.id, [s.deliveryJobs[o.id] EXCEPT !.data = o.data])

\* The state a transaction leads to from s: its callback stops at the first
\* operation that returns an error.
Outcome(s, ops) ==
  LET after[n \in 0..Len(ops)] ==
        IF n = 0 THEN s
        ELSE IF after[n - 1] = NoState \/ OpFails(after[n - 1], ops[n]) THEN NoState
        ELSE ApplyOp(after[n - 1], ops[n])
  IN  after[Len(ops)]

-----------------------------------------------------------------------------
(***************************************************************************)
(* The transactions themselves.                                            *)
(***************************************************************************)
Enqueue(job) == [op |-> "EnqueueDeliveryJob", job |-> job]
PutTokenFor(t, sub) ==
  [op |-> "PutConfirmationToken",
   token |-> [Token |-> t, TopicARN |-> sub.TopicARN,
              SubscriptionARN |-> sub.ARN]]
JobFor(id, topicARN, v) == [ID |-> id, TopicARN |-> topicARN, data |-> v]

\* The methods of Store that wrap one operation in a transaction.
SingleTransactions == { <<o>> : o \in Operation }

\* Service.Subscribe over HTTP: subscription, token and confirmation job.
SubscribeTransactions ==
  { << [op |-> "CreateSubscription", sub |-> sub], PutTokenFor(t, sub),
       Enqueue(JobFor(id, sub.TopicARN, v)) >> :
      sub \in Subscription, t \in Token, id \in JobID, v \in JobData }

\* Service.Unsubscribe over HTTP.
UnsubscribeTransactions ==
  { << [op |-> "DeleteSubscription", arn |-> sub.ARN], PutTokenFor(t, sub),
       Enqueue(JobFor(id, sub.TopicARN, v)) >> :
      sub \in Subscription, t \in Token, id \in JobID, v \in JobData }

\* Service.dispatchPublish: one job per matching HTTP subscription, at most
\* two here.  With none of them the transaction changes nothing, and is
\* committed all the same.
DispatchTransactions ==
  { <<>> } \cup
  { << Enqueue(JobFor(id1, arn, v)), Enqueue(JobFor(id2, arn, v)) >> :
      id1 \in JobID, id2 \in JobID, arn \in TopicARN, v \in JobData }

Transactions ==
  SingleTransactions \cup SubscribeTransactions
  \cup UnsubscribeTransactions \cup DispatchTransactions
=============================================================================
