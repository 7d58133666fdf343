------------------------- MODULE MemoryStoreProofs --------------------------
(***************************************************************************)
(* Proofs about MemoryStore, for any number of clients, topics, tokens and *)
(* jobs: the store stays well typed, its indexes never dangle, and its     *)
(* transactions are those of SnapshotStore, all or nothing.                *)
(***************************************************************************)
EXTENDS MemoryStore, WellFoundedInduction, TLAPS

(***************************************************************************)
(* Maps.                                                                   *)
(***************************************************************************)

\* Assigning a key of K a value of V keeps a map in Map(K, V).
LEMMA MapPut ==
  ASSUME NEW K, NEW V, NEW m \in Map(K, V), NEW k \in K, NEW v \in V
  PROVE  Put(m, k, v) \in Map(K, V)
<1>1. PICK D \in SUBSET K : m \in [D -> V]
  BY DEF Map
<1>2. Put(m, k, v) \in [D \cup {k} -> V]
  BY <1>1 DEF Put
<1>3. QED
  BY <1>2 DEF Map

\* Deleting keys keeps a map in Map(K, V).
LEMMA MapDrop ==
  ASSUME NEW K, NEW V, NEW m \in Map(K, V), NEW S
  PROVE  Drop(m, S) \in Map(K, V)
<1>1. PICK D \in SUBSET K : m \in [D -> V]
  BY DEF Map
<1>2. Drop(m, S) \in [D \ S -> V]
  BY <1>1 DEF Drop, Restrict
<1>3. QED
  BY <1>2 DEF Map

\* A key that is present is in K and its value in V.
LEMMA MapApply ==
  ASSUME NEW K, NEW V, NEW m \in Map(K, V), NEW k \in DOMAIN m
  PROVE  m[k] \in V /\ k \in K
BY DEF Map

-----------------------------------------------------------------------------
(***************************************************************************)
(* Each operation keeps the state well typed.                              *)
(***************************************************************************)

\* The index of a topic is a set of subscription ARNs, present or not.
LEMMA SubARNsOfType ==
  ASSUME NEW s \in StateType, NEW arn
  PROVE  SubARNsOf(s, arn) \in SUBSET SubARN
<1>1. s.subsByTopic \in Map(TopicARN, SUBSET SubARN)
  BY DEF StateType
<1>2. QED
  BY <1>1, MapApply DEF SubARNsOf

\* The empty store is well typed and its indexes agree.
LEMMA EmptyStateOK ==
  EmptyState \in StateType /\ IndexesAgree(EmptyState)
<1>1. \A K, V : EmptyMap \in [{} -> V] /\ {} \in SUBSET K
  BY DEF EmptyMap
<1>2. \A K, V : EmptyMap \in Map(K, V)
  BY <1>1 DEF Map
<1>3. QED
  BY <1>2 DEF EmptyState, StateType, IndexesAgree, TopicIndexAgrees,
              SubscriptionIndexAgrees, EmptyMap

\* The function given to an Update operation changes only the data fields.
LEMMA TopicWithData ==
  ASSUME NEW t \in Topic, NEW v \in TopicData
  PROVE  /\ [t EXCEPT !.data = v] \in Topic
         /\ [t EXCEPT !.data = v].ARN = t.ARN
         /\ [t EXCEPT !.data = v].Name = t.Name
<1>1. PICK n \in TopicName, w \in TopicData :
        t = [ARN |-> FormatARN(n), Name |-> n, data |-> w]
  BY DEF Topic
<1>2. [t EXCEPT !.data = v] = [ARN |-> FormatARN(n), Name |-> n, data |-> v]
  BY <1>1
<1>3. QED
  BY <1>1, <1>2 DEF Topic

\* The same for the callback of UpdateSubscription.
LEMMA SubscriptionWithData ==
  ASSUME NEW sub \in Subscription, NEW v \in SubData
  PROVE  /\ [sub EXCEPT !.data = v] \in Subscription
         /\ [sub EXCEPT !.data = v].ARN = sub.ARN
         /\ [sub EXCEPT !.data = v].TopicARN = sub.TopicARN
<1>1. PICK t \in TopicARN, u \in UUID, w \in SubData :
        sub = [ARN |-> SubscriptionARN(t, u), TopicARN |-> t, data |-> w]
  BY DEF Subscription
<1>2. [sub EXCEPT !.data = v]
        = [ARN |-> SubscriptionARN(t, u), TopicARN |-> t, data |-> v]
  BY <1>1
<1>3. QED
  BY <1>1, <1>2 DEF Subscription

\* A record of a table carries identifiers of the right kind.
LEMMA RecordKeys ==
  /\ \A t \in Topic : t.ARN \in TopicARN /\ t.Name \in TopicName
                      /\ t.ARN = FormatARN(t.Name)
  /\ \A sub \in Subscription : sub.ARN \in SubARN /\ sub.TopicARN \in TopicARN
BY DEF Topic, TopicARN, Subscription, SubARN

\* An operation that does not fail leads from a well-typed state to one.
LEMMA ApplyOpType ==
  ASSUME NEW s \in StateType, NEW o \in Operation, ~OpFails(s, o)
  PROVE  ApplyOp(s, o) \in StateType
<1>0. /\ s.topics \in Map(TopicARN, Topic)
      /\ s.topicsByName \in Map(TopicName, TopicARN)
      /\ s.subscriptions \in Map(SubARN, Subscription)
      /\ s.subsByTopic \in Map(TopicARN, SUBSET SubARN)
      /\ s.confirmation \in Map(Token, ConfirmationToken)
      /\ s.deliveryJobs \in Map(JobID, DeliveryJob)
  BY DEF StateType
<1>1. CASE o.op = "CreateTopic"
  <2>1. o.topic \in Topic
    BY <1>1 DEF Operation
  <2>2. ApplyOp(s, o) = CreateTopic(s, o.topic)
    BY <1>1 DEF ApplyOp
  <2>3. Put(s.topics, o.topic.ARN, o.topic) \in Map(TopicARN, Topic)
    BY <1>0, <2>1, MapPut, RecordKeys
  <2>4. Put(s.topicsByName, o.topic.Name, o.topic.ARN) \in Map(TopicName, TopicARN)
    BY <1>0, <2>1, MapPut, RecordKeys
  <2>5. QED
    BY <2>2, <2>3, <2>4 DEF CreateTopic, StateType
<1>2. CASE o.op = "UpdateTopic"
  <2>1. o.arn \in DOMAIN s.topics /\ o.data \in TopicData
    BY <1>2 DEF Operation, OpFails, HasTopic
  <2>2. s.topics[o.arn] \in Topic /\ o.arn \in TopicARN
    BY <1>0, <2>1, MapApply
  <2> DEFINE t == [s.topics[o.arn] EXCEPT !.data = o.data]
  <2>3. t \in Topic
    BY <2>1, <2>2, TopicWithData
  <2>4. ApplyOp(s, o) = UpdateTopic(s, o.arn, t)
    BY <1>2 DEF ApplyOp
  <2> HIDE DEF t
  <2>5. Put(s.topics, o.arn, t) \in Map(TopicARN, Topic)
    BY <1>0, <2>2, <2>3, MapPut
  <2>6. QED
    BY <2>4, <2>5 DEF UpdateTopic, StateType
<1>3. CASE o.op = "DeleteTopic"
  <2>1. ApplyOp(s, o) = DeleteTopic(s, o.arn)
    BY <1>3 DEF ApplyOp
  <2>2. RemoveTopic(s, o.arn) \in StateType
    BY <1>0, MapDrop DEF RemoveTopic, StateType
  <2>3. QED
    BY <2>1, <2>2 DEF DeleteTopic
<1>4. CASE o.op = "CreateSubscription"
  <2>1. o.sub \in Subscription
    BY <1>4 DEF Operation
  <2>2. ApplyOp(s, o) = CreateSubscription(s, o.sub)
    BY <1>4 DEF ApplyOp
  <2> DEFINE members == SubARNsOf(s, o.sub.TopicARN) \cup {o.sub.ARN}
  <2>3. members \in SUBSET SubARN
    BY <2>1, SubARNsOfType, RecordKeys
  <2> HIDE DEF members
  <2>4. Put(s.subscriptions, o.sub.ARN, o.sub) \in Map(SubARN, Subscription)
    BY <1>0, <2>1, MapPut, RecordKeys
  <2>5. Put(s.subsByTopic, o.sub.TopicARN, members) \in Map(TopicARN, SUBSET SubARN)
    BY <1>0, <2>1, <2>3, MapPut, RecordKeys
  <2>6. QED
    BY <2>2, <2>4, <2>5 DEF CreateSubscription, StateType, members
<1>5. CASE o.op = "UpdateSubscription"
  <2>1. o.arn \in DOMAIN s.subscriptions /\ o.data \in SubData
    BY <1>5 DEF Operation, OpFails, HasSubscription
  <2>2. s.subscriptions[o.arn] \in Subscription /\ o.arn \in SubARN
    BY <1>0, <2>1, MapApply
  <2> DEFINE sub == [s.subscriptions[o.arn] EXCEPT !.data = o.data]
  <2>3. sub \in Subscription
    BY <2>1, <2>2, SubscriptionWithData
  <2>4. ApplyOp(s, o) = UpdateSubscription(s, o.arn, sub)
    BY <1>5 DEF ApplyOp
  <2> HIDE DEF sub
  <2>5. Put(s.subscriptions, o.arn, sub) \in Map(SubARN, Subscription)
    BY <1>0, <2>2, <2>3, MapPut
  <2>6. QED
    BY <2>4, <2>5 DEF UpdateSubscription, StateType
<1>6. CASE o.op = "DeleteSubscription"
  <2>1. o.arn \in DOMAIN s.subscriptions
    BY <1>6 DEF OpFails, HasSubscription
  <2>2. ApplyOp(s, o) = DeleteSubscription(s, o.arn)
    BY <1>6 DEF ApplyOp
  <2> DEFINE topicARN == s.subscriptions[o.arn].TopicARN
             members == SubARNsOf(s, topicARN) \ {o.arn}
             index == IF topicARN \in DOMAIN s.subsByTopic
                      THEN Put(s.subsByTopic, topicARN, members)
                      ELSE s.subsByTopic
             tokens == Drop(s.confirmation,
                            {t \in DOMAIN s.confirmation :
                               s.confirmation[t].SubscriptionARN = o.arn})
             subs == Drop(s.subscriptions, {o.arn})
  <2>3. topicARN \in TopicARN
    BY <1>0, <2>1, MapApply, RecordKeys
  <2>4. members \in SUBSET SubARN
    BY SubARNsOfType
  <2>5. index \in Map(TopicARN, SUBSET SubARN)
    BY <1>0, <2>3, <2>4, MapPut
  <2>6. subs \in Map(SubARN, Subscription)
    BY <1>0, MapDrop
  <2>7. tokens \in Map(Token, ConfirmationToken)
    BY <1>0, MapDrop
  <2>8. DeleteSubscription(s, o.arn)
          = [s EXCEPT !.subscriptions = subs, !.subsByTopic = index,
                      !.confirmation = tokens]
    BY DEF DeleteSubscription
  <2> HIDE DEF index, tokens, subs
  <2>9. QED
    BY <2>2, <2>5, <2>6, <2>7, <2>8 DEF StateType
<1>7. CASE o.op = "PutConfirmationToken"
  <2>1. o.token \in ConfirmationToken /\ o.token.Token \in Token
    BY <1>7 DEF Operation, ConfirmationToken
  <2>2. ApplyOp(s, o) = PutConfirmationToken(s, o.token)
    BY <1>7 DEF ApplyOp
  <2>3. Put(s.confirmation, o.token.Token, o.token) \in Map(Token, ConfirmationToken)
    BY <1>0, <2>1, MapPut
  <2>4. QED
    BY <2>2, <2>3 DEF PutConfirmationToken, StateType
<1>8. CASE o.op = "DeleteConfirmationToken"
  <2>1. ApplyOp(s, o) = DeleteConfirmationToken(s, o.token)
    BY <1>8 DEF ApplyOp
  <2>2. Drop(s.confirmation, {o.token}) \in Map(Token, ConfirmationToken)
    BY <1>0, MapDrop
  <2>3. QED
    BY <2>1, <2>2 DEF DeleteConfirmationToken, StateType
<1>9. CASE o.op = "EnqueueDeliveryJob"
  <2>1. o.job \in DeliveryJob /\ o.job.ID \in JobID
    BY <1>9 DEF Operation, DeliveryJob
  <2>2. ApplyOp(s, o) = EnqueueDeliveryJob(s, o.job)
    BY <1>9 DEF ApplyOp
  <2>3. Put(s.deliveryJobs, o.job.ID, o.job) \in Map(JobID, DeliveryJob)
    BY <1>0, <2>1, MapPut
  <2>4. QED
    BY <2>2, <2>3 DEF EnqueueDeliveryJob, StateType
<1>10. CASE o.op = "UpdateDeliveryJob"
  <2>1. o.id \in DOMAIN s.deliveryJobs /\ o.data \in JobData
    BY <1>10 DEF Operation, OpFails, HasDeliveryJob
  <2>2. s.deliveryJobs[o.id] \in DeliveryJob /\ o.id \in JobID
    BY <1>0, <2>1, MapApply
  <2> DEFINE job == [s.deliveryJobs[o.id] EXCEPT !.data = o.data]
  <2>3. job \in DeliveryJob
    BY <2>1, <2>2 DEF DeliveryJob
  <2>4. ApplyOp(s, o) = UpdateDeliveryJob(s, o.id, job)
    BY <1>10 DEF ApplyOp
  <2> HIDE DEF job
  <2>5. Put(s.deliveryJobs, o.id, job) \in Map(JobID, DeliveryJob)
    BY <1>0, <2>2, <2>3, MapPut
  <2>6. QED
    BY <2>4, <2>5 DEF UpdateDeliveryJob, StateType
<1>11. QED
  BY <1>1, <1>2, <1>3, <1>4, <1>5, <1>6, <1>7, <1>8, <1>9, <1>10 DEF Operation
-----------------------------------------------------------------------------
(***************************************************************************)
(* Each operation keeps the indexes in agreement with the tables.          *)
(***************************************************************************)

\* The topic index only depends on the topic table and the name index.
LEMMA TopicIndexFrame ==
  ASSUME NEW s, NEW r, TopicIndexAgrees(s),
         r.topics = s.topics, r.topicsByName = s.topicsByName
  PROVE  TopicIndexAgrees(r)
BY DEF TopicIndexAgrees

\* The subscription index only depends on the subscriptions and the index.
LEMMA SubscriptionIndexFrame ==
  ASSUME NEW s, NEW r, SubscriptionIndexAgrees(s),
         r.subscriptions = s.subscriptions, r.subsByTopic = s.subsByTopic
  PROVE  SubscriptionIndexAgrees(r)
BY DEF SubscriptionIndexAgrees, SubARNsOf

\* CreateTopic adds the topic to both, and ARNs are unique to their name.
LEMMA CreateTopicIndexes ==
  ASSUME NEW s \in StateType, IndexesAgree(s), NEW topic \in Topic,
         ~CreateTopicConflict(s, topic)
  PROVE  IndexesAgree(CreateTopic(s, topic))
<1> DEFINE r == CreateTopic(s, topic)
<1>1. /\ r.topics = Put(s.topics, topic.ARN, topic)
      /\ r.topicsByName = Put(s.topicsByName, topic.Name, topic.ARN)
      /\ r.subscriptions = s.subscriptions
      /\ r.subsByTopic = s.subsByTopic
  BY DEF CreateTopic, StateType
<1>2. topic.ARN = FormatARN(topic.Name)
  BY RecordKeys
<1> HIDE DEF r
<1>3. TopicIndexAgrees(r)
  BY <1>1, <1>2 DEF IndexesAgree, TopicIndexAgrees, Put, CreateTopicConflict, FormatARN
<1>4. SubscriptionIndexAgrees(r)
  BY <1>1, SubscriptionIndexFrame DEF IndexesAgree
<1>5. QED
  BY <1>3, <1>4 DEF IndexesAgree, r

\* A topic keeps its name and ARN when it is updated.
LEMMA UpdateTopicIndexes ==
  ASSUME NEW s \in StateType, IndexesAgree(s), NEW arn \in DOMAIN s.topics,
         NEW topic, topic.Name = s.topics[arn].Name
  PROVE  IndexesAgree(UpdateTopic(s, arn, topic))
<1> DEFINE r == UpdateTopic(s, arn, topic)
<1>1. /\ r.topics = Put(s.topics, arn, topic)
      /\ r.topicsByName = s.topicsByName
      /\ r.subscriptions = s.subscriptions
      /\ r.subsByTopic = s.subsByTopic
  BY DEF UpdateTopic, StateType
<1> HIDE DEF r
<1>2. TopicIndexAgrees(r)
  BY <1>1 DEF IndexesAgree, TopicIndexAgrees, Put
<1>3. SubscriptionIndexAgrees(r)
  BY <1>1, SubscriptionIndexFrame DEF IndexesAgree
<1>4. QED
  BY <1>2, <1>3 DEF IndexesAgree, r

\* Deleting a topic removes its name, its index entry, and exactly the
\* subscriptions the entry names.
LEMMA DeleteTopicIndexes ==
  ASSUME NEW s \in StateType, IndexesAgree(s), NEW arn
  PROVE  IndexesAgree(DeleteTopic(s, arn))
<1>1. CASE arn \notin DOMAIN s.topics
  BY <1>1 DEF DeleteTopic, HasTopic
<1>2. CASE arn \in DOMAIN s.topics
  <2> DEFINE r == RemoveTopic(s, arn)
  <2>1. /\ r.topics = Drop(s.topics, {arn})
        /\ r.topicsByName = Drop(s.topicsByName, {s.topics[arn].Name})
        /\ r.subscriptions = Drop(s.subscriptions, SubARNsOf(s, arn))
        /\ r.subsByTopic = Drop(s.subsByTopic, {arn})
    BY DEF RemoveTopic
  <2> HIDE DEF r
  <2>2. TopicIndexAgrees(r)
    BY <1>2, <2>1 DEF IndexesAgree, TopicIndexAgrees, Drop, Restrict, FormatARN
  <2>3. SubscriptionIndexAgrees(r)
    BY <2>1 DEF IndexesAgree, SubscriptionIndexAgrees, SubARNsOf, Drop, Restrict
  <2>4. QED
    BY <1>2, <2>2, <2>3 DEF IndexesAgree, r, DeleteTopic, HasTopic
<1>3. QED
  BY <1>1, <1>2

\* A subscription ARN names its topic, so a subscription that is created
\* again, as ConfirmSubscription does to restore one, stays in one index.
LEMMA CreateSubscriptionIndexes ==
  ASSUME NEW s \in StateType, IndexesAgree(s), NEW sub \in Subscription
  PROVE  IndexesAgree(CreateSubscription(s, sub))
<1> DEFINE r == CreateSubscription(s, sub)
           members == SubARNsOf(s, sub.TopicARN) \cup {sub.ARN}
<1>1. /\ r.subscriptions = Put(s.subscriptions, sub.ARN, sub)
      /\ r.subsByTopic = Put(s.subsByTopic, sub.TopicARN, members)
      /\ r.topics = s.topics
      /\ r.topicsByName = s.topicsByName
  BY DEF CreateSubscription, StateType
<1>2. ASSUME sub.ARN \in DOMAIN s.subscriptions
      PROVE  s.subscriptions[sub.ARN].TopicARN = sub.TopicARN
  <2>1. s.subscriptions[sub.ARN] \in Subscription
    BY <1>2, MapApply DEF StateType
  <2>2. s.subscriptions[sub.ARN].ARN = sub.ARN
    BY <1>2 DEF IndexesAgree, SubscriptionIndexAgrees
  <2>3. \A x \in Subscription : x.TopicARN = x.ARN[1]
    BY DEF Subscription, SubscriptionARN
  <2>4. QED
    BY <2>1, <2>2, <2>3
<1> HIDE DEF r
<1>3. SubscriptionIndexAgrees(r)
  BY <1>1, <1>2 DEF IndexesAgree, SubscriptionIndexAgrees, SubARNsOf, Put
<1>4. TopicIndexAgrees(r)
  BY <1>1, TopicIndexFrame DEF IndexesAgree
<1>5. QED
  BY <1>3, <1>4 DEF IndexesAgree, r

\* A subscription keeps its ARN and its topic when it is updated.
LEMMA UpdateSubscriptionIndexes ==
  ASSUME NEW s \in StateType, IndexesAgree(s), NEW arn \in DOMAIN s.subscriptions,
         NEW sub, sub.ARN = s.subscriptions[arn].ARN,
         sub.TopicARN = s.subscriptions[arn].TopicARN
  PROVE  IndexesAgree(UpdateSubscription(s, arn, sub))
<1> DEFINE r == UpdateSubscription(s, arn, sub)
<1>1. /\ r.subscriptions = Put(s.subscriptions, arn, sub)
      /\ r.subsByTopic = s.subsByTopic
      /\ r.topics = s.topics
      /\ r.topicsByName = s.topicsByName
  BY DEF UpdateSubscription, StateType
<1> HIDE DEF r
<1>2. SubscriptionIndexAgrees(r)
  BY <1>1 DEF IndexesAgree, SubscriptionIndexAgrees, SubARNsOf, Put
<1>3. TopicIndexAgrees(r)
  BY <1>1, TopicIndexFrame DEF IndexesAgree
<1>4. QED
  BY <1>2, <1>3 DEF IndexesAgree, r

\* Deleting a subscription removes it from the table and from its topic's
\* index entry.
LEMMA DeleteSubscriptionIndexes ==
  ASSUME NEW s \in StateType, IndexesAgree(s), NEW arn \in DOMAIN s.subscriptions
  PROVE  IndexesAgree(DeleteSubscription(s, arn))
<1> DEFINE r == DeleteSubscription(s, arn)
           topicARN == s.subscriptions[arn].TopicARN
           members == SubARNsOf(s, topicARN) \ {arn}
<1>1. topicARN \in DOMAIN s.subsByTopic
  BY DEF IndexesAgree, SubscriptionIndexAgrees, SubARNsOf
<1>2. /\ r.subscriptions = Drop(s.subscriptions, {arn})
      /\ r.subsByTopic = Put(s.subsByTopic, topicARN, members)
      /\ r.topics = s.topics
      /\ r.topicsByName = s.topicsByName
  BY <1>1 DEF DeleteSubscription, StateType
<1> HIDE DEF r
<1>3. SubscriptionIndexAgrees(r)
  <2>1. /\ DOMAIN r.subscriptions = DOMAIN s.subscriptions \ {arn}
        /\ \A a \in DOMAIN r.subscriptions : r.subscriptions[a] = s.subscriptions[a]
    BY <1>2 DEF Drop, Restrict
  <2>2. /\ DOMAIN r.subsByTopic = DOMAIN s.subsByTopic
        /\ r.subsByTopic[topicARN] = s.subsByTopic[topicARN] \ {arn}
        /\ \A t \in DOMAIN s.subsByTopic : t # topicARN => r.subsByTopic[t] = s.subsByTopic[t]
    BY <1>1, <1>2 DEF Put, SubARNsOf
  <2> HIDE DEF topicARN, members
  <2>3. ASSUME NEW a \in DOMAIN r.subscriptions
        PROVE  /\ r.subscriptions[a].ARN = a
               /\ r.subscriptions[a].TopicARN \in DOMAIN r.subsByTopic
               /\ a \in r.subsByTopic[r.subscriptions[a].TopicARN]
    <3>1. a \in DOMAIN s.subscriptions /\ a # arn /\ r.subscriptions[a] = s.subscriptions[a]
      BY <2>1
    <3>2. /\ s.subscriptions[a].ARN = a
          /\ s.subscriptions[a].TopicARN \in DOMAIN s.subsByTopic
          /\ a \in s.subsByTopic[s.subscriptions[a].TopicARN]
      BY <3>1 DEF IndexesAgree, SubscriptionIndexAgrees, SubARNsOf
    <3>3. QED
      BY <2>2, <3>1, <3>2
  <2>4. ASSUME NEW t \in DOMAIN r.subsByTopic, NEW a \in r.subsByTopic[t]
        PROVE  a \in DOMAIN r.subscriptions /\ r.subscriptions[a].TopicARN = t
    <3>1. t \in DOMAIN s.subsByTopic /\ a \in s.subsByTopic[t]
      BY <2>2
    <3>2. a \in DOMAIN s.subscriptions /\ s.subscriptions[a].TopicARN = t
      BY <3>1 DEF IndexesAgree, SubscriptionIndexAgrees
    <3>3. a # arn
      BY <2>2, <3>2 DEF topicARN
    <3>4. QED
      BY <2>1, <3>2, <3>3
  <2>5. QED
    BY <2>3, <2>4 DEF SubscriptionIndexAgrees, SubARNsOf
<1>4. TopicIndexAgrees(r)
  BY <1>2, TopicIndexFrame DEF IndexesAgree
<1>5. QED
  BY <1>3, <1>4 DEF IndexesAgree, r

\* An operation that does not fail keeps the indexes in agreement.
LEMMA ApplyOpIndexes ==
  ASSUME NEW s \in StateType, IndexesAgree(s), NEW o \in Operation, ~OpFails(s, o)
  PROVE  IndexesAgree(ApplyOp(s, o))
<1>1. CASE o.op = "CreateTopic"
  <2>1. o.topic \in Topic /\ ~CreateTopicConflict(s, o.topic)
    BY <1>1 DEF Operation, OpFails
  <2>2. ApplyOp(s, o) = CreateTopic(s, o.topic)
    BY <1>1 DEF ApplyOp
  <2>3. QED
    BY <2>1, <2>2, CreateTopicIndexes
<1>2. CASE o.op = "UpdateTopic"
  <2>1. o.arn \in DOMAIN s.topics /\ o.data \in TopicData
    BY <1>2 DEF Operation, OpFails, HasTopic
  <2> DEFINE t == [s.topics[o.arn] EXCEPT !.data = o.data]
  <2>2. t.Name = s.topics[o.arn].Name
    BY <2>1, MapApply, TopicWithData DEF StateType
  <2>3. ApplyOp(s, o) = UpdateTopic(s, o.arn, t)
    BY <1>2 DEF ApplyOp
  <2> HIDE DEF t
  <2>4. QED
    BY <2>1, <2>2, <2>3, UpdateTopicIndexes
<1>3. CASE o.op = "DeleteTopic"
  <2>1. ApplyOp(s, o) = DeleteTopic(s, o.arn)
    BY <1>3 DEF ApplyOp
  <2>2. QED
    BY <2>1, DeleteTopicIndexes
<1>4. CASE o.op = "CreateSubscription"
  <2>1. o.sub \in Subscription
    BY <1>4 DEF Operation
  <2>2. ApplyOp(s, o) = CreateSubscription(s, o.sub)
    BY <1>4 DEF ApplyOp
  <2>3. QED
    BY <2>1, <2>2, CreateSubscriptionIndexes
<1>5. CASE o.op = "UpdateSubscription"
  <2>1. o.arn \in DOMAIN s.subscriptions /\ o.data \in SubData
    BY <1>5 DEF Operation, OpFails, HasSubscription
  <2> DEFINE sub == [s.subscriptions[o.arn] EXCEPT !.data = o.data]
  <2>2. s.subscriptions[o.arn] \in Subscription
    BY <2>1, MapApply DEF StateType
  <2>3. /\ sub.ARN = s.subscriptions[o.arn].ARN
        /\ sub.TopicARN = s.subscriptions[o.arn].TopicARN
    BY <2>1, <2>2, SubscriptionWithData
  <2>4. ApplyOp(s, o) = UpdateSubscription(s, o.arn, sub)
    BY <1>5 DEF ApplyOp
  <2> HIDE DEF sub
  <2>5. QED
    BY <2>1, <2>3, <2>4, UpdateSubscriptionIndexes
<1>6. CASE o.op = "DeleteSubscription"
  <2>1. o.arn \in DOMAIN s.subscriptions
    BY <1>6 DEF OpFails, HasSubscription
  <2>2. ApplyOp(s, o) = DeleteSubscription(s, o.arn)
    BY <1>6 DEF ApplyOp
  <2>3. QED
    BY <2>1, <2>2, DeleteSubscriptionIndexes
<1>7. CASE o.op \in {"PutConfirmationToken", "DeleteConfirmationToken",
                     "EnqueueDeliveryJob", "UpdateDeliveryJob"}
  <2> DEFINE r == ApplyOp(s, o)
  <2>1. \/ r = PutConfirmationToken(s, o.token)
        \/ r = DeleteConfirmationToken(s, o.token)
        \/ r = EnqueueDeliveryJob(s, o.job)
        \/ \E job : r = UpdateDeliveryJob(s, o.id, job)
    BY <1>7 DEF ApplyOp
  <2> HIDE DEF r
  <2>2. /\ r.topics = s.topics
        /\ r.topicsByName = s.topicsByName
        /\ r.subscriptions = s.subscriptions
        /\ r.subsByTopic = s.subsByTopic
    BY <2>1 DEF StateType, PutConfirmationToken, DeleteConfirmationToken,
                EnqueueDeliveryJob, UpdateDeliveryJob
  <2>3. QED
    BY <2>2, TopicIndexFrame, SubscriptionIndexFrame DEF IndexesAgree, r
<1>8. QED
  BY <1>1, <1>2, <1>3, <1>4, <1>5, <1>6, <1>7 DEF Operation

\* The worker's deletion of a job touches neither a table with an index nor
\* the type of the job table.
LEMMA DeleteDeliveryJobOK ==
  ASSUME NEW s \in StateType, IndexesAgree(s), NEW id
  PROVE  /\ DeleteDeliveryJob(s, id) \in StateType
         /\ IndexesAgree(DeleteDeliveryJob(s, id))
<1> DEFINE r == DeleteDeliveryJob(s, id)
<1>1. Drop(s.deliveryJobs, {id}) \in Map(JobID, DeliveryJob)
  BY MapDrop DEF StateType
<1>2. r \in StateType
  BY <1>1 DEF DeleteDeliveryJob, StateType
<1>3. /\ r.topics = s.topics
      /\ r.topicsByName = s.topicsByName
      /\ r.subscriptions = s.subscriptions
      /\ r.subsByTopic = s.subsByTopic
  BY DEF DeleteDeliveryJob, StateType
<1> HIDE DEF r
<1>4. IndexesAgree(r)
  BY <1>3, TopicIndexFrame, SubscriptionIndexFrame DEF IndexesAgree
<1>5. QED
  BY <1>2, <1>4 DEF r

-----------------------------------------------------------------------------
(***************************************************************************)
(* The invariants of MemoryStore.                                          *)
(***************************************************************************)

\* Short tuples are sequences.
LEMMA TuplesAreSequences ==
  ASSUME NEW S
  PROVE  /\ <<>> \in Seq(S)
         /\ \A a \in S : <<a>> \in Seq(S)
         /\ \A a \in S, b \in S : <<a, b>> \in Seq(S)
         /\ \A a \in S, b \in S, d \in S : <<a, b, d>> \in Seq(S)
OBVIOUS

\* Every transaction is a sequence of operations.
LEMMA TransactionType == Transactions \subseteq Seq(Operation)
<1>1. \A id \in JobID, arn \in TopicARN, v \in JobData :
        Enqueue(JobFor(id, arn, v)) \in Operation
  BY DEF Enqueue, JobFor, Operation, DeliveryJob
<1>2. \A t \in Token, sub \in Subscription : PutTokenFor(t, sub) \in Operation
  BY RecordKeys DEF PutTokenFor, Operation, ConfirmationToken
<1>3. \A sub \in Subscription :
        /\ [op |-> "CreateSubscription", sub |-> sub] \in Operation
        /\ [op |-> "DeleteSubscription", arn |-> sub.ARN] \in Operation
        /\ sub.TopicARN \in TopicARN
  BY RecordKeys DEF Operation
<1>4. SingleTransactions \subseteq Seq(Operation)
  BY TuplesAreSequences DEF SingleTransactions
<1>5. SubscribeTransactions \subseteq Seq(Operation)
  <2>1. SUFFICES ASSUME NEW ops \in SubscribeTransactions
                 PROVE  ops \in Seq(Operation)
    OBVIOUS
  <2>2. PICK sub \in Subscription, t \in Token, id \in JobID, v \in JobData :
          ops = << [op |-> "CreateSubscription", sub |-> sub], PutTokenFor(t, sub),
                   Enqueue(JobFor(id, sub.TopicARN, v)) >>
    BY DEF SubscribeTransactions
  <2>3. QED
    BY <1>1, <1>2, <1>3, <2>2, TuplesAreSequences
<1>6. UnsubscribeTransactions \subseteq Seq(Operation)
  <2>1. SUFFICES ASSUME NEW sub \in Subscription, NEW t \in Token,
                        NEW id \in JobID, NEW v \in JobData
                 PROVE  << [op |-> "DeleteSubscription", arn |-> sub.ARN],
                           PutTokenFor(t, sub),
                           Enqueue(JobFor(id, sub.TopicARN, v)) >> \in Seq(Operation)
    BY DEF UnsubscribeTransactions
  <2>2. QED
    BY <1>1, <1>2, <1>3, TuplesAreSequences
<1>7. DispatchTransactions \subseteq Seq(Operation)
  <2>1. ASSUME NEW id1 \in JobID, NEW id2 \in JobID,
               NEW arn \in TopicARN, NEW v \in JobData
        PROVE  << Enqueue(JobFor(id1, arn, v)),
                  Enqueue(JobFor(id2, arn, v)) >> \in Seq(Operation)
    BY <1>1, TuplesAreSequences
  <2>2. <<>> \in Seq(Operation)
    BY TuplesAreSequences
  <2>3. ASSUME NEW ops \in DispatchTransactions, ops # <<>>
        PROVE  ops \in Seq(Operation)
    <3>1. PICK id1 \in JobID, id2 \in JobID, arn \in TopicARN, v \in JobData :
            ops = << Enqueue(JobFor(id1, arn, v)), Enqueue(JobFor(id2, arn, v)) >>
      BY <2>3 DEF DispatchTransactions
    <3>2. QED
      BY <2>1, <3>1
  <2>4. QED
    BY <2>2, <2>3
<1>8. QED
  BY <1>4, <1>5, <1>6, <1>7 DEF Transactions

StoreInv == TypeOK /\ NoDanglingIndex

\* The store starts well typed and with indexes in agreement.
LEMMA InitStoreInv == Init => StoreInv
BY EmptyStateOK DEF Init, StoreInv, TypeOK, NoDanglingIndex

\* No step of any client, nor of the worker, breaks the invariant.
LEMMA NextStoreInv == StoreInv /\ [Next]_vars => StoreInv'
<1> SUFFICES ASSUME StoreInv, [Next]_vars PROVE StoreInv'
  OBVIOUS
<1> USE DEF StoreInv, TypeOK, NoDanglingIndex
<1>1. ASSUME NEW c \in Client, NEW ops \in Transactions, Begin(c, ops)
      PROVE  StoreInv'
  BY <1>1, TransactionType DEF Begin
<1>2. ASSUME NEW c \in Client, RunOp(c)
      PROVE  StoreInv'
  <2>1. Head(todo[c]) \in Operation /\ Tail(todo[c]) \in Seq(Operation)
    BY <1>2 DEF RunOp
  <2> DEFINE new == ApplyOp(working[c], Head(todo[c]))
  <2>2. new \in StateType /\ IndexesAgree(new)
    BY <1>2, <2>1, ApplyOpType, ApplyOpIndexes DEF RunOp
  <2>3. /\ working' = [working EXCEPT ![c] = new]
        /\ todo' = [todo EXCEPT ![c] = Tail(todo[c])]
        /\ UNCHANGED <<state, phase>>
    BY <1>2 DEF RunOp
  <2> HIDE DEF new
  <2>4. QED
    BY <2>1, <2>2, <2>3
<1>3. ASSUME NEW c \in Client, Rollback(c)
      PROVE  StoreInv'
  BY <1>3, EmptyStateOK DEF Rollback, Finish
<1>4. ASSUME NEW c \in Client, Commit(c)
      PROVE  StoreInv'
  BY <1>4, EmptyStateOK DEF Commit, Finish
<1>5. ASSUME NEW id \in JobID, DeleteJobInPlace(id)
      PROVE  StoreInv'
  BY <1>5, DeleteDeliveryJobOK DEF DeleteJobInPlace
<1>6. CASE UNCHANGED vars
  BY <1>6 DEF vars
<1>7. QED
  BY <1>1, <1>2, <1>3, <1>4, <1>5, <1>6 DEF Next

\* The committed state and every clone are always well typed.
THEOREM TypeCorrect == Spec => []TypeOK
<1>1. StoreInv => TypeOK
  BY DEF StoreInv
<1>2. QED
  BY <1>1, InitStoreInv, NextStoreInv, PTL DEF Spec

\* For any number of overlapping transactions, lost updates included, the
\* name index and the per-topic index agree with the tables they index.
THEOREM IndexesNeverDangle == Spec => []NoDanglingIndex
<1>1. StoreInv => NoDanglingIndex
  BY DEF StoreInv
<1>2. QED
  BY <1>1, InitStoreInv, NextStoreInv, PTL DEF Spec

-----------------------------------------------------------------------------
(***************************************************************************)
(* The store implements SnapshotStore: a callback that runs operation by   *)
(* operation leads to the outcome that was fixed when the state was cloned. *)
(* This is an induction on the operations, in which sets of natural        *)
(* numbers stand for the predicates.                                       *)
(***************************************************************************)
\* A set that holds 0 and the successor of each of its elements holds all
\* natural numbers: there is no least one that it leaves out.
LEMMA SetInduction ==
  ASSUME NEW T \in SUBSET Nat, 0 \in T, \A n \in T : n + 1 \in T
  PROVE  T = Nat
<1>1. SUFFICES ASSUME Nat \ T # {} PROVE FALSE
  OBVIOUS
<1>2. PICK x \in Nat \ T : \A y \in Nat \ T : <<y, x>> \notin OpToRel(<, Nat)
  BY <1>1, NatLessThanWellFounded, WFMin
<1>3. OpToRel(<, Nat) = {ss \in Nat \X Nat : ss[1] < ss[2]}
  BY DEF OpToRel
<1>4. x \in Nat /\ x \notin T /\ \A y \in Nat \ T : ~(y < x)
  BY <1>2, <1>3
<1>5. x # 0 /\ x - 1 \in Nat /\ x - 1 < x /\ (x - 1) + 1 = x
  BY <1>4
<1>6. x - 1 \in T
  BY <1>4, <1>5
<1>7. QED
  BY <1>4, <1>5, <1>6

\* What the next operation makes of the outcome of those before it.
After(s, o) == IF s = NoState \/ OpFails(s, o) THEN NoState ELSE ApplyOp(s, o)

\* f holds the outcome of each of the first m operations.
Outcomes(s, ops, m, f) ==
  f = [n \in 0..m |-> IF n = 0 THEN s ELSE After(f[n - 1], ops[n])]

\* The callback comes to some outcome after every operation.
LEMMA OutcomesExist ==
  ASSUME NEW s, NEW ops, NEW m \in Nat
  PROVE  \E f : Outcomes(s, ops, m, f)
<1> DEFINE T == { n \in Nat : \E f : Outcomes(s, ops, n, f) }
<1>1. 0 \in T
  <2>1. Outcomes(s, ops, 0, [n \in 0..0 |-> s])
    BY DEF Outcomes
  <2>2. QED
    BY <2>1
<1>2. ASSUME NEW n \in T PROVE n + 1 \in T
  <2>1. n \in Nat
    OBVIOUS
  <2>2. PICK f : Outcomes(s, ops, n, f)
    OBVIOUS
  <2> DEFINE g == [i \in 0..(n + 1) |-> IF i = n + 1 THEN After(f[n], ops[n + 1]) ELSE f[i]]
  <2>3. ASSUME NEW i \in 0..(n + 1)
        PROVE  g[i] = IF i = 0 THEN s ELSE After(g[i - 1], ops[i])
    <3>1. CASE i = n + 1
      <4>1. g[i] = After(f[n], ops[i]) /\ i # 0 /\ g[i - 1] = f[n]
        BY <2>1, <3>1
      <4>2. QED
        BY <4>1
    <3>2. CASE i # n + 1
      <4>1. i \in 0..n /\ g[i] = f[i] /\ (i # 0 => g[i - 1] = f[i - 1])
        BY <2>1, <3>2
      <4>2. QED
        BY <2>2, <4>1 DEF Outcomes
    <3>3. QED
      BY <3>1, <3>2
  <2>4. Outcomes(s, ops, n + 1, g)
    BY <2>3 DEF Outcomes
  <2>5. QED
    BY <2>1, <2>4
<1>3. T = Nat
  <2> HIDE DEF T
  <2>1. QED
    BY <1>1, <1>2, SetInduction DEF T
<1>4. QED
  BY <1>3

\* The outcome is what its definition by recursion says.
LEMMA OutcomeFacts ==
  ASSUME NEW S, NEW s, NEW ops \in Seq(S)
  PROVE  \E f : Outcomes(s, ops, Len(ops), f) /\ Outcome(s, ops) = f[Len(ops)]
<1> DEFINE f == CHOOSE g : Outcomes(s, ops, Len(ops), g)
<1>1. Outcomes(s, ops, Len(ops), f)
  <2>1. Len(ops) \in Nat
    OBVIOUS
  <2>2. QED
    BY <2>1, OutcomesExist
<1>2. Outcome(s, ops) = f[Len(ops)]
  BY DEF Outcome, Outcomes, After
<1>3. QED
  BY <1>1, <1>2

\* Of no operations the outcome is the state itself.
LEMMA OutcomeOfNone ==
  ASSUME NEW s
  PROVE  Outcome(s, <<>>) = s
<1>1. <<>> \in Seq({}) /\ Len(<<>>) = 0
  OBVIOUS
<1>2. PICK f : Outcomes(s, <<>>, Len(<<>>), f) /\ Outcome(s, <<>>) = f[Len(<<>>)]
  BY <1>1, OutcomeFacts
<1>3. f[0] = s
  BY <1>1, <1>2 DEF Outcomes
<1>4. QED
  BY <1>1, <1>2, <1>3

\* Performing the first operation leaves the outcome as it was.
LEMMA OutcomeOfRest ==
  ASSUME NEW S, NEW s, NEW ops \in Seq(S), ops # <<>>, s # NoState, ~OpFails(s, Head(ops))
  PROVE  Outcome(ApplyOp(s, Head(ops)), Tail(ops)) = Outcome(s, ops)
<1> DEFINE rest == Tail(ops)
           s1 == ApplyOp(s, Head(ops))
<1>1. /\ Len(ops) \in Nat /\ Len(ops) >= 1 /\ Head(ops) = ops[1]
      /\ rest \in Seq(S) /\ Len(rest) = Len(ops) - 1 /\ Len(rest) \in Nat
      /\ \A i \in 1..Len(rest) : rest[i] = ops[i + 1]
  OBVIOUS
<1>2. PICK f : Outcomes(s, ops, Len(ops), f) /\ Outcome(s, ops) = f[Len(ops)]
  BY OutcomeFacts
<1>3. PICK g : Outcomes(s1, rest, Len(rest), g) /\ Outcome(s1, rest) = g[Len(rest)]
  BY <1>1, OutcomeFacts, ZenonT(60)
<1>4. s1 = After(s, ops[1])
  BY <1>1 DEF After
<1> HIDE DEF rest, s1
<1> DEFINE T == { n \in Nat : n <= Len(rest) => g[n] = f[n + 1] }
<1>5. 0 \in T
  <2>1. g[0] = s1
    BY <1>1, <1>3 DEF Outcomes
  <2>2. f[0] = s /\ f[1] = After(f[0], ops[1])
    BY <1>1, <1>2 DEF Outcomes
  <2>3. QED
    BY <1>4, <2>1, <2>2
<1>6. ASSUME NEW n \in T PROVE n + 1 \in T
  <2>1. SUFFICES ASSUME n + 1 <= Len(rest) PROVE g[n + 1] = f[(n + 1) + 1]
    OBVIOUS
  <2> DEFINE i == n + 1
             j == i + 1
  <2>2. /\ n \in Nat /\ n <= Len(rest) /\ i \in 1..Len(rest) /\ i \in 0..Len(rest)
        /\ i # 0 /\ i - 1 = n /\ j \in 0..Len(ops) /\ j # 0 /\ j - 1 = i
    BY <1>1, <2>1
  <2>3. g[n] = f[i] /\ rest[i] = ops[j]
    BY <1>1, <2>2
  <2> HIDE DEF i, j
  <2>4. g[i] = After(g[n], rest[i])
    BY <1>3, <2>2 DEF Outcomes
  <2>5. f[j] = After(f[i], ops[j])
    BY <1>2, <2>2 DEF Outcomes
  <2>6. g[i] = f[j]
    BY <2>3, <2>4, <2>5
  <2>7. QED
    BY <2>6 DEF i, j
<1>7. T = Nat
  <2> HIDE DEF T
  <2>1. QED
    BY <1>5, <1>6, SetInduction DEF T
<1>8. g[Len(rest)] = f[Len(rest) + 1]
  BY <1>1, <1>7
<1>9. Len(rest) + 1 = Len(ops)
  BY <1>1
<1>10. QED
  BY <1>2, <1>3, <1>8, <1>9 DEF rest, s1

\* SnapshotStore speaks of the same operations on the same states.
LEMMA SameOperations ==
  /\ \A s, ops : Snapshot!Outcome(s, ops) = Outcome(s, ops)
  /\ \A s, id : Snapshot!DeleteDeliveryJob(s, id) = DeleteDeliveryJob(s, id)
  /\ Snapshot!Transactions = Transactions
  /\ Snapshot!EmptyState = EmptyState
<1>1. \A s, ops : Snapshot!Outcome(s, ops) = Outcome(s, ops)
  BY Zenon
  DEF Outcome, Snapshot!Outcome, OpFails, Snapshot!OpFails, ApplyOp, Snapshot!ApplyOp,
         CreateTopicConflict, Snapshot!CreateTopicConflict, CreateTopic,
         Snapshot!CreateTopic, HasTopic, Snapshot!HasTopic, UpdateTopic,
         Snapshot!UpdateTopic, SubARNsOf, Snapshot!SubARNsOf, RemoveTopic,
         Snapshot!RemoveTopic, DeleteTopic, Snapshot!DeleteTopic, CreateSubscription,
         Snapshot!CreateSubscription, HasSubscription, Snapshot!HasSubscription,
         UpdateSubscription, Snapshot!UpdateSubscription, DeleteSubscription,
         Snapshot!DeleteSubscription, PutConfirmationToken,
         Snapshot!PutConfirmationToken, DeleteConfirmationToken,
         Snapshot!DeleteConfirmationToken, EnqueueDeliveryJob,
         Snapshot!EnqueueDeliveryJob, HasDeliveryJob, Snapshot!HasDeliveryJob,
         UpdateDeliveryJob, Snapshot!UpdateDeliveryJob, DeleteDeliveryJob,
         Snapshot!DeleteDeliveryJob, Put, Snapshot!Put, Drop, Snapshot!Drop, Restrict,
         Snapshot!Restrict
<1>2. \A s, id : Snapshot!DeleteDeliveryJob(s, id) = DeleteDeliveryJob(s, id)
  BY Zenon DEF DeleteDeliveryJob, Snapshot!DeleteDeliveryJob, Drop, Snapshot!Drop, Restrict,
         Snapshot!Restrict
<1>3. Snapshot!Transactions = Transactions
  <2>1. Snapshot!TopicARN = TopicARN
    BY Zenon DEF TopicARN, Snapshot!TopicARN, FormatARN, Snapshot!FormatARN
  <2>2. Snapshot!Topic = Topic
    BY DEF Topic, Snapshot!Topic, FormatARN, Snapshot!FormatARN
  <2>3. Snapshot!SubARN = SubARN
    BY <2>1 DEF SubARN, Snapshot!SubARN, SubscriptionARN, Snapshot!SubscriptionARN
  <2>4. Snapshot!Subscription = Subscription
    BY <2>1 DEF Subscription, Snapshot!Subscription, SubscriptionARN,
                       Snapshot!SubscriptionARN
  <2>5. Snapshot!ConfirmationToken = ConfirmationToken
    BY <2>1, <2>3, Zenon DEF ConfirmationToken, Snapshot!ConfirmationToken
  <2>6. Snapshot!DeliveryJob = DeliveryJob
    BY <2>1, Zenon DEF DeliveryJob, Snapshot!DeliveryJob
  <2>7. Snapshot!Operation = Operation
    BY <2>1, <2>2, <2>3, <2>4, <2>5, <2>6, Zenon DEF Operation, Snapshot!Operation
  <2>8. Snapshot!SingleTransactions = SingleTransactions
    BY <2>7, Zenon DEF SingleTransactions, Snapshot!SingleTransactions
  <2>9. Snapshot!SubscribeTransactions = SubscribeTransactions
    BY <2>4
    DEF SubscribeTransactions, Snapshot!SubscribeTransactions, PutTokenFor,
        Snapshot!PutTokenFor, Enqueue, Snapshot!Enqueue, JobFor, Snapshot!JobFor
  <2>10. Snapshot!UnsubscribeTransactions = UnsubscribeTransactions
    BY <2>4
    DEF UnsubscribeTransactions, Snapshot!UnsubscribeTransactions, PutTokenFor,
        Snapshot!PutTokenFor, Enqueue, Snapshot!Enqueue, JobFor, Snapshot!JobFor
  <2>11. Snapshot!DispatchTransactions = DispatchTransactions
    BY <2>1
    DEF DispatchTransactions, Snapshot!DispatchTransactions, Enqueue, Snapshot!Enqueue,
        JobFor, Snapshot!JobFor
  <2>12. QED
    BY <2>8, <2>9, <2>10, <2>11, Zenon DEF Transactions, Snapshot!Transactions
<1>4. Snapshot!EmptyState = EmptyState
  BY Zenon DEF EmptyState, Snapshot!EmptyState, EmptyMap, Snapshot!EmptyMap
<1>5. QED
  BY <1>1, <1>2, <1>3, <1>4

\* The refinement mapping, under the name the proofs use.
Result == [c \in Client |-> PendingResult(c)]

\* A step that leaves the other clients alone changes one result.
LEMMA ResultChange ==
  ASSUME NEW c \in Client, NEW r, PendingResult(c)' = r,
         \A x \in Client \ {c} :
           phase'[x] = phase[x] /\ working'[x] = working[x] /\ todo'[x] = todo[x]
  PROVE  Result' = [Result EXCEPT ![c] = r]
<1>1. \A x \in Client : x # c => PendingResult(x)' = PendingResult(x)
  BY DEF PendingResult
<1>2. Result' = [x \in Client |-> PendingResult(x)']
  BY DEF Result
<1>3. QED
  BY <1>1, <1>2 DEF Result

\* Every step of the store is a step of SnapshotStore, or none.
LEMMA StepImplements ==
  ASSUME StoreInv, [Next]_vars
  PROVE  Snapshot!Next \/ (state' = state /\ Result' = Result)
<1> USE DEF StoreInv, TypeOK
<1>1. ASSUME NEW c \in Client, NEW ops \in Transactions, Begin(c, ops)
      PROVE  Snapshot!Compute(c)
  <2>1. phase[c] = "idle" /\ phase'[c] = "running" /\ working'[c] = state /\ todo'[c] = ops
        /\ state' = state
    BY <1>1 DEF Begin
  <2>2. PendingResult(c) = NoState /\ PendingResult(c)' = Outcome(state, ops)
    BY <2>1 DEF PendingResult
  <2>3. \A x \in Client \ {c} :
          phase'[x] = phase[x] /\ working'[x] = working[x] /\ todo'[x] = todo[x]
    BY <1>1 DEF Begin
  <2>4. Result' = [Result EXCEPT ![c] = Outcome(state, ops)]
    BY <2>2, <2>3, ResultChange
  <2>5. Result[c] = NoState
    BY <2>2 DEF Result
  <2>6. Outcome(state, ops) \in { Snapshot!Outcome(state, o) : o \in Snapshot!Transactions }
    BY SameOperations
  <2>7. QED
    BY <2>1, <2>4, <2>5, <2>6 DEF Snapshot!Compute, Result
<1>2. ASSUME NEW c \in Client, RunOp(c)
      PROVE  state' = state /\ Result' = Result
  <2>1. /\ phase[c] = "running" /\ phase' = phase /\ todo[c] # <<>> /\ state' = state
        /\ ~OpFails(working[c], Head(todo[c]))
        /\ working' = [working EXCEPT ![c] = ApplyOp(working[c], Head(todo[c]))]
        /\ todo' = [todo EXCEPT ![c] = Tail(todo[c])]
    BY <1>2 DEF RunOp
  <2>2. working[c] # NoState /\ todo[c] \in Seq(Operation)
    BY NoStateAssumption
  <2>3. working'[c] = ApplyOp(working[c], Head(todo[c])) /\ todo'[c] = Tail(todo[c])
    BY <2>1
  <2>4. Outcome(working'[c], todo'[c]) = Outcome(working[c], todo[c])
    BY <2>1, <2>2, <2>3, OutcomeOfRest
  <2>5. PendingResult(c)' = PendingResult(c)
    BY <2>1, <2>4 DEF PendingResult
  <2>6. \A x \in Client \ {c} :
          phase'[x] = phase[x] /\ working'[x] = working[x] /\ todo'[x] = todo[x]
    BY <2>1
  <2>7. Result' = [Result EXCEPT ![c] = PendingResult(c)]
    BY <2>5, <2>6, ResultChange
  <2>8. QED
    BY <2>1, <2>7 DEF Result
<1>3. ASSUME NEW c \in Client, Finish(c)
      PROVE  Result' = [Result EXCEPT ![c] = NoState]
  <2>1. phase'[c] = "idle"
    BY <1>3 DEF Finish
  <2>2. PendingResult(c)' = NoState
    BY <2>1 DEF PendingResult
  <2>3. \A x \in Client \ {c} :
          phase'[x] = phase[x] /\ working'[x] = working[x] /\ todo'[x] = todo[x]
    BY <1>3 DEF Finish
  <2>4. QED
    BY <2>2, <2>3, ResultChange
<1>4. ASSUME NEW c \in Client, Rollback(c)
      PROVE  Snapshot!Discard(c)
  BY <1>3, <1>4 DEF Rollback, Snapshot!Discard, Result
<1>5. ASSUME NEW c \in Client, Commit(c)
      PROVE  Snapshot!Install(c)
  <2>1. phase[c] = "running" /\ todo[c] = <<>> /\ state' = working[c] /\ Finish(c)
    BY <1>5 DEF Commit
  <2>2. PendingResult(c) = working[c]
    BY <2>1, OutcomeOfNone DEF PendingResult
  <2>3. working[c] # NoState
    BY NoStateAssumption
  <2>4. Result[c] = working[c]
    BY <2>2 DEF Result
  <2>5. QED
    BY <1>3, <2>1, <2>3, <2>4 DEF Snapshot!Install, Result
<1>6. ASSUME NEW id \in JobID, DeleteJobInPlace(id)
      PROVE  Snapshot!RemoveJob(id)
  <2>1. state' = DeleteDeliveryJob(state, id) /\ UNCHANGED <<phase, working, todo>>
    BY <1>6 DEF DeleteJobInPlace
  <2>2. Result' = Result
    BY <2>1 DEF Result, PendingResult
  <2>3. QED
    BY <2>1, <2>2, SameOperations DEF Snapshot!RemoveJob, Result
<1>7. CASE UNCHANGED vars
  BY <1>7 DEF vars, Result, PendingResult
<1>8. QED
  BY <1>1, <1>2, <1>4, <1>5, <1>6, <1>7 DEF Next, Snapshot!Next

\* The in-memory store implements SnapshotStore: however its steps overlap,
\* a transaction that commits installs the result of its whole callback on
\* the state it cloned, and one that fails leaves no trace.
THEOREM TransactionsAllOrNothing == Spec => AllOrNothing
<1>1. Init => Snapshot!Init
  <2> SUFFICES ASSUME Init PROVE Snapshot!Init
    OBVIOUS
  <2>1. \A c \in Client : PendingResult(c) = NoState
    BY DEF Init, PendingResult
  <2>2. QED
    BY <2>1, SameOperations DEF Init, Snapshot!Init
<1>2. StoreInv /\ [Next]_vars => [Snapshot!Next]_(Snapshot!vars)
  BY StepImplements DEF Snapshot!vars, Result
<1>3. QED
  BY <1>1, <1>2, InitStoreInv, NextStoreInv, PTL DEF Spec, AllOrNothing, Snapshot!Spec
=============================================================================
