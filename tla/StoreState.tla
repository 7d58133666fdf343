----------------------------- MODULE StoreState -----------------------------
(***************************************************************************)
(* The data of the store (internal/store/memory/store.go, type state) and  *)
(* one operator per operation of store.Tx on it.  An operator maps the     *)
(* state before the operation to the state after it; a companion predicate *)
(* says when the operation returns an error instead.                       *)
(*                                                                         *)
(* A Go map is a function whose DOMAIN is the set of keys present.  The    *)
(* records stored in the maps carry the fields the store itself looks at   *)
(* (identifiers and references); everything the store only copies (topic   *)
(* attributes, message bodies, ...) is whatever the module using this one  *)
(* puts into the record.                                                   *)
(***************************************************************************)
EXTENDS Functions

(***************************************************************************)
(* Maps with some keys of K and values in V; m[k] = v; deletion of keys.   *)
(***************************************************************************)
Map(K, V) == UNION {[D -> V] : D \in SUBSET K}
Put(m, k, v) == [x \in DOMAIN m \cup {k} |-> IF x = k THEN v ELSE m[x]]
Drop(m, K) == Restrict(m, DOMAIN m \ K)

(***************************************************************************)
(* util.FormatARN and the subscription ARN of Service.Subscribe.  Both     *)
(* formats are injective: account, region and topic names contain no       *)
(* separator that a UUID could hide behind.                                *)
(***************************************************************************)
FormatARN(name) == <<"arn:aws:sns", name>>
SubscriptionARN(topicARN, uuid) == <<topicARN, uuid>>

EmptyMap == [x \in {} |-> x]

\* NewStore.
EmptyState ==
  [ topics        |-> EmptyMap,
    topicsByName  |-> EmptyMap,
    subscriptions |-> EmptyMap,
    subsByTopic   |-> EmptyMap,
    confirmation  |-> EmptyMap,
    deliveryJobs  |-> EmptyMap ]

-----------------------------------------------------------------------------
(***************************************************************************)
(* Topics.                                                                 *)
(***************************************************************************)
CreateTopicConflict(s, topic) == topic.Name \in DOMAIN s.topicsByName

\* Mutant: key and value of the name index swapped.
CreateTopicSwapped(s, topic) ==
  [s EXCEPT !.topics = Put(@, topic.ARN, topic),
            !.topicsByName = Put(@, topic.ARN, topic.Name)]

CreateTopic(s, topic) ==
  [s EXCEPT !.topics = Put(@, topic.ARN, topic),
            !.topicsByName = Put(@, topic.Name, topic.ARN)]

HasTopic(s, arn) == arn \in DOMAIN s.topics

\* topic is the copy of the stored topic after the callback changed it.
UpdateTopic(s, arn, topic) == [s EXCEPT !.topics = Put(@, arn, topic)]

\* subsByTopic[arn], the empty set for a missing key as in Go.
SubARNsOf(s, arn) ==
  IF arn \in DOMAIN s.subsByTopic THEN s.subsByTopic[arn] ELSE {}

\* Mutant: the index of the topic's subscriptions is left behind.
RemoveTopicKeepsIndex(s, arn) ==
  [s EXCEPT !.topics = Drop(@, {arn}),
            !.topicsByName = Drop(@, {s.topics[arn].Name}),
            !.subscriptions = Drop(@, SubARNsOf(s, arn))]

RemoveTopic(s, arn) ==
  [ topics        |-> Drop(s.topics, {arn}),
    topicsByName  |-> Drop(s.topicsByName, {s.topics[arn].Name}),
    subscriptions |-> Drop(s.subscriptions, SubARNsOf(s, arn)),
    subsByTopic   |-> Drop(s.subsByTopic, {arn}),
    confirmation  |-> Drop(s.confirmation,
                        {t \in DOMAIN s.confirmation :
                           s.confirmation[t].TopicARN = arn}),
    deliveryJobs  |-> Drop(s.deliveryJobs,
                        {j \in DOMAIN s.deliveryJobs :
                           s.deliveryJobs[j].TopicARN = arn}) ]

\* Deleting an unknown topic is not an error and changes nothing.
DeleteTopic(s, arn) == IF HasTopic(s, arn) THEN RemoveTopic(s, arn) ELSE s

-----------------------------------------------------------------------------
(***************************************************************************)
(* Subscriptions.  CreateSubscription overwrites, and does not ask whether *)
(* the topic exists.                                                       *)
(***************************************************************************)
CreateSubscription(s, sub) ==
  [s EXCEPT !.subscriptions = Put(@, sub.ARN, sub),
            !.subsByTopic =
               Put(@, sub.TopicARN, SubARNsOf(s, sub.TopicARN) \cup {sub.ARN})]

HasSubscription(s, arn) == arn \in DOMAIN s.subscriptions

UpdateSubscription(s, arn, sub) ==
  [s EXCEPT !.subscriptions = Put(@, arn, sub)]

\* The index entry stays behind, possibly empty; jobs are not touched.
DeleteSubscription(s, arn) ==
  LET topicARN == s.subscriptions[arn].TopicARN IN
  [s EXCEPT !.subscriptions = Drop(@, {arn}),
            !.subsByTopic =
               IF topicARN \in DOMAIN @
               THEN Put(@, topicARN, SubARNsOf(s, topicARN) \ {arn})
               ELSE @,
            !.confirmation =
               Drop(@, {t \in DOMAIN @ : @[t].SubscriptionARN = arn})]

-----------------------------------------------------------------------------
(***************************************************************************)
(* Confirmation tokens and delivery jobs.                                  *)
(***************************************************************************)
PutConfirmationToken(s, token) ==
  [s EXCEPT !.confirmation = Put(@, token.Token, token)]

DeleteConfirmationToken(s, t) ==
  [s EXCEPT !.confirmation = Drop(@, {t})]

EnqueueDeliveryJob(s, job) ==
  [s EXCEPT !.deliveryJobs = Put(@, job.ID, job)]

HasDeliveryJob(s, id) == id \in DOMAIN s.deliveryJobs

UpdateDeliveryJob(s, id, job) ==
  [s EXCEPT !.deliveryJobs = Put(@, id, job)]

DeleteDeliveryJob(s, id) ==
  [s EXCEPT !.deliveryJobs = Drop(@, {id})]

-----------------------------------------------------------------------------
(***************************************************************************)
(* The two redundant indexes agree with the tables they index.  The        *)
(* readers findTopicByName and listSubscriptionsByTopic copy what the      *)
(* index leads to without a nil check, and tx.CreateTopic dereferences it. *)
(***************************************************************************)
TopicIndexAgrees(s) ==
  /\ \A arn \in DOMAIN s.topics :
        LET name == s.topics[arn].Name
        IN  /\ arn = FormatARN(name)
            /\ name \in DOMAIN s.topicsByName
  /\ \A name \in DOMAIN s.topicsByName :
        LET arn == s.topicsByName[name]
        IN  arn \in DOMAIN s.topics /\ s.topics[arn].Name = name

SubscriptionIndexAgrees(s) ==
  /\ \A arn \in DOMAIN s.subscriptions :
        LET sub == s.subscriptions[arn]
        IN  /\ sub.ARN = arn
            /\ arn \in SubARNsOf(s, sub.TopicARN)
  /\ \A topicARN \in DOMAIN s.subsByTopic :
        \A arn \in s.subsByTopic[topicARN] :
           /\ arn \in DOMAIN s.subscriptions
           /\ s.subscriptions[arn].TopicARN = topicARN

IndexesAgree(s) == TopicIndexAgrees(s) /\ SubscriptionIndexAgrees(s)
=============================================================================
