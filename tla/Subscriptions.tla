---------------------------- MODULE Subscriptions ---------------------------
(***************************************************************************)
(* The life of a subscription over the SQLite store: Subscribe, the        *)
(* confirmation by token, Unsubscribe and the restoration by token, with   *)
(* concurrent requests, deletion and re-creation of the topic, expiry of   *)
(* tokens, and crashes.  A request makes several store calls; each call is *)
(* one transaction of the database, and other requests run in between.     *)
(*                                                                         *)
(* database/sql keeps a pool of connections.  migrate sets foreign_keys on *)
(* the connection it happens to use; every connection opened later, when   *)
(* two transactions overlap, starts with foreign keys off.  pool is the    *)
(* set of settings of the idle connections.                                *)
(*                                                                         *)
(* Attributes, owners and authorization do not matter here.  The jobs that *)
(* carry the tokens to the endpoints are in DeliveryWorker.                *)
(***************************************************************************)
EXTENDS StoreState, Naturals, FiniteSets

CONSTANTS
  Request,      \* concurrent requests
  TopicARN,
  Endpoint,
  SQSEndpoint,  \* endpoints of protocol "sqs"; the others are HTTP
  MaxID,        \* bound: subscriptions and tokens issued
  MaxTopics,    \* bound: topics created
  MaxCrashes    \* bound: crashes of the process

ASSUME EndpointAssumption == SQSEndpoint \subseteq Endpoint
ASSUME BoundsAssumption == MaxID \in Nat /\ MaxTopics \in Nat /\ MaxCrashes \in Nat

VARIABLES
  topics,     \* the topics that exist
  subs,       \* table subscriptions
  tokens,     \* table confirmation_tokens
  expired,    \* tokens past ExpiresAt
  req,        \* req[r]: program counter and local variables of a request
  pool,       \* foreign_keys settings of the idle connections
  nextID,     \* identifiers handed out so far
  created, crashes,
  presented,  \* history: subscriptions whose endpoint returned a valid token
  orphans,    \* history: subscriptions a DeleteTopic left behind
  contended   \* history: <<topic, endpoint>> of overlapping Subscribe requests,
              \* of restored subscriptions and of ones a failed query did not find

vars == <<topics, subs, tokens, expired, req, pool, nextID, created, crashes,
          presented, orphans, contended>>
tables == <<topics, subs, tokens>>
bookkeeping == <<expired, pool, nextID, created, crashes, presented, orphans, contended>>

Idle == [pc |-> "idle"]
Goto(r, x) == req' = [req EXCEPT ![r] = x]

Init ==
  /\ topics = {} /\ subs = EmptyMap /\ tokens = EmptyMap /\ expired = {}
  /\ req = [r \in Request |-> Idle]
  /\ pool = {TRUE}
  /\ nextID = 1 /\ created = 0 /\ crashes = 0
  /\ presented = {} /\ orphans = {} /\ contended = {}

-----------------------------------------------------------------------------
(***************************************************************************)
(* Topics.                                                                 *)
(***************************************************************************)
CreateTopicRow(t) ==
  /\ t \notin topics
  /\ created < MaxTopics
  /\ created' = created + 1
  /\ topics' = topics \cup {t}
  /\ UNCHANGED <<subs, tokens, expired, req, pool, nextID, crashes, presented, orphans, contended>>

OfTopic(table, t) == { x \in DOMAIN table : table[x].TopicARN = t }

\* Mutant: the tokens of the topic stay.
DeleteTopicRowsKeepsTokens(t) ==
  /\ t \in topics
  /\ topics' = topics \ {t}
  /\ \E foreignKeys \in pool :
       /\ subs' = IF foreignKeys THEN Drop(subs, OfTopic(subs, t)) ELSE subs
       /\ orphans' = IF foreignKeys THEN orphans ELSE orphans \cup OfTopic(subs, t)
  /\ UNCHANGED <<tokens, expired, req, pool, nextID, created, crashes, presented, contended>>

\* tx.DeleteTopic: subscriptions are left to ON DELETE CASCADE.
DeleteTopicRows(t) ==
  /\ t \in topics
  /\ topics' = topics \ {t}
  /\ tokens' = Drop(tokens, OfTopic(tokens, t))
  /\ \E foreignKeys \in pool :
       /\ subs' = IF foreignKeys THEN Drop(subs, OfTopic(subs, t)) ELSE subs
       /\ orphans' = IF foreignKeys THEN orphans ELSE orphans \cup OfTopic(subs, t)
  /\ UNCHANGED <<expired, req, pool, nextID, created, crashes, presented, contended>>

-----------------------------------------------------------------------------
(***************************************************************************)
(* Subscribe.                                                              *)
(***************************************************************************)
IsHTTP(e) == e \notin SQSEndpoint

Subscribing(r, t, e) ==
  req[r].pc \in {"find", "create"} /\ req[r].TopicARN = t /\ req[r].Endpoint = e

\* GetTopic succeeds.
Subscribe(r, t, e) ==
  /\ req[r].pc = "idle"
  /\ nextID < MaxID
  /\ t \in topics
  /\ Goto(r, [pc |-> "find", TopicARN |-> t, Endpoint |-> e])
  /\ contended' = IF \E x \in Request : Subscribing(x, t, e)
                  THEN contended \cup {<<t, e>>} ELSE contended
  /\ UNCHANGED <<tables, expired, pool, nextID, created, crashes, presented, orphans>>

\* Mutant: a pending subscription is not found.
FindExistingConfirmed(r) ==
  LET x == req[r] IN
  /\ x.pc = "find"
  /\ IF \E s \in OfTopic(subs, x.TopicARN) : subs[s].Endpoint = x.Endpoint /\ subs[s].Confirmed
     THEN Goto(r, Idle)
     ELSE Goto(r, [x EXCEPT !.pc = "create"])
  /\ UNCHANGED <<tables, bookkeeping>>

Exists(t, e) == \E s \in OfTopic(subs, t) : subs[s].Endpoint = e

\* findExistingSubscription: if there is one, its ARN is the answer.
FindExisting(r) ==
  LET x == req[r] IN
  /\ x.pc = "find"
  /\ Goto(r, IF Exists(x.TopicARN, x.Endpoint) THEN Idle ELSE [x EXCEPT !.pc = "create"])
  /\ UNCHANGED <<tables, bookkeeping>>

\* The query of findExistingSubscription fails, which listSubscriptions turns
\* into an empty list: Subscribe goes on although there is one.
FindNothing(r) ==
  LET x == req[r] IN
  /\ x.pc = "find"
  /\ Exists(x.TopicARN, x.Endpoint)
  /\ Goto(r, [x EXCEPT !.pc = "create"])
  /\ contended' = contended \cup {<<x.TopicARN, x.Endpoint>>}
  /\ UNCHANGED <<tables, expired, pool, nextID, created, crashes, presented, orphans>>

\* The foreign key is checked where foreign keys are on.
MayInsert(foreignKeys, t) == foreignKeys => t \in topics

\* Mutant: an HTTP subscription does not wait for its confirmation.
NewSubscriptionConfirmed(x) ==
  [TopicARN |-> x.TopicARN, Endpoint |-> x.Endpoint, Confirmed |-> TRUE]
\* Mutant: two columns swapped.
NewSubscriptionSwapped(x) ==
  [TopicARN |-> x.Endpoint, Endpoint |-> x.TopicARN, Confirmed |-> FALSE]
NewSubscription(x) ==
  [TopicARN |-> x.TopicARN, Endpoint |-> x.Endpoint, Confirmed |-> ~IsHTTP(x.Endpoint)]

\* One transaction: subscription, token and confirmation job.
InsertSubscription(r) ==
  LET x == req[r]
      arn == SubscriptionARN(x.TopicARN, nextID)
  IN
  /\ x.pc = "create"
  /\ nextID < MaxID
  /\ \E foreignKeys \in pool : MayInsert(foreignKeys, x.TopicARN)
  /\ subs' = Put(subs, arn, NewSubscription(x))
  /\ tokens' = IF IsHTTP(x.Endpoint)
               THEN Put(tokens, nextID + 1,
                        [Kind |-> "subscribe", SubscriptionARN |-> arn,
                         TopicARN |-> x.TopicARN, Restore |-> NewSubscription(x)])
               ELSE tokens
  /\ nextID' = nextID + 2
  /\ orphans' = IF x.TopicARN \in topics THEN orphans ELSE orphans \cup {arn}
  /\ Goto(r, Idle)
  /\ UNCHANGED <<topics, expired, pool, created, crashes, presented, contended>>

-----------------------------------------------------------------------------
(***************************************************************************)
(* ConfirmSubscription: the token is looked up, used and deleted in three  *)
(* transactions.                                                           *)
(***************************************************************************)
\* Mutant: the token is deleted before it is used.
ConfirmDropsFirst(r, k) ==
  /\ req[r].pc = "idle"
  /\ k \in DOMAIN tokens \ expired
  /\ Goto(r, [pc |-> "confirm", token |-> k, record |-> tokens[k]])
  /\ tokens' = Drop(tokens, {k})
  /\ presented' = presented \cup {tokens[k].SubscriptionARN}
  /\ UNCHANGED <<topics, subs, expired, pool, nextID, created, crashes, orphans, contended>>

Confirm(r, k) ==
  /\ req[r].pc = "idle"
  /\ k \in DOMAIN tokens \ expired
  /\ Goto(r, [pc |-> "confirm", token |-> k, record |-> tokens[k]])
  /\ presented' = presented \cup {tokens[k].SubscriptionARN}
  /\ UNCHANGED <<tables, expired, pool, nextID, created, crashes, orphans, contended>>

\* Kind "subscribe": UpdateSubscription, an error if it is gone.
ConfirmUpdate(r) ==
  LET x == req[r] IN
  /\ x.pc = "confirm"
  /\ x.record.Kind = "subscribe"
  /\ IF x.record.SubscriptionARN \in DOMAIN subs
     THEN /\ subs' = [subs EXCEPT ![x.record.SubscriptionARN].Confirmed = TRUE]
          /\ Goto(r, [pc |-> "drop", token |-> x.token])
     ELSE Goto(r, Idle) /\ UNCHANGED subs
  /\ UNCHANGED <<topics, tokens, bookkeeping>>

\* Kind "unsubscribe": CreateSubscription with the copy in the token, an
\* error if the primary key exists or the foreign key does not.
ConfirmRestore(r) ==
  LET x == req[r]
      arn == x.record.SubscriptionARN
  IN
  /\ x.pc = "confirm"
  /\ x.record.Kind = "unsubscribe"
  /\ \E foreignKeys \in pool :
       IF arn \notin DOMAIN subs /\ MayInsert(foreignKeys, x.record.TopicARN)
       THEN /\ subs' = Put(subs, arn, [x.record.Restore EXCEPT !.Confirmed = TRUE])
            /\ orphans' = IF x.record.TopicARN \in topics THEN orphans
                          ELSE orphans \cup {arn}
            /\ contended' = contended \cup {<<x.record.TopicARN, x.record.Restore.Endpoint>>}
            /\ Goto(r, [pc |-> "drop", token |-> x.token])
       ELSE Goto(r, Idle) /\ UNCHANGED <<subs, orphans, contended>>
  /\ UNCHANGED <<topics, tokens, expired, pool, nextID, created, crashes, presented>>

\* DeleteConfirmationToken; its error is ignored.
DropToken(r) ==
  /\ req[r].pc = "drop"
  /\ tokens' \in {tokens, Drop(tokens, {req[r].token})}
  /\ Goto(r, Idle)
  /\ UNCHANGED <<topics, subs, bookkeeping>>

-----------------------------------------------------------------------------
(***************************************************************************)
(* Unsubscribe: GetSubscription, GetTopic and the deleting transaction.    *)
(***************************************************************************)
Unsubscribe(r, s) ==
  /\ req[r].pc = "idle"
  /\ s \in DOMAIN subs
  /\ Goto(r, [pc |-> "unsubscribe", arn |-> s, sub |-> subs[s]])
  /\ UNCHANGED <<tables, bookkeeping>>

UnsubscribeTopic(r) ==
  LET x == req[r] IN
  /\ x.pc = "unsubscribe"
  /\ Goto(r, IF x.sub.TopicARN \in topics THEN [x EXCEPT !.pc = "delete"] ELSE Idle)
  /\ UNCHANGED <<tables, bookkeeping>>

TokensOf(s) == { k \in DOMAIN tokens : tokens[k].SubscriptionARN = s }

\* DeleteSubscription with its tokens; over HTTP a new token that holds the
\* copy read before, and a job that carries it.
DeleteSubscriptionRows(r) ==
  LET x == req[r] IN
  /\ x.pc = "delete"
  /\ x.arn \in DOMAIN subs
  /\ nextID <= MaxID
  /\ subs' = Drop(subs, {x.arn})
  /\ tokens' = IF IsHTTP(x.sub.Endpoint)
               THEN Put(Drop(tokens, TokensOf(x.arn)), nextID,
                        [Kind |-> "unsubscribe", SubscriptionARN |-> x.arn,
                         TopicARN |-> x.sub.TopicARN, Restore |-> x.sub])
               ELSE Drop(tokens, TokensOf(x.arn))
  /\ nextID' = nextID + 1
  /\ orphans' = orphans \ {x.arn}
  /\ Goto(r, Idle)
  /\ UNCHANGED <<topics, expired, pool, created, crashes, presented, contended>>

-----------------------------------------------------------------------------
\* A transaction fails or finds nothing to do: an error is returned.
\* FindNothing and DropToken are the calls whose errors are ignored.
Fail(r) ==
  /\ req[r].pc \notin {"idle", "find", "drop"}
  /\ Goto(r, Idle)
  /\ UNCHANGED <<tables, bookkeeping>>

Expire(k) ==
  /\ k \in DOMAIN tokens \ expired
  /\ expired' = expired \cup {k}
  /\ UNCHANGED <<tables, req, pool, nextID, created, crashes, presented, orphans, contended>>

\* Two requests are inside the store at once.
OpenConnection ==
  /\ \E r1, r2 \in Request : r1 # r2 /\ req[r1].pc # "idle" /\ req[r2].pc # "idle"
  /\ FALSE \notin pool
  /\ pool' = pool \cup {FALSE}
  /\ UNCHANGED <<tables, expired, req, nextID, created, crashes, presented, orphans, contended>>

\* log.Fatal or a kill; Open runs migrate again on a fresh connection.
Crash ==
  /\ crashes < MaxCrashes
  /\ crashes' = crashes + 1
  /\ req' = [r \in Request |-> Idle]
  /\ pool' = {TRUE}
  /\ UNCHANGED <<tables, expired, nextID, created, presented, orphans, contended>>

Step(r) ==
  \/ \E t \in TopicARN, e \in Endpoint : Subscribe(r, t, e)
  \/ FindExisting(r) \/ FindNothing(r) \/ InsertSubscription(r)
  \/ \E k \in DOMAIN tokens : Confirm(r, k)
  \/ ConfirmUpdate(r) \/ ConfirmRestore(r) \/ DropToken(r)
  \/ \E s \in DOMAIN subs : Unsubscribe(r, s)
  \/ UnsubscribeTopic(r) \/ DeleteSubscriptionRows(r)
  \/ Fail(r)

Next ==
  \/ \E t \in TopicARN : CreateTopicRow(t) \/ DeleteTopicRows(t)
  \/ \E r \in Request : Step(r)
  \/ (\E k \in DOMAIN tokens : Expire(k)) \/ OpenConnection \/ Crash

Spec == Init /\ [][Next]_vars

-----------------------------------------------------------------------------
ID == 1..(MaxID + 1)
SubARN == { SubscriptionARN(t, n) : t \in TopicARN, n \in ID }
Subscription == [TopicARN : TopicARN, Endpoint : Endpoint, Confirmed : BOOLEAN]
TokenRecord ==
  [Kind : {"subscribe", "unsubscribe"}, SubscriptionARN : SubARN,
   TopicARN : TopicARN, Restore : Subscription]

\* The tables hold rows of their kind, and so do the copies in requests.
TypeOK ==
  /\ topics \subseteq TopicARN
  /\ subs \in Map(SubARN, Subscription)
  /\ \E D \in SUBSET ID : tokens \in [D -> TokenRecord]
  /\ expired \subseteq ID
  /\ pool \in (SUBSET BOOLEAN) \ {{}}
  /\ nextID \in 1..(MaxID + 2) /\ created \in 0..MaxTopics /\ crashes \in 0..MaxCrashes
  /\ presented \subseteq SubARN /\ orphans \subseteq SubARN
  /\ contended \subseteq TopicARN \X Endpoint
  /\ \A r \in Request :
       LET x == req[r] IN
       \/ x = Idle
       \/ x.pc \in {"find", "create"} /\ x.TopicARN \in TopicARN /\ x.Endpoint \in Endpoint
       \/ x.pc = "confirm" /\ x.token \in ID /\ x.record \in TokenRecord
       \/ x.pc = "drop" /\ x.token \in ID
       \/ x.pc \in {"unsubscribe", "delete"} /\ x.arn \in SubARN /\ x.sub \in Subscription

\* A confirmation link leads to a subscription: the row of every "subscribe"
\* token exists, through every interleaving of Confirm, Unsubscribe and
\* DeleteTopic, also when cascading is off.
NoDanglingToken ==
  \A k \in DOMAIN tokens :
    tokens[k].Kind = "subscribe" => tokens[k].SubscriptionARN \in DOMAIN subs

\* No HTTP endpoint gets notifications unless a token that was sent to it, and
\* had not expired, came back.
ConfirmedByEndpoint ==
  \A s \in DOMAIN subs :
    subs[s].Confirmed /\ IsHTTP(subs[s].Endpoint) => s \in presented

\* A pending subscription can be confirmed: its token exists (it may have
\* expired), except for subscriptions that outlived their topic.  Otherwise
\* the endpoint is blocked, since Subscribe answers with the pending one.
PendingIsConfirmable ==
  \A s \in DOMAIN subs \ orphans :
    ~subs[s].Confirmed =>
      \E k \in DOMAIN tokens :
        tokens[k].Kind = "subscribe" /\ tokens[k].SubscriptionARN = s

\* An endpoint has one subscription to a topic, and gets every message once,
\* unless two requests to subscribe it overlapped (both look before either
\* creates), an old subscription of it was restored, or a request looked for
\* the existing one and its query failed (the error is ignored): a retry of
\* Subscribe, a crash in it, or a topic deleted and created again makes no
\* second one.
OnePerEndpoint ==
  \A s, t \in DOMAIN subs :
    /\ s # t
    /\ subs[s].TopicARN = subs[t].TopicARN /\ subs[s].Endpoint = subs[t].Endpoint
    => <<subs[s].TopicARN, subs[s].Endpoint>> \in contended

\* The foreign key of table subscriptions.
SubscriptionHasTopic == \A s \in DOMAIN subs : subs[s].TopicARN \in topics
=============================================================================
