-------------------------- MODULE SubscriptionsProofs ------------------------
(***************************************************************************)
(* The life of subscriptions over the SQLite store, for any requests,      *)
(* topics, endpoints and number of crashes: confirmation links lead to     *)
(* subscriptions, an endpoint consents before it is notified, a pending    *)
(* subscription can be confirmed, and an endpoint is subscribed once.      *)
(*                                                                         *)
(* The inductive invariant is about what requests remember between their   *)
(* transactions.  It rests on identifiers: a row's never changes its       *)
(* topic, and an old one is never issued again, so that a copy read long   *)
(* ago still speaks of the same row or of none.                            *)
(***************************************************************************)
EXTENDS Subscriptions, TLAPS

ReqState ==
  {Idle}
    \cup [pc : {"find", "create"}, TopicARN : TopicARN, Endpoint : Endpoint]
    \cup [pc : {"confirm"}, token : ID, record : TokenRecord]
    \cup [pc : {"drop"}, token : ID]
    \cup [pc : {"unsubscribe", "delete"}, arn : SubARN, sub : Subscription]

Typed ==
  /\ topics \subseteq TopicARN
  /\ subs \in Map(SubARN, Subscription)
  /\ tokens \in Map(ID, TokenRecord)
  /\ expired \subseteq ID
  /\ pool \in (SUBSET BOOLEAN) \ {{}}
  /\ nextID \in 1..(MaxID + 1) /\ created \in 0..MaxTopics /\ crashes \in 0..MaxCrashes
  /\ presented \subseteq SubARN /\ orphans \subseteq SubARN
  /\ contended \subseteq TopicARN \X Endpoint
  /\ req \in [Request -> ReqState]

\* A subscription ARN was issued before n, and names the topic of its row.
SubOK(s, sub, n) == s[1] = sub.TopicARN /\ s[2] < n

\* The same of the subscription in a token and of the copy there.
TokenOK(tok, n) ==
  SubOK(tok.SubscriptionARN, tok, n) /\ tok.Restore.TopicARN = tok.TopicARN

RowsKnown ==
  /\ \A s \in DOMAIN subs : SubOK(s, subs[s], nextID)
  /\ \A k \in DOMAIN tokens : k < nextID /\ TokenOK(tokens[k], nextID)

\* The token a request has looked up is the one in the table, or is gone.
ConfirmCopies ==
  \A r \in Request :
    req[r].pc = "confirm" =>
      /\ req[r].token < nextID
      /\ TokenOK(req[r].record, nextID)
      /\ req[r].record.SubscriptionARN \in presented
      /\ req[r].token \in DOMAIN tokens => tokens[req[r].token] = req[r].record

\* A "subscribe" token that is about to go has done its work.
DropCopies ==
  \A r \in Request :
    req[r].pc = "drop" =>
      /\ req[r].token < nextID
      /\ \A s \in DOMAIN subs :
           /\ req[r].token \in DOMAIN tokens
           /\ tokens[req[r].token].Kind = "subscribe"
           /\ tokens[req[r].token].SubscriptionARN = s
           => subs[s].Confirmed

UnsubscribeCopies ==
  \A r \in Request :
    req[r].pc \in {"unsubscribe", "delete"} => SubOK(req[r].arn, req[r].sub, nextID)

\* A request that found no subscription is still right, or was overtaken, or
\* its query failed.
CreateCopies ==
  \A r \in Request, s \in DOMAIN subs :
    req[r].pc = "create" /\ subs[s].TopicARN = req[r].TopicARN
      /\ subs[s].Endpoint = req[r].Endpoint
    => <<req[r].TopicARN, req[r].Endpoint>> \in contended

Overlaps ==
  \A r1, r2 \in Request, t \in TopicARN, e \in Endpoint :
    r1 # r2 /\ Subscribing(r1, t, e) /\ Subscribing(r2, t, e) => <<t, e>> \in contended

IInv ==
  /\ Typed /\ RowsKnown /\ ConfirmCopies /\ DropCopies /\ UnsubscribeCopies
  /\ CreateCopies /\ Overlaps
  /\ NoDanglingToken /\ ConfirmedByEndpoint /\ PendingIsConfirmable /\ OnePerEndpoint

-----------------------------------------------------------------------------
(***************************************************************************)
(* Tables and identifiers.                                                 *)
(***************************************************************************)
\* A row that is present.
LEMMA MapApply ==
  ASSUME NEW K, NEW V, NEW m \in Map(K, V)
  PROVE  DOMAIN m \subseteq K /\ \A k \in DOMAIN m : m[k] \in V
BY DEF Map

\* A table that is a function of some keys.
LEMMA MapIntro ==
  ASSUME NEW K, NEW V, NEW D \in SUBSET K, NEW m \in [D -> V]
  PROVE  m \in Map(K, V)
BY DEF Map

\* Saving a row.
LEMMA MapPut ==
  ASSUME NEW K, NEW V, NEW m \in Map(K, V), NEW k \in K, NEW v \in V
  PROVE  Put(m, k, v) \in Map(K, V)
<1>1. DOMAIN m \cup {k} \in SUBSET K /\ Put(m, k, v) \in [DOMAIN m \cup {k} -> V]
  BY MapApply DEF Put
<1>2. QED
  BY <1>1, MapIntro

\* Deleting rows.
LEMMA MapDrop ==
  ASSUME NEW K, NEW V, NEW m \in Map(K, V), NEW S
  PROVE  /\ Drop(m, S) \in Map(K, V)
         /\ DOMAIN Drop(m, S) = DOMAIN m \ S
         /\ \A x \in DOMAIN m \ S : Drop(m, S)[x] = m[x]
<1>1. DOMAIN m \ S \in SUBSET K /\ Drop(m, S) \in [DOMAIN m \ S -> V]
  BY MapApply DEF Drop, Restrict
<1>2. Drop(m, S) \in Map(K, V)
  BY <1>1, MapIntro
<1>3. QED
  BY <1>2 DEF Drop, Restrict

\* The empty table.
LEMMA MapEmpty ==
  ASSUME NEW K, NEW V
  PROVE  EmptyMap \in Map(K, V) /\ DOMAIN EmptyMap = {}
<1>1. EmptyMap \in [{} -> V] /\ DOMAIN EmptyMap = {}
  BY DEF EmptyMap
<1>2. QED
  BY <1>1, MapIntro

\* An ARN is made of a topic and an identifier.
LEMMA ARNFacts ==
  ASSUME NEW t \in TopicARN, NEW n \in ID
  PROVE  /\ SubscriptionARN(t, n) \in SubARN
         /\ SubscriptionARN(t, n)[1] = t /\ SubscriptionARN(t, n)[2] = n
BY DEF SubARN, SubscriptionARN

\* States of requests by their program counter.
LEMMA ReqFacts ==
  ASSUME NEW x \in ReqState
  PROVE  /\ x.pc \in {"idle", "find", "create", "confirm", "drop", "unsubscribe", "delete"}
         /\ x.pc = "idle" <=> x = Idle
         /\ x.pc \in {"find", "create"} => /\ x.TopicARN \in TopicARN
                                           /\ x.Endpoint \in Endpoint
                                           /\ [x EXCEPT !.pc = "create"] \in ReqState
                                           /\ [x EXCEPT !.pc = "create"].pc = "create"
                                           /\ [x EXCEPT !.pc = "create"].TopicARN = x.TopicARN
                                           /\ [x EXCEPT !.pc = "create"].Endpoint = x.Endpoint
         /\ x.pc = "confirm" => x.token \in ID /\ x.record \in TokenRecord
         /\ x.pc = "drop" => x.token \in ID
         /\ x.pc \in {"unsubscribe", "delete"} =>
              /\ x.arn \in SubARN /\ x.sub \in Subscription
              /\ [x EXCEPT !.pc = "delete"] \in ReqState
              /\ [x EXCEPT !.pc = "delete"].pc = "delete"
              /\ [x EXCEPT !.pc = "delete"].arn = x.arn
              /\ [x EXCEPT !.pc = "delete"].sub = x.sub
BY DEF ReqState, Idle

\* The next state of a request is a state of requests.
LEMMA GotoFacts ==
  ASSUME Typed, NEW r \in Request, NEW x \in ReqState, Goto(r, x)
  PROVE  /\ req' \in [Request -> ReqState]
         /\ req'[r] = x
         /\ \A other \in Request : other # r => req'[other] = req[other]
BY DEF Typed, Goto

\* Rows and copies have the types of their tables.
LEMMA RowTypes ==
  ASSUME Typed
  PROVE  /\ DOMAIN subs \subseteq SubARN /\ DOMAIN tokens \subseteq ID
         /\ \A s \in DOMAIN subs : subs[s] \in Subscription
         /\ \A k \in DOMAIN tokens : tokens[k] \in TokenRecord
         /\ \A r \in Request : req[r] \in ReqState
         /\ nextID \in Nat /\ MaxID \in Nat
BY MapApply, BoundsAssumption DEF Typed

\* Identifiers are numbers.
LEMMA NumberFacts ==
  ASSUME Typed
  PROVE  /\ \A s \in SubARN : s[2] \in Nat
         /\ \A k \in DOMAIN tokens : k \in Nat /\ tokens[k].SubscriptionARN[2] \in Nat
         /\ \A y \in Request : req[y].pc = "confirm" =>
              req[y].token \in Nat /\ req[y].record.SubscriptionARN[2] \in Nat
         /\ \A y \in Request : req[y].pc = "drop" => req[y].token \in Nat
         /\ \A y \in Request :
              req[y].pc \in {"unsubscribe", "delete"} => req[y].arn[2] \in Nat
<1>1. \A n \in ID : n \in Nat
  BY BoundsAssumption DEF ID
<1>2. \A s \in SubARN : s[2] \in Nat
  BY <1>1 DEF SubARN, SubscriptionARN
<1>3. \A k \in DOMAIN tokens : k \in ID /\ tokens[k].SubscriptionARN \in SubARN
  BY RowTypes DEF TokenRecord
<1>4. \A y \in Request : req[y].pc = "confirm" =>
          req[y].token \in ID /\ req[y].record.SubscriptionARN \in SubARN
  BY RowTypes, ReqFacts DEF TokenRecord
<1>5. \A y \in Request : /\ req[y].pc = "drop" => req[y].token \in ID
                         /\ req[y].pc \in {"unsubscribe", "delete"} => req[y].arn \in SubARN
  BY RowTypes, ReqFacts
<1>6. QED
  BY <1>1, <1>2, <1>3, <1>4, <1>5

\* Deleting rows of the tables.
LEMMA DropRows ==
  ASSUME Typed, NEW S
  PROVE  /\ Drop(subs, S) \in Map(SubARN, Subscription)
         /\ DOMAIN Drop(subs, S) = DOMAIN subs \ S
         /\ \A s \in DOMAIN subs : s \notin S => Drop(subs, S)[s] = subs[s]
         /\ Drop(tokens, S) \in Map(ID, TokenRecord)
         /\ DOMAIN Drop(tokens, S) = DOMAIN tokens \ S
         /\ \A k \in DOMAIN tokens : k \notin S => Drop(tokens, S)[k] = tokens[k]
<1>1. subs \in Map(SubARN, Subscription) /\ tokens \in Map(ID, TokenRecord)
  BY DEF Typed
<1>2. QED
  BY <1>1, MapDrop

\* Saving rows.
LEMMA PutSubscription ==
  ASSUME Typed, NEW arn \in SubARN, NEW sub \in Subscription
  PROVE  /\ Put(subs, arn, sub) \in Map(SubARN, Subscription)
         /\ DOMAIN Put(subs, arn, sub) = DOMAIN subs \cup {arn}
         /\ Put(subs, arn, sub)[arn] = sub
         /\ \A s \in DOMAIN subs : s # arn => Put(subs, arn, sub)[s] = subs[s]
<1>1. subs \in Map(SubARN, Subscription)
  BY DEF Typed
<1>2. Put(subs, arn, sub) \in Map(SubARN, Subscription)
  BY <1>1, MapPut
<1>3. QED
  BY <1>2 DEF Put

\* Saving a token, in the table or in what is left of it.
LEMMA PutToken ==
  ASSUME NEW m \in Map(ID, TokenRecord), NEW i \in ID, NEW tok \in TokenRecord
  PROVE  /\ Put(m, i, tok) \in Map(ID, TokenRecord)
         /\ DOMAIN Put(m, i, tok) = DOMAIN m \cup {i}
         /\ Put(m, i, tok)[i] = tok
         /\ \A k \in DOMAIN m : k # i => Put(m, i, tok)[k] = m[k]
<1>1. Put(m, i, tok) \in Map(ID, TokenRecord)
  BY MapPut
<1>2. QED
  BY <1>1 DEF Put

\* Two requests to subscribe one endpoint, when a third is none.
LEMMA OverlapsKept ==
  ASSUME Overlaps, contended \subseteq contended',
         \A r \in Request : \/ req'[r] = req[r]
                            \/ req'[r].pc \notin {"find", "create"}
  PROVE  Overlaps'
BY DEF Overlaps, Subscribing

-----------------------------------------------------------------------------
(***************************************************************************)
(* Steps that leave the tables alone.                                      *)
(***************************************************************************)
\* What a request may remember when it goes to state x.
GoodCopy(x) ==
  /\ x.pc = "confirm" =>
       /\ x.token < nextID /\ TokenOK(x.record, nextID)
       /\ x.record.SubscriptionARN \in presented'
       /\ x.token \in DOMAIN tokens => tokens[x.token] = x.record
  /\ x.pc # "drop"
  /\ x.pc \in {"unsubscribe", "delete"} => SubOK(x.arn, x.sub, nextID)
  /\ x.pc = "create" =>
       \A s \in DOMAIN subs :
         subs[s].TopicARN = x.TopicARN /\ subs[s].Endpoint = x.Endpoint
           => <<x.TopicARN, x.Endpoint>> \in contended'

\* Requests go on, history grows, and the rows stay.
LEMMA RequestStep ==
  ASSUME IInv, Typed', Overlaps', UNCHANGED <<subs, tokens, nextID>>,
         presented \subseteq presented', contended \subseteq contended',
         orphans' = orphans,
         \A r \in Request : req'[r] = req[r] \/ GoodCopy(req'[r])
  PROVE  IInv'
<1>1. RowsKnown'
  BY DEF IInv, RowsKnown, SubOK, TokenOK
<1>2. ConfirmCopies'
  BY DEF IInv, ConfirmCopies, GoodCopy, SubOK, TokenOK
<1>3. DropCopies'
  BY DEF IInv, DropCopies, GoodCopy
<1>4. UnsubscribeCopies'
  BY DEF IInv, UnsubscribeCopies, GoodCopy, SubOK
<1>5. CreateCopies'
  BY DEF IInv, CreateCopies, GoodCopy
<1>6. NoDanglingToken' /\ PendingIsConfirmable'
  BY DEF IInv, NoDanglingToken, PendingIsConfirmable
<1>7. ConfirmedByEndpoint'
  BY DEF IInv, ConfirmedByEndpoint
<1>8. OnePerEndpoint'
  BY DEF IInv, OnePerEndpoint
<1>9. QED
  BY <1>1, <1>2, <1>3, <1>4, <1>5, <1>6, <1>7, <1>8 DEF IInv

\* Subscribe: an overlap with another request for the endpoint is recorded.
LEMMA SubscribeStep ==
  ASSUME IInv, NEW r \in Request, NEW t \in TopicARN, NEW e \in Endpoint,
         Subscribe(r, t, e)
  PROVE  IInv'
<1> DEFINE x == [pc |-> "find", TopicARN |-> t, Endpoint |-> e]
<1>1. x \in ReqState
  BY DEF ReqState
<1>2. /\ req' \in [Request -> ReqState] /\ req'[r] = x
      /\ \A other \in Request : other # r => req'[other] = req[other]
  BY <1>1, GotoFacts DEF IInv, Subscribe
<1>3. /\ contended \subseteq contended' /\ contended' \subseteq TopicARN \X Endpoint
      /\ \A y \in Request : Subscribing(y, t, e) => <<t, e>> \in contended'
  BY DEF Subscribe, IInv, Typed
<1>4. Typed'
  BY <1>2, <1>3 DEF Subscribe, tables, IInv, Typed
<1>5. Overlaps'
  BY <1>2, <1>3 DEF IInv, Overlaps, Subscribing
<1>6. GoodCopy(req'[r])
  BY <1>2 DEF GoodCopy
<1>7. QED
  BY <1>2, <1>3, <1>4, <1>5, <1>6, RequestStep DEF Subscribe, tables

\* findExistingSubscription.
LEMMA FindExistingStep ==
  ASSUME IInv, NEW r \in Request, FindExisting(r)
  PROVE  IInv'
<1> DEFINE x == [req[r] EXCEPT !.pc = "create"]
<1>1. /\ req[r] \in ReqState /\ req[r].pc = "find" /\ Idle \in ReqState
      /\ x \in ReqState /\ x.pc = "create"
      /\ x.TopicARN = req[r].TopicARN /\ x.Endpoint = req[r].Endpoint
  BY RowTypes, ReqFacts DEF IInv, FindExisting, ReqState
<1> HIDE DEF x
<1>2. PICK y \in {Idle, x} : Goto(r, y)
                /\ (y = x => ~Exists(req[r].TopicARN, req[r].Endpoint))
  <2>1. Idle # x
    BY <1>1 DEF Idle
  <2>2. QED
    BY <2>1 DEF FindExisting, x
<1>3. /\ req' \in [Request -> ReqState] /\ req'[r] = y
      /\ \A other \in Request : other # r => req'[other] = req[other]
  BY <1>1, <1>2, GotoFacts DEF IInv
<1>4. Typed'
  BY <1>3 DEF FindExisting, tables, bookkeeping, IInv, Typed
<1>5. Overlaps'
  BY <1>1, <1>2, <1>3 DEF FindExisting, tables, bookkeeping, IInv, Overlaps, Subscribing, Idle
<1>6. GoodCopy(req'[r])
  BY <1>1, <1>2, <1>3 DEF GoodCopy, Idle, Exists, OfTopic
<1>7. QED
  BY <1>3, <1>4, <1>5, <1>6, RequestStep DEF FindExisting, tables, bookkeeping

\* findExistingSubscription with a failing query.
LEMMA FindNothingStep ==
  ASSUME IInv, NEW r \in Request, FindNothing(r)
  PROVE  IInv'
<1> DEFINE x == [req[r] EXCEPT !.pc = "create"]
<1>1. /\ req[r] \in ReqState /\ req[r].pc = "find"
      /\ req[r].TopicARN \in TopicARN /\ req[r].Endpoint \in Endpoint
      /\ x \in ReqState /\ x.pc = "create"
      /\ x.TopicARN = req[r].TopicARN /\ x.Endpoint = req[r].Endpoint
  BY RowTypes, ReqFacts DEF IInv, FindNothing
<1>2. Goto(r, x) /\ contended' = contended \cup {<<req[r].TopicARN, req[r].Endpoint>>}
  BY DEF FindNothing
<1> HIDE DEF x
<1>3. /\ req' \in [Request -> ReqState] /\ req'[r] = x
      /\ \A other \in Request : other # r => req'[other] = req[other]
  BY <1>1, <1>2, GotoFacts DEF IInv
<1>4. Typed'
  BY <1>1, <1>2, <1>3 DEF FindNothing, tables, IInv, Typed
<1>5. Overlaps'
  BY <1>1, <1>2, <1>3 DEF IInv, Overlaps, Subscribing
<1>6. GoodCopy(req'[r])
  BY <1>1, <1>2, <1>3 DEF GoodCopy
<1>7. QED
  BY <1>2, <1>3, <1>4, <1>5, <1>6, RequestStep DEF FindNothing, tables

\* ConfirmSubscription reads the token, and the endpoint has consented.
LEMMA ConfirmStep ==
  ASSUME IInv, NEW r \in Request, NEW k \in DOMAIN tokens, Confirm(r, k)
  PROVE  IInv'
<1> DEFINE x == [pc |-> "confirm", token |-> k, record |-> tokens[k]]
<1>1. x \in ReqState /\ tokens[k].SubscriptionARN \in SubARN
  BY RowTypes DEF IInv, ReqState, TokenRecord
<1>2. /\ req' \in [Request -> ReqState] /\ req'[r] = x
      /\ \A other \in Request : other # r => req'[other] = req[other]
  BY <1>1, GotoFacts DEF IInv, Confirm
<1>3. Typed'
  BY <1>1, <1>2 DEF Confirm, tables, IInv, Typed
<1>4. Overlaps'
  BY <1>2, OverlapsKept DEF IInv, Confirm
<1>5. GoodCopy(req'[r])
  BY <1>2 DEF GoodCopy, IInv, RowsKnown, Confirm
<1>6. QED
  BY <1>2, <1>3, <1>4, <1>5, RequestStep DEF Confirm, tables

\* Unsubscribe reads the subscription.
LEMMA UnsubscribeStep ==
  ASSUME IInv, NEW r \in Request, NEW s \in DOMAIN subs, Unsubscribe(r, s)
  PROVE  IInv'
<1> DEFINE x == [pc |-> "unsubscribe", arn |-> s, sub |-> subs[s]]
<1>1. x \in ReqState
  BY RowTypes DEF IInv, ReqState
<1>2. /\ req' \in [Request -> ReqState] /\ req'[r] = x
      /\ \A other \in Request : other # r => req'[other] = req[other]
  BY <1>1, GotoFacts DEF IInv, Unsubscribe
<1>3. Typed'
  BY <1>2 DEF Unsubscribe, tables, bookkeeping, IInv, Typed
<1>4. Overlaps'
  BY <1>2, OverlapsKept DEF IInv, Unsubscribe, bookkeeping
<1>5. GoodCopy(req'[r])
  BY <1>2 DEF GoodCopy, IInv, RowsKnown
<1>6. QED
  BY <1>2, <1>3, <1>4, <1>5, RequestStep DEF Unsubscribe, tables, bookkeeping

\* Unsubscribe asks for the topic.
LEMMA UnsubscribeTopicStep ==
  ASSUME IInv, NEW r \in Request, UnsubscribeTopic(r)
  PROVE  IInv'
<1> DEFINE x == [req[r] EXCEPT !.pc = "delete"]
<1>1. /\ req[r] \in ReqState /\ req[r].pc = "unsubscribe" /\ Idle \in ReqState
      /\ x \in ReqState /\ x.pc = "delete" /\ x.arn = req[r].arn /\ x.sub = req[r].sub
  BY RowTypes, ReqFacts DEF IInv, UnsubscribeTopic, ReqState
<1> HIDE DEF x
<1>2. PICK y \in {Idle, x} : Goto(r, y)
  BY DEF UnsubscribeTopic, x
<1>3. /\ req' \in [Request -> ReqState] /\ req'[r] = y
      /\ \A other \in Request : other # r => req'[other] = req[other]
  BY <1>1, <1>2, GotoFacts DEF IInv
<1>4. Typed'
  BY <1>3 DEF UnsubscribeTopic, tables, bookkeeping, IInv, Typed
<1>5. Overlaps'
  BY <1>1, <1>2, <1>3, OverlapsKept DEF IInv, UnsubscribeTopic, bookkeeping, Idle
<1>6. SubOK(req[r].arn, req[r].sub, nextID)
  BY <1>1 DEF IInv, UnsubscribeCopies
<1>7. GoodCopy(req'[r])
  BY <1>1, <1>2, <1>3, <1>6 DEF GoodCopy, Idle, SubOK
<1>8. QED
  BY <1>3, <1>4, <1>5, <1>7, RequestStep DEF UnsubscribeTopic, tables, bookkeeping

\* An error is returned.
LEMMA FailStep ==
  ASSUME IInv, NEW r \in Request, Fail(r)
  PROVE  IInv'
<1>1. /\ req' \in [Request -> ReqState] /\ req'[r] = Idle
      /\ \A other \in Request : other # r => req'[other] = req[other]
  BY GotoFacts DEF IInv, Fail, ReqState
<1>2. Typed'
  BY <1>1 DEF Fail, tables, bookkeeping, IInv, Typed
<1>3. Overlaps'
  BY <1>1, OverlapsKept DEF IInv, Fail, bookkeeping, Idle
<1>4. GoodCopy(req'[r])
  BY <1>1 DEF GoodCopy, Idle
<1>5. QED
  BY <1>1, <1>2, <1>3, <1>4, RequestStep DEF Fail, tables, bookkeeping

\* A crash forgets every request.
LEMMA CrashStep ==
  ASSUME IInv, Crash
  PROVE  IInv'
<1>1. req' \in [Request -> ReqState] /\ \A r \in Request : req'[r] = Idle
  BY DEF Crash, ReqState
<1>2. Typed'
  <2>1. pool' \in (SUBSET BOOLEAN) \ {{}}
    BY Zenon DEF Crash
  <2>2. crashes' \in 0..MaxCrashes
    BY BoundsAssumption DEF Crash, IInv, Typed
  <2>3. QED
    BY <1>1, <2>1, <2>2 DEF Crash, tables, IInv, Typed
<1>3. Overlaps'
  BY <1>1, OverlapsKept DEF IInv, Crash, Idle
<1>4. \A r \in Request : GoodCopy(req'[r])
  BY <1>1 DEF GoodCopy, Idle
<1>5. QED
  BY <1>2, <1>3, <1>4, RequestStep DEF Crash, tables

\* A token expires, a connection is opened, a topic is created.
LEMMA EnvironmentStep ==
  ASSUME IInv, \/ \E k \in DOMAIN tokens : Expire(k)
               \/ OpenConnection
               \/ \E t \in TopicARN : CreateTopicRow(t)
  PROVE  IInv'
<1>1. /\ UNCHANGED <<subs, tokens, req, nextID, presented, orphans, contended>>
  BY DEF Expire, OpenConnection, CreateTopicRow, tables
<1>2. Typed'
  <2>1. CASE \E k \in DOMAIN tokens : Expire(k)
    BY <2>1, RowTypes DEF Expire, tables, IInv, Typed
  <2>2. CASE OpenConnection
    <3>1. pool' \in (SUBSET BOOLEAN) \ {{}}
      BY <2>2, Zenon DEF OpenConnection, IInv, Typed
    <3>2. QED
      BY <2>2, <3>1 DEF OpenConnection, tables, IInv, Typed
  <2>3. CASE \E t \in TopicARN : CreateTopicRow(t)
    <3>1. created' \in 0..MaxTopics /\ topics' \subseteq TopicARN
      BY <2>3, BoundsAssumption DEF CreateTopicRow, IInv, Typed
    <3>2. QED
      BY <2>3, <3>1 DEF CreateTopicRow, IInv, Typed
  <2>4. QED
    BY <2>1, <2>2, <2>3
<1>3. Overlaps'
  BY <1>1, OverlapsKept DEF IInv
<1>4. QED
  BY <1>1, <1>2, <1>3, RequestStep

-----------------------------------------------------------------------------
(***************************************************************************)
(* Steps that change the tables.                                           *)
(***************************************************************************)
\* Rows go, and no request moves: what is left of the tables is as it was.
\* Subscriptions lose their tokens only together, or become orphans.
LEMMA DeleteTopicStep ==
  ASSUME IInv, NEW t \in TopicARN, DeleteTopicRows(t)
  PROVE  IInv'
<1>1. /\ UNCHANGED <<expired, req, pool, nextID, created, crashes, presented, contended>>
      /\ topics' = topics \ {t}
  BY DEF DeleteTopicRows
<1>2. /\ tokens' \in Map(ID, TokenRecord)
      /\ DOMAIN tokens' = { k \in DOMAIN tokens : tokens[k].TopicARN # t }
      /\ \A k \in DOMAIN tokens' : tokens'[k] = tokens[k]
  <2>1. Typed
    BY DEF IInv
  <2> DEFINE S == OfTopic(tokens, t)
  <2>2. tokens' = Drop(tokens, S)
    BY DEF DeleteTopicRows
  <2>3. S = { k \in DOMAIN tokens : tokens[k].TopicARN = t }
    BY DEF OfTopic
  <2> HIDE DEF S
  <2>4. /\ Drop(tokens, S) \in Map(ID, TokenRecord)
        /\ DOMAIN Drop(tokens, S) = DOMAIN tokens \ S
        /\ \A k \in DOMAIN tokens \ S : Drop(tokens, S)[k] = tokens[k]
    BY <2>1, DropRows
  <2>5. QED
    BY <2>2, <2>3, <2>4
<1>3. /\ subs' \in Map(SubARN, Subscription)
      /\ DOMAIN subs' \subseteq DOMAIN subs
      /\ \A s \in DOMAIN subs : subs[s].TopicARN # t => s \in DOMAIN subs'
      /\ \A s \in DOMAIN subs' : subs'[s] = subs[s]
      /\ orphans' \subseteq SubARN /\ orphans \subseteq orphans'
      /\ \A s \in DOMAIN subs' : subs[s].TopicARN = t => s \in orphans'
  <2> DEFINE S == OfTopic(subs, t)
  <2>1. PICK foreignKeys \in pool :
          /\ subs' = IF foreignKeys THEN Drop(subs, S) ELSE subs
          /\ orphans' = IF foreignKeys THEN orphans ELSE orphans \cup S
    BY DEF DeleteTopicRows
  <2>2. S = { s \in DOMAIN subs : subs[s].TopicARN = t }
    BY DEF OfTopic
  <2> HIDE DEF S
  <2>3. orphans \subseteq SubARN
    BY DEF IInv, Typed
  <2>8. Typed /\ DOMAIN subs \subseteq SubARN
    BY RowTypes DEF IInv
  <2>4. /\ Drop(subs, S) \in Map(SubARN, Subscription)
        /\ DOMAIN Drop(subs, S) = DOMAIN subs \ S
        /\ \A s \in DOMAIN subs \ S : Drop(subs, S)[s] = subs[s]
    BY <2>8, DropRows
  <2>5. CASE foreignKeys
    BY <2>1, <2>2, <2>3, <2>4, <2>5
  <2>6. CASE ~foreignKeys
    BY <2>1, <2>2, <2>3, <2>8, <2>6 DEF Typed
  <2>7. QED
    BY <2>5, <2>6
<1>4. Typed'
  BY <1>1, <1>2, <1>3 DEF IInv, Typed
<1>5. RowsKnown'
  BY <1>1, <1>2, <1>3 DEF IInv, RowsKnown, SubOK, TokenOK
<1>6. ConfirmCopies'
  BY <1>1, <1>2 DEF IInv, ConfirmCopies, SubOK, TokenOK
<1>7. DropCopies'
  BY <1>1, <1>2, <1>3 DEF IInv, DropCopies
<1>8. UnsubscribeCopies' /\ CreateCopies'
  BY <1>1, <1>3 DEF IInv, UnsubscribeCopies, CreateCopies, SubOK
<1>9. Overlaps'
  BY <1>1, OverlapsKept DEF IInv
<1>10. NoDanglingToken'
  BY <1>2, <1>3 DEF IInv, NoDanglingToken, RowsKnown, SubOK, TokenOK
<1>11. ConfirmedByEndpoint'
  BY <1>1, <1>3 DEF IInv, ConfirmedByEndpoint
<1>12. PendingIsConfirmable'
  <2>1. SUFFICES ASSUME NEW s \in DOMAIN subs' \ orphans', ~subs'[s].Confirmed
                 PROVE  \E k \in DOMAIN tokens' :
                          tokens'[k].Kind = "subscribe" /\ tokens'[k].SubscriptionARN = s
    BY DEF PendingIsConfirmable
  <2>2. s \in DOMAIN subs \ orphans /\ ~subs[s].Confirmed /\ subs[s].TopicARN # t
    BY <1>3, <2>1
  <2>3. PICK k \in DOMAIN tokens :
          tokens[k].Kind = "subscribe" /\ tokens[k].SubscriptionARN = s
    BY <2>2 DEF IInv, PendingIsConfirmable
  <2>4. tokens[k].TopicARN # t
    BY <2>2, <2>3 DEF IInv, RowsKnown, SubOK, TokenOK
  <2>5. QED
    BY <1>2, <2>3, <2>4
<1>13. OnePerEndpoint'
  BY <1>1, <1>3 DEF IInv, OnePerEndpoint
<1>14. QED
  BY <1>4, <1>5, <1>6, <1>7, <1>8, <1>9, <1>10, <1>11, <1>12, <1>13 DEF IInv

\* A subscription with a new ARN, and a new token for it if it is pending.
LEMMA InsertStep ==
  ASSUME IInv, NEW r \in Request, InsertSubscription(r)
  PROVE  IInv'
<1> DEFINE x == req[r]
           arn == SubscriptionARN(x.TopicARN, nextID)
           new == NewSubscription(x)
           tok == [Kind |-> "subscribe", SubscriptionARN |-> arn,
                   TopicARN |-> x.TopicARN, Restore |-> new]
<1>1. /\ x.pc = "create" /\ x.TopicARN \in TopicARN /\ x.Endpoint \in Endpoint
      /\ nextID \in Nat /\ nextID >= 1 /\ MaxID \in Nat /\ nextID < MaxID
      /\ nextID' = nextID + 2
  <2>1. x \in ReqState /\ nextID \in Nat /\ MaxID \in Nat
    BY RowTypes DEF IInv
  <2>2. nextID >= 1
    BY BoundsAssumption DEF IInv, Typed
  <2>3. x.pc = "create" /\ nextID < MaxID /\ nextID' = nextID + 2
    BY DEF InsertSubscription
  <2>4. QED
    BY <2>1, <2>2, <2>3, ReqFacts
<1>2. nextID \in ID /\ nextID + 1 \in ID /\ nextID' \in 1..(MaxID + 1)
  BY <1>1 DEF ID
<1>3. arn \in SubARN /\ arn[1] = x.TopicARN /\ arn[2] = nextID
  BY <1>1, <1>2, ARNFacts
<1>4. /\ new \in Subscription /\ new.TopicARN = x.TopicARN /\ new.Endpoint = x.Endpoint
      /\ new.Confirmed <=> ~IsHTTP(x.Endpoint)
  <2>1. IsHTTP(x.Endpoint) \in BOOLEAN
    BY DEF IsHTTP
  <2>2. QED
    BY <1>1, <2>1 DEF NewSubscription, Subscription
<1> HIDE DEF arn, new
<1>5. /\ tok \in TokenRecord /\ tok.Kind = "subscribe" /\ tok.SubscriptionARN = arn
      /\ tok.TopicARN = x.TopicARN /\ tok.Restore = new
  BY <1>1, <1>3, <1>4 DEF TokenRecord
<1> HIDE DEF tok
<1>6. \A s \in DOMAIN subs : s # arn /\ s[2] < nextID
  BY <1>1, <1>3 DEF IInv, RowsKnown, SubOK
<1>7. \A k \in DOMAIN tokens : k # nextID + 1 /\ k < nextID /\ k \in Nat
  BY <1>1, RowTypes DEF IInv, RowsKnown, ID
<1>8. /\ subs' \in Map(SubARN, Subscription) /\ DOMAIN subs' = DOMAIN subs \cup {arn}
      /\ subs'[arn] = new /\ \A s \in DOMAIN subs : subs'[s] = subs[s]
  <2>1. Typed /\ subs' = Put(subs, arn, new)
    BY DEF InsertSubscription, arn, new, IInv
  <2>2. QED
    BY <1>3, <1>4, <1>6, <2>1, PutSubscription
<1>9. /\ tokens' \in Map(ID, TokenRecord)
      /\ DOMAIN tokens' = DOMAIN tokens \cup (IF IsHTTP(x.Endpoint) THEN {nextID + 1} ELSE {})
      /\ IsHTTP(x.Endpoint) => tokens'[nextID + 1] = tok
      /\ \A k \in DOMAIN tokens : tokens'[k] = tokens[k]
  <2>1. tokens' = IF IsHTTP(x.Endpoint) THEN Put(tokens, nextID + 1, tok) ELSE tokens
    BY DEF InsertSubscription, tok, arn, new
  <2>2. tokens \in Map(ID, TokenRecord)
    BY DEF IInv, Typed
  <2>3. CASE IsHTTP(x.Endpoint)
    <3> DEFINE i == nextID + 1
    <3>0. i \in ID
      BY <1>2
    <3>3. tok \in TokenRecord
      BY <1>5
    <3> HIDE DEF i
    <3>1. /\ Put(tokens, i, tok) \in Map(ID, TokenRecord)
          /\ DOMAIN Put(tokens, i, tok) = DOMAIN tokens \cup {i}
          /\ Put(tokens, i, tok)[i] = tok
          /\ \A k \in DOMAIN tokens : k # i => Put(tokens, i, tok)[k] = tokens[k]
      BY <2>2, <3>0, <3>3, PutToken
    <3>2. QED
      BY <1>7, <2>1, <2>3, <3>1 DEF i
  <2>4. CASE ~IsHTTP(x.Endpoint)
    BY <2>1, <2>2, <2>4
  <2>5. QED
    BY <2>3, <2>4
<1>10. /\ req' \in [Request -> ReqState] /\ req'[r] = Idle
       /\ \A other \in Request : other # r => req'[other] = req[other]
  BY GotoFacts DEF IInv, InsertSubscription, ReqState
<1>11. /\ UNCHANGED <<topics, expired, pool, created, crashes, presented, contended>>
       /\ orphans' \subseteq SubARN /\ orphans \subseteq orphans'
  BY <1>3 DEF InsertSubscription, arn, IInv, Typed
<1>12. Typed'
  BY <1>2, <1>8, <1>9, <1>10, <1>11 DEF IInv, Typed
<1>13. nextID < nextID'
  BY <1>1
<1>14. /\ \A s \in SubARN : s[2] \in Nat
       /\ \A k \in DOMAIN tokens : tokens[k].SubscriptionARN[2] \in Nat
       /\ \A y \in Request : req[y].pc = "confirm" =>
            req[y].token \in Nat /\ req[y].record.SubscriptionARN[2] \in Nat
       /\ \A y \in Request : req[y].pc = "drop" => req[y].token \in Nat
       /\ \A y \in Request : req[y].pc \in {"unsubscribe", "delete"} => req[y].arn[2] \in Nat
  BY NumberFacts DEF IInv
<1>15. RowsKnown'
  <2>1. ASSUME NEW s \in DOMAIN subs' PROVE SubOK(s, subs'[s], nextID')
    <3>1. CASE s = arn
      BY <1>1, <1>3, <1>4, <1>8, <3>1 DEF SubOK
    <3>2. CASE s \in DOMAIN subs
      <4>1. s[2] \in Nat /\ SubOK(s, subs[s], nextID)
        BY <1>14, <3>2, RowTypes DEF IInv, RowsKnown
      <4>2. QED
        BY <1>1, <1>8, <3>2, <4>1 DEF SubOK
    <3>3. QED
      BY <1>8, <3>1, <3>2
  <2>2. ASSUME NEW k \in DOMAIN tokens' PROVE k < nextID' /\ TokenOK(tokens'[k], nextID')
    <3>1. CASE k \in DOMAIN tokens
      BY <1>1, <1>7, <1>9, <1>14, <3>1 DEF SubOK, TokenOK, IInv, RowsKnown
    <3>2. CASE k = nextID + 1 /\ tokens'[k] = tok
      BY <1>1, <1>3, <1>4, <1>5, <3>2 DEF SubOK, TokenOK
    <3>3. QED
      BY <1>9, <3>1, <3>2
  <2>3. QED
    BY <2>1, <2>2 DEF RowsKnown, SubOK, TokenOK
<1>16. ConfirmCopies'
  <2>1. SUFFICES ASSUME NEW y \in Request, req'[y].pc = "confirm"
        PROVE  /\ req'[y].token < nextID'
               /\ TokenOK(req'[y].record, nextID')
               /\ req'[y].record.SubscriptionARN \in presented'
               /\ req'[y].token \in DOMAIN tokens' => tokens'[req'[y].token] = req'[y].record
    BY DEF ConfirmCopies, TokenOK, SubOK
  <2>2. req'[y] = req[y] /\ req[y].pc = "confirm"
    BY <1>10, <2>1 DEF Idle
  <2>3. QED
    BY <1>1, <1>9, <1>11, <1>14, <2>2 DEF IInv, ConfirmCopies, TokenOK, SubOK
<1>17. DropCopies'
  <2>1. SUFFICES ASSUME NEW y \in Request, req'[y].pc = "drop"
        PROVE  /\ req'[y].token < nextID'
               /\ \A s \in DOMAIN subs' :
                    /\ req'[y].token \in DOMAIN tokens'
                    /\ tokens'[req'[y].token].Kind = "subscribe"
                    /\ tokens'[req'[y].token].SubscriptionARN = s
                    => subs'[s].Confirmed
    BY DEF DropCopies
  <2>2. req'[y] = req[y] /\ req[y].pc = "drop"
    BY <1>10, <2>1 DEF Idle
  <2>3. req[y].token < nextID /\ req[y].token \in Nat
    BY <1>14, <2>2 DEF IInv, DropCopies
  <2>4. req[y].token \in DOMAIN tokens' => req[y].token \in DOMAIN tokens
    BY <1>1, <1>9, <2>3
  <2>5. \A k \in DOMAIN tokens : tokens[k].Kind = "subscribe" =>
                                    tokens[k].SubscriptionARN \in DOMAIN subs
    BY DEF IInv, NoDanglingToken
  <2>6. QED
    BY <1>1, <1>8, <1>9, <2>2, <2>3, <2>4, <2>5 DEF IInv, DropCopies
<1>18. UnsubscribeCopies'
  BY <1>1, <1>10, <1>14 DEF IInv, UnsubscribeCopies, SubOK, Idle
<1>19. CreateCopies'
  <2>1. SUFFICES ASSUME NEW y \in Request, NEW s \in DOMAIN subs', req'[y].pc = "create",
                        subs'[s].TopicARN = req'[y].TopicARN,
                        subs'[s].Endpoint = req'[y].Endpoint
                 PROVE  <<req'[y].TopicARN, req'[y].Endpoint>> \in contended'
    BY DEF CreateCopies
  <2>2. y # r /\ req'[y] = req[y]
    BY <1>10, <2>1 DEF Idle
  <2>3. CASE s = arn
    <3>1. Subscribing(y, x.TopicARN, x.Endpoint) /\ Subscribing(r, x.TopicARN, x.Endpoint)
      BY <1>1, <1>4, <1>8, <2>1, <2>2, <2>3 DEF Subscribing
    <3>2. QED
      BY <1>1, <1>4, <1>8, <1>11, <2>1, <2>2, <2>3, <3>1 DEF IInv, Overlaps
  <2>4. CASE s \in DOMAIN subs
    BY <1>8, <1>11, <2>1, <2>2, <2>4 DEF IInv, CreateCopies
  <2>5. QED
    BY <1>8, <2>3, <2>4
<1>20. Overlaps'
  BY <1>10, <1>11, OverlapsKept DEF IInv, Idle
<1>21. NoDanglingToken'
  BY <1>5, <1>8, <1>9 DEF IInv, NoDanglingToken
<1>22. ConfirmedByEndpoint'
  BY <1>4, <1>8, <1>11 DEF IInv, ConfirmedByEndpoint
<1>23. PendingIsConfirmable'
  BY <1>4, <1>5, <1>8, <1>9, <1>11 DEF IInv, PendingIsConfirmable
<1>24. OnePerEndpoint'
  <2>1. \A s \in DOMAIN subs : subs[s].TopicARN = x.TopicARN /\ subs[s].Endpoint = x.Endpoint
                                 => <<x.TopicARN, x.Endpoint>> \in contended
    BY <1>1 DEF IInv, CreateCopies
  <2>2. QED
    BY <1>4, <1>8, <1>11, <2>1 DEF IInv, OnePerEndpoint
<1>25. QED
  BY <1>12, <1>15, <1>16, <1>17, <1>18, <1>19, <1>20, <1>21, <1>22, <1>23, <1>24 DEF IInv

\* Kind "subscribe": the row is confirmed, if it is still there.
LEMMA ConfirmUpdateStep ==
  ASSUME IInv, NEW r \in Request, ConfirmUpdate(r)
  PROVE  IInv'
<1> DEFINE x == req[r]
           arn == x.record.SubscriptionARN
<1>1. x.pc = "confirm" /\ x.token \in ID /\ x.record.Kind = "subscribe" /\ Idle \in ReqState
  <2>1. x \in ReqState
    BY RowTypes DEF IInv
  <2>2. QED
    BY <2>1, ReqFacts DEF ConfirmUpdate, ReqState
<1>2. /\ x.token < nextID /\ arn \in presented
      /\ x.token \in DOMAIN tokens => tokens[x.token] = x.record
  BY <1>1 DEF IInv, ConfirmCopies
<1>3. /\ UNCHANGED <<topics, tokens, expired, pool, nextID, created, crashes,
                     presented, orphans, contended>>
  BY DEF ConfirmUpdate, bookkeeping
<1>4. CASE arn \notin DOMAIN subs
  <2>1. Goto(r, Idle) /\ subs' = subs
    BY <1>4 DEF ConfirmUpdate
  <2>2. /\ req' \in [Request -> ReqState] /\ req'[r] = Idle
        /\ \A other \in Request : other # r => req'[other] = req[other]
    BY <1>1, <2>1, GotoFacts DEF IInv
  <2>3. Typed'
    BY <1>3, <2>1, <2>2 DEF IInv, Typed
  <2>4. Overlaps'
    BY <1>3, <2>2, OverlapsKept DEF IInv, Idle
  <2>5. GoodCopy(req'[r])
    BY <2>2 DEF GoodCopy, Idle
  <2>6. QED
    BY <1>3, <2>1, <2>2, <2>3, <2>4, <2>5, RequestStep
<1>5. CASE arn \in DOMAIN subs
  <2> DEFINE d == [pc |-> "drop", token |-> x.token]
  <2>1. d \in ReqState /\ d.pc = "drop" /\ d.token = x.token
    BY <1>1 DEF ReqState
  <2> HIDE DEF d
  <2>2. Goto(r, d) /\ subs' = [subs EXCEPT ![arn].Confirmed = TRUE]
    BY <1>5 DEF ConfirmUpdate, d
  <2>3. /\ req' \in [Request -> ReqState] /\ req'[r] = d
        /\ \A other \in Request : other # r => req'[other] = req[other]
    BY <2>1, <2>2, GotoFacts DEF IInv
  <2>4. \A s \in DOMAIN subs : subs[s] \in Subscription
    BY RowTypes DEF IInv
  <2>5. /\ DOMAIN subs' = DOMAIN subs
        /\ \A s \in DOMAIN subs : /\ subs'[s] \in Subscription
                                  /\ subs'[s].TopicARN = subs[s].TopicARN
                                  /\ subs'[s].Endpoint = subs[s].Endpoint
                                  /\ subs[s].Confirmed => subs'[s].Confirmed
                                  /\ s # arn => subs'[s] = subs[s]
        /\ subs'[arn].Confirmed
    BY <1>5, <2>2, <2>4 DEF Subscription
  <2>6. subs' \in Map(SubARN, Subscription)
    <3>1. subs' \in [DOMAIN subs -> Subscription]
      BY <2>2, <2>5
    <3>2. DOMAIN subs \in SUBSET SubARN
      BY RowTypes DEF IInv
    <3>3. QED
      BY <3>1, <3>2, MapIntro
  <2>7. Typed'
    BY <1>3, <2>3, <2>6 DEF IInv, Typed
  <2>8. RowsKnown'
    BY <1>3, <2>5 DEF IInv, RowsKnown, SubOK, TokenOK
  <2>9. ConfirmCopies'
    BY <1>3, <2>1, <2>3 DEF IInv, ConfirmCopies, SubOK, TokenOK
  <2>10. DropCopies'
    BY <1>1, <1>2, <1>3, <2>1, <2>3, <2>5 DEF IInv, DropCopies
  <2>11. UnsubscribeCopies' /\ CreateCopies'
    BY <1>3, <2>1, <2>3, <2>5 DEF IInv, UnsubscribeCopies, CreateCopies, SubOK
  <2>12. Overlaps'
    BY <1>3, <2>1, <2>3, OverlapsKept DEF IInv
  <2>13. NoDanglingToken' /\ PendingIsConfirmable'
    BY <1>3, <2>5 DEF IInv, NoDanglingToken, PendingIsConfirmable
  <2>14. ConfirmedByEndpoint'
    BY <1>2, <1>3, <2>5 DEF IInv, ConfirmedByEndpoint
  <2>15. OnePerEndpoint'
    BY <1>3, <2>5 DEF IInv, OnePerEndpoint
  <2>16. QED
    BY <2>7, <2>8, <2>9, <2>10, <2>11, <2>12, <2>13, <2>14, <2>15 DEF IInv
<1>6. QED
  BY <1>4, <1>5

\* Kind "unsubscribe": the copy in the token becomes a row again.
LEMMA ConfirmRestoreStep ==
  ASSUME IInv, NEW r \in Request, ConfirmRestore(r)
  PROVE  IInv'
<1> DEFINE x == req[r]
           arn == x.record.SubscriptionARN
           new == [x.record.Restore EXCEPT !.Confirmed = TRUE]
           d == [pc |-> "drop", token |-> x.token]
<1>1. /\ x.pc = "confirm" /\ x.token \in ID /\ x.record \in TokenRecord
      /\ x.record.Kind = "unsubscribe" /\ Idle \in ReqState
  <2>1. x \in ReqState
    BY RowTypes DEF IInv
  <2>2. QED
    BY <2>1, ReqFacts DEF ConfirmRestore, ReqState
<1>2. /\ x.token < nextID /\ arn \in presented
      /\ SubOK(arn, x.record, nextID) /\ x.record.Restore.TopicARN = x.record.TopicARN
      /\ x.token \in DOMAIN tokens => tokens[x.token] = x.record
  BY <1>1 DEF IInv, ConfirmCopies, TokenOK
<1>3. UNCHANGED <<topics, tokens, expired, pool, nextID, created, crashes, presented>>
  BY DEF ConfirmRestore
<1>4. \/ Goto(r, Idle) /\ UNCHANGED <<subs, orphans, contended>>
      \/ /\ arn \notin DOMAIN subs
         /\ subs' = Put(subs, arn, new)
         /\ orphans' = IF x.record.TopicARN \in topics THEN orphans ELSE orphans \cup {arn}
         /\ contended' = contended \cup {<<x.record.TopicARN, x.record.Restore.Endpoint>>}
         /\ Goto(r, d)
  BY DEF ConfirmRestore
<1>5. CASE Goto(r, Idle) /\ UNCHANGED <<subs, orphans, contended>>
  <2>1. /\ req' \in [Request -> ReqState] /\ req'[r] = Idle
        /\ \A other \in Request : other # r => req'[other] = req[other]
    BY <1>1, <1>5, GotoFacts DEF IInv
  <2>2. Typed'
    BY <1>3, <1>5, <2>1 DEF IInv, Typed
  <2>3. Overlaps'
    BY <1>5, <2>1, OverlapsKept DEF IInv, Idle
  <2>4. GoodCopy(req'[r])
    BY <2>1 DEF GoodCopy, Idle
  <2>5. QED
    BY <1>3, <1>5, <2>1, <2>2, <2>3, <2>4, RequestStep
<1>6. CASE /\ arn \notin DOMAIN subs
           /\ subs' = Put(subs, arn, new)
           /\ orphans' = IF x.record.TopicARN \in topics THEN orphans ELSE orphans \cup {arn}
           /\ contended' = contended \cup {<<x.record.TopicARN, x.record.Restore.Endpoint>>}
           /\ Goto(r, d)
  <2>1. d \in ReqState /\ d.pc = "drop" /\ d.token = x.token
    BY <1>1 DEF ReqState
  <2>2. /\ new \in Subscription /\ new.TopicARN = x.record.TopicARN
        /\ new.Endpoint = x.record.Restore.Endpoint /\ new.Confirmed
        /\ arn \in SubARN /\ x.record.TopicARN \in TopicARN /\ new.Endpoint \in Endpoint
    BY <1>1, <1>2 DEF TokenRecord, Subscription
  <2> HIDE DEF d, new
  <2>3. /\ req' \in [Request -> ReqState] /\ req'[r] = d
        /\ \A other \in Request : other # r => req'[other] = req[other]
    BY <1>6, <2>1, GotoFacts DEF IInv
  <2>4. /\ subs' \in Map(SubARN, Subscription)
        /\ DOMAIN subs' = DOMAIN subs \cup {arn} /\ subs'[arn] = new
        /\ \A s \in DOMAIN subs : s # arn /\ subs'[s] = subs[s]
    <3>1. Typed
      BY DEF IInv
    <3>2. QED
      BY <1>6, <2>2, <3>1, PutSubscription
  <2>5. /\ contended \subseteq contended' /\ contended' \subseteq TopicARN \X Endpoint
        /\ <<new.TopicARN, new.Endpoint>> \in contended'
        /\ orphans \subseteq orphans' /\ orphans' \subseteq SubARN
    BY <1>6, <2>2 DEF IInv, Typed
  <2>6. Typed'
    BY <1>3, <2>3, <2>4, <2>5 DEF IInv, Typed
  <2>7. RowsKnown'
    BY <1>2, <1>3, <2>2, <2>4 DEF IInv, RowsKnown, SubOK, TokenOK
  <2>8. ConfirmCopies'
    BY <1>3, <2>1, <2>3 DEF IInv, ConfirmCopies, SubOK, TokenOK
  <2>9. DropCopies'
    BY <1>1, <1>2, <1>3, <2>1, <2>2, <2>3, <2>4 DEF IInv, DropCopies
  <2>10. UnsubscribeCopies'
    BY <1>3, <2>1, <2>3 DEF IInv, UnsubscribeCopies, SubOK
  <2>11. CreateCopies'
    <3>1. SUFFICES ASSUME NEW y \in Request, NEW s \in DOMAIN subs', req'[y].pc = "create",
                          subs'[s].TopicARN = req'[y].TopicARN,
                          subs'[s].Endpoint = req'[y].Endpoint
                   PROVE  <<req'[y].TopicARN, req'[y].Endpoint>> \in contended'
      BY DEF CreateCopies
    <3>2. req'[y] = req[y]
      BY <2>1, <2>3, <3>1
    <3>3. CASE s = arn
      BY <2>4, <2>5, <3>1, <3>3
    <3>4. CASE s \in DOMAIN subs
      BY <2>4, <2>5, <3>1, <3>2, <3>4 DEF IInv, CreateCopies
    <3>5. QED
      BY <2>4, <3>3, <3>4
  <2>12. Overlaps'
    BY <2>1, <2>3, <2>5, OverlapsKept DEF IInv
  <2>13. NoDanglingToken'
    BY <1>3, <2>4 DEF IInv, NoDanglingToken
  <2>14. ConfirmedByEndpoint'
    BY <1>2, <1>3, <2>4 DEF IInv, ConfirmedByEndpoint
  <2>15. PendingIsConfirmable'
    BY <1>3, <2>2, <2>4, <2>5 DEF IInv, PendingIsConfirmable
  <2>16. OnePerEndpoint'
    BY <2>4, <2>5 DEF IInv, OnePerEndpoint
  <2>17. QED
    BY <2>6, <2>7, <2>8, <2>9, <2>10, <2>11, <2>12, <2>13, <2>14, <2>15, <2>16 DEF IInv
<1>7. QED
  BY <1>4, <1>5, <1>6

\* A token that has been used goes, or stays when its deletion fails.
LEMMA DropTokenStep ==
  ASSUME IInv, NEW r \in Request, DropToken(r)
  PROVE  IInv'
<1> DEFINE i == req[r].token
<1>1. req[r].pc = "drop"
  BY DEF DropToken
<1>2. /\ req' \in [Request -> ReqState] /\ req'[r] = Idle
      /\ \A other \in Request : other # r => req'[other] = req[other]
  BY GotoFacts DEF IInv, DropToken, ReqState
<1>3. UNCHANGED <<topics, subs, expired, pool, nextID, created, crashes,
                  presented, orphans, contended>>
  BY DEF DropToken, bookkeeping
<1>4. /\ tokens' \in Map(ID, TokenRecord)
      /\ DOMAIN tokens' \subseteq DOMAIN tokens
      /\ \A k \in DOMAIN tokens : k # i => k \in DOMAIN tokens'
      /\ \A k \in DOMAIN tokens' : tokens'[k] = tokens[k]
  <2>1. Typed /\ tokens \in Map(ID, TokenRecord)
    BY DEF IInv, Typed
  <2>2. CASE tokens' = tokens
    BY <2>1, <2>2
  <2>3. CASE tokens' = Drop(tokens, {i})
    BY <2>1, <2>3, DropRows
  <2>4. QED
    BY <2>2, <2>3 DEF DropToken
<1>5. Typed'
  BY <1>2, <1>3, <1>4 DEF IInv, Typed
<1>6. RowsKnown'
  BY <1>3, <1>4 DEF IInv, RowsKnown, SubOK, TokenOK
<1>7. ConfirmCopies'
  BY <1>2, <1>3, <1>4 DEF IInv, ConfirmCopies, SubOK, TokenOK, Idle
<1>8. DropCopies'
  BY <1>2, <1>3, <1>4 DEF IInv, DropCopies, Idle
<1>9. UnsubscribeCopies' /\ CreateCopies'
  BY <1>2, <1>3 DEF IInv, UnsubscribeCopies, CreateCopies, SubOK, Idle
<1>10. Overlaps'
  BY <1>2, <1>3, OverlapsKept DEF IInv, Idle
<1>11. NoDanglingToken'
  BY <1>3, <1>4 DEF IInv, NoDanglingToken
<1>12. ConfirmedByEndpoint' /\ OnePerEndpoint'
  BY <1>3 DEF IInv, ConfirmedByEndpoint, OnePerEndpoint
<1>13. PendingIsConfirmable'
  <2>1. SUFFICES ASSUME NEW s \in DOMAIN subs \ orphans, ~subs[s].Confirmed
                 PROVE  \E k \in DOMAIN tokens' :
                          tokens'[k].Kind = "subscribe" /\ tokens'[k].SubscriptionARN = s
    BY <1>3 DEF PendingIsConfirmable
  <2>2. PICK k \in DOMAIN tokens :
          tokens[k].Kind = "subscribe" /\ tokens[k].SubscriptionARN = s
    BY <2>1 DEF IInv, PendingIsConfirmable
  <2>3. k # i
    BY <1>1, <2>1, <2>2 DEF IInv, DropCopies
  <2>4. QED
    BY <1>4, <2>2, <2>3
<1>14. QED
  BY <1>5, <1>6, <1>7, <1>8, <1>9, <1>10, <1>11, <1>12, <1>13 DEF IInv

\* A subscription goes with its tokens; a new token holds the copy read before.
LEMMA DeleteSubscriptionStep ==
  ASSUME IInv, NEW r \in Request, DeleteSubscriptionRows(r)
  PROVE  IInv'
<1> DEFINE x == req[r]
           arn == x.arn
           http == IsHTTP(x.sub.Endpoint)
           tok == [Kind |-> "unsubscribe", SubscriptionARN |-> arn,
                   TopicARN |-> x.sub.TopicARN, Restore |-> x.sub]
           left == Drop(tokens, TokensOf(arn))
<1>1. /\ x.pc = "delete" /\ arn \in SubARN /\ x.sub \in Subscription
      /\ arn \in DOMAIN subs /\ SubOK(arn, x.sub, nextID)
      /\ nextID \in Nat /\ nextID >= 1 /\ MaxID \in Nat /\ nextID <= MaxID
      /\ nextID' = nextID + 1
  <2>1. x \in ReqState /\ nextID \in Nat /\ MaxID \in Nat
    BY RowTypes DEF IInv
  <2>2. nextID >= 1
    BY BoundsAssumption DEF IInv, Typed
  <2>3. x.pc = "delete" /\ arn \in DOMAIN subs /\ nextID <= MaxID /\ nextID' = nextID + 1
    BY DEF DeleteSubscriptionRows
  <2>4. SubOK(arn, x.sub, nextID)
    BY <2>3 DEF IInv, UnsubscribeCopies
  <2>5. QED
    BY <2>1, <2>2, <2>3, <2>4, ReqFacts
<1>2. nextID \in ID /\ nextID' \in 1..(MaxID + 1)
  BY <1>1 DEF ID
<1>3. /\ tok \in TokenRecord /\ tok.Kind = "unsubscribe" /\ tok.SubscriptionARN = arn
      /\ tok.TopicARN = x.sub.TopicARN /\ tok.Restore = x.sub
  BY <1>1 DEF TokenRecord, Subscription
<1> HIDE DEF tok
<1>4. \A k \in DOMAIN tokens : k # nextID /\ k < nextID /\ k \in Nat
  BY <1>1, NumberFacts DEF IInv, RowsKnown
<1>5. /\ subs' \in Map(SubARN, Subscription) /\ DOMAIN subs' = DOMAIN subs \ {arn}
      /\ \A s \in DOMAIN subs' : subs'[s] = subs[s]
  <2> DEFINE S == {arn}
  <2>1. Typed /\ subs' = Drop(subs, S)
    BY DEF IInv, DeleteSubscriptionRows
  <2> HIDE DEF S
  <2>2. /\ Drop(subs, S) \in Map(SubARN, Subscription)
        /\ DOMAIN Drop(subs, S) = DOMAIN subs \ S
        /\ \A s \in DOMAIN subs : s \notin S => Drop(subs, S)[s] = subs[s]
    BY <2>1, DropRows
  <2>3. QED
    BY <2>1, <2>2 DEF S
<1>6. /\ left \in Map(ID, TokenRecord)
      /\ DOMAIN left = { k \in DOMAIN tokens : tokens[k].SubscriptionARN # arn }
      /\ \A k \in DOMAIN left : left[k] = tokens[k]
  <2> DEFINE S == TokensOf(arn)
  <2>1. S = { k \in DOMAIN tokens : tokens[k].SubscriptionARN = arn } /\ Typed
    BY DEF TokensOf, IInv
  <2>2. left = Drop(tokens, S)
    OBVIOUS
  <2> HIDE DEF S, left
  <2>3. /\ Drop(tokens, S) \in Map(ID, TokenRecord)
        /\ DOMAIN Drop(tokens, S) = DOMAIN tokens \ S
        /\ \A k \in DOMAIN tokens : k \notin S => Drop(tokens, S)[k] = tokens[k]
    BY <2>1, DropRows
  <2>4. QED
    BY <2>1, <2>2, <2>3
<1> HIDE DEF left
<1>7. /\ tokens' \in Map(ID, TokenRecord)
      /\ DOMAIN tokens' = DOMAIN left \cup (IF http THEN {nextID} ELSE {})
      /\ http => tokens'[nextID] = tok
      /\ \A k \in DOMAIN left : k \in DOMAIN tokens /\ tokens'[k] = tokens[k]
  <2>1. tokens' = IF http THEN Put(left, nextID, tok) ELSE left
    BY DEF DeleteSubscriptionRows, tok, left
  <2>2. tok \in TokenRecord /\ left \in Map(ID, TokenRecord)
    BY <1>3, <1>6
  <2>3. CASE http
    <3>1. /\ Put(left, nextID, tok) \in Map(ID, TokenRecord)
          /\ DOMAIN Put(left, nextID, tok) = DOMAIN left \cup {nextID}
          /\ Put(left, nextID, tok)[nextID] = tok
          /\ \A k \in DOMAIN left : k # nextID => Put(left, nextID, tok)[k] = left[k]
      BY <1>2, <2>2, PutToken
    <3>2. QED
      BY <1>4, <1>6, <2>1, <2>3, <3>1
  <2>4. CASE ~http
    BY <1>6, <2>1, <2>4
  <2>5. QED
    BY <2>3, <2>4
<1> HIDE DEF http
<1>8. /\ req' \in [Request -> ReqState] /\ req'[r] = Idle
      /\ \A other \in Request : other # r => req'[other] = req[other]
  BY GotoFacts DEF IInv, DeleteSubscriptionRows, ReqState
<1>9. /\ UNCHANGED <<topics, expired, pool, created, crashes, presented, contended>>
      /\ orphans' = orphans \ {arn}
  BY DEF DeleteSubscriptionRows
<1>10. Typed'
  BY <1>2, <1>5, <1>7, <1>8, <1>9 DEF IInv, Typed
<1>11. RowsKnown'
  <2>1. ASSUME NEW s \in DOMAIN subs' PROVE SubOK(s, subs'[s], nextID')
    <3>1. s \in DOMAIN subs /\ s[2] \in Nat /\ SubOK(s, subs[s], nextID)
      BY <1>5, NumberFacts, RowTypes DEF IInv, RowsKnown
    <3>2. QED
      BY <1>1, <1>5, <3>1 DEF SubOK
  <2>2. ASSUME NEW k \in DOMAIN tokens' PROVE k < nextID' /\ TokenOK(tokens'[k], nextID')
    <3>1. CASE k \in DOMAIN left
      <4>1. /\ k \in DOMAIN tokens /\ tokens'[k] = tokens[k] /\ k < nextID /\ k \in Nat
            /\ TokenOK(tokens[k], nextID) /\ tokens[k].SubscriptionARN[2] \in Nat
        BY <1>4, <1>7, <3>1, NumberFacts DEF IInv, RowsKnown
      <4>2. QED
        BY <1>1, <4>1 DEF SubOK, TokenOK
    <3>2. CASE k = nextID /\ tokens'[k] = tok
      <4>1. arn[2] \in Nat
        BY <1>1, NumberFacts DEF IInv
      <4>2. QED
        BY <1>1, <1>3, <3>2, <4>1 DEF SubOK, TokenOK
    <3>3. QED
      BY <1>7, <3>1, <3>2
  <2>3. QED
    BY <2>1, <2>2 DEF RowsKnown
<1>12. ConfirmCopies'
  <2>1. SUFFICES ASSUME NEW y \in Request, req'[y].pc = "confirm"
        PROVE  /\ req'[y].token < nextID'
               /\ TokenOK(req'[y].record, nextID')
               /\ req'[y].record.SubscriptionARN \in presented'
               /\ req'[y].token \in DOMAIN tokens' => tokens'[req'[y].token] = req'[y].record
    BY DEF ConfirmCopies
  <2>2. req'[y] = req[y] /\ req[y].pc = "confirm"
    BY <1>8, <2>1 DEF Idle
  <2>3. req[y].token \in Nat /\ req[y].record.SubscriptionARN[2] \in Nat
    BY <2>2, NumberFacts DEF IInv
  <2>4. /\ req[y].token < nextID /\ TokenOK(req[y].record, nextID)
        /\ req[y].record.SubscriptionARN \in presented
        /\ req[y].token \in DOMAIN tokens => tokens[req[y].token] = req[y].record
    BY <2>2 DEF IInv, ConfirmCopies
  <2>5. req[y].token # nextID
    BY <1>1, <2>3, <2>4
  <2>6. QED
    BY <1>1, <1>7, <1>9, <2>2, <2>3, <2>4, <2>5 DEF TokenOK, SubOK
<1>13. DropCopies'
  <2>1. SUFFICES ASSUME NEW y \in Request, req'[y].pc = "drop"
        PROVE  /\ req'[y].token < nextID'
               /\ \A s \in DOMAIN subs' :
                    /\ req'[y].token \in DOMAIN tokens'
                    /\ tokens'[req'[y].token].Kind = "subscribe"
                    /\ tokens'[req'[y].token].SubscriptionARN = s
                    => subs'[s].Confirmed
    BY DEF DropCopies
  <2>2. req'[y] = req[y] /\ req[y].pc = "drop"
    BY <1>8, <2>1 DEF Idle
  <2>3. req[y].token < nextID /\ req[y].token \in Nat
    BY <2>2, NumberFacts DEF IInv, DropCopies
  <2>4. req[y].token # nextID
    BY <1>1, <2>3
  <2>5. QED
    BY <1>1, <1>5, <1>7, <2>2, <2>3, <2>4 DEF IInv, DropCopies
<1>14. UnsubscribeCopies'
  <2>1. ASSUME NEW y \in Request, req'[y].pc \in {"unsubscribe", "delete"}
        PROVE  SubOK(req'[y].arn, req'[y].sub, nextID')
    <3>1. req'[y] = req[y]
      BY <1>8, <2>1 DEF Idle
    <3>2. SubOK(req[y].arn, req[y].sub, nextID) /\ req[y].arn[2] \in Nat
      BY <2>1, <3>1, NumberFacts DEF IInv, UnsubscribeCopies
    <3>3. QED
      BY <1>1, <3>1, <3>2 DEF SubOK
  <2>2. QED
    BY <2>1 DEF UnsubscribeCopies
<1>15. CreateCopies'
  BY <1>5, <1>8, <1>9 DEF IInv, CreateCopies, Idle
<1>16. Overlaps'
  BY <1>8, <1>9, OverlapsKept DEF IInv, Idle
<1>17. NoDanglingToken'
  BY <1>3, <1>5, <1>6, <1>7 DEF IInv, NoDanglingToken
<1>18. ConfirmedByEndpoint' /\ OnePerEndpoint'
  BY <1>5, <1>9 DEF IInv, ConfirmedByEndpoint, OnePerEndpoint
<1>19. PendingIsConfirmable'
  <2>1. SUFFICES ASSUME NEW s \in DOMAIN subs' \ orphans', ~subs'[s].Confirmed
                 PROVE  \E k \in DOMAIN tokens' :
                          tokens'[k].Kind = "subscribe" /\ tokens'[k].SubscriptionARN = s
    BY DEF PendingIsConfirmable
  <2>2. s \in DOMAIN subs \ orphans /\ ~subs[s].Confirmed /\ s # arn
    BY <1>5, <1>9, <2>1
  <2>3. PICK k \in DOMAIN tokens :
          tokens[k].Kind = "subscribe" /\ tokens[k].SubscriptionARN = s
    BY <2>2 DEF IInv, PendingIsConfirmable
  <2>4. QED
    BY <1>6, <1>7, <2>2, <2>3
<1>20. QED
  BY <1>10, <1>11, <1>12, <1>13, <1>14, <1>15, <1>16, <1>17, <1>18, <1>19 DEF IInv

-----------------------------------------------------------------------------
(***************************************************************************)
(* The properties.                                                         *)
(***************************************************************************)
\* The initial state.
LEMMA InitInv ==
  ASSUME Init
  PROVE  IInv
<1>1. /\ req \in [Request -> ReqState]
      /\ \A r \in Request : req[r].pc = "idle"
  BY DEF Init, ReqState, Idle
<1>2. /\ subs \in Map(SubARN, Subscription) /\ DOMAIN subs = {}
      /\ tokens \in Map(ID, TokenRecord) /\ DOMAIN tokens = {}
  BY MapEmpty DEF Init
<1>3. Typed
  <2>1. pool \in (SUBSET BOOLEAN) \ {{}}
    BY Zenon DEF Init
  <2>2. nextID \in 1..(MaxID + 1) /\ created \in 0..MaxTopics /\ crashes \in 0..MaxCrashes
    BY BoundsAssumption DEF Init
  <2>3. QED
    BY <1>1, <1>2, <2>1, <2>2 DEF Init, Typed
<1>4. RowsKnown /\ NoDanglingToken /\ ConfirmedByEndpoint /\ PendingIsConfirmable
        /\ OnePerEndpoint
  BY <1>2 DEF RowsKnown, NoDanglingToken, ConfirmedByEndpoint, PendingIsConfirmable,
              OnePerEndpoint
<1>5. ConfirmCopies /\ DropCopies /\ UnsubscribeCopies /\ CreateCopies /\ Overlaps
  BY <1>1 DEF ConfirmCopies, DropCopies, UnsubscribeCopies, CreateCopies, Overlaps,
              Subscribing
<1>6. QED
  BY <1>3, <1>4, <1>5 DEF IInv

\* A step that changes nothing.
LEMMA StutterStep ==
  ASSUME IInv, UNCHANGED vars
  PROVE  IInv'
<1>1. Typed'
  BY DEF vars, IInv, Typed
<1>2. Overlaps'
  BY OverlapsKept DEF vars, IInv
<1>3. QED
  BY <1>1, <1>2, RequestStep DEF vars

\* Every step keeps the invariant.
LEMMA NextInv ==
  ASSUME IInv, [Next]_vars
  PROVE  IInv'
<1>1. ASSUME NEW r \in Request, Step(r) PROVE IInv'
  BY <1>1, SubscribeStep, FindExistingStep, FindNothingStep, InsertStep, ConfirmStep,
     ConfirmUpdateStep, ConfirmRestoreStep, DropTokenStep, UnsubscribeStep, UnsubscribeTopicStep,
     DeleteSubscriptionStep, FailStep DEF Step
<1>2. QED
  BY <1>1, StutterStep, EnvironmentStep, DeleteTopicStep, CrashStep DEF Next

\* The invariant holds of every behaviour.
LEMMA Invariant == Spec => []IInv
<1>1. Init => IInv
  BY InitInv
<1>2. IInv /\ [Next]_vars => IInv'
  BY NextInv
<1>3. QED
  BY <1>1, <1>2, PTL DEF Spec

\* The tables hold rows of their kind, and so do the copies in requests.
THEOREM TypeCorrect == Spec => []TypeOK
<1>1. IInv => TypeOK
  <2>1. SUFFICES ASSUME IInv PROVE TypeOK
    OBVIOUS
  <2>2. \E D \in SUBSET ID : tokens \in [D -> TokenRecord]
    BY <2>1 DEF IInv, Typed, Map
  <2>3. \A r \in Request : req[r] \in ReqState
    BY <2>1, RowTypes DEF IInv
  <2>4. nextID \in 1..(MaxID + 2)
    BY <2>1, BoundsAssumption DEF IInv, Typed
  <2>5. QED
    BY <2>1, <2>2, <2>3, <2>4, ReqFacts DEF IInv, Typed, TypeOK
<1>2. QED
  BY <1>1, Invariant, PTL

\* The row of every "subscribe" token exists, through every interleaving of
\* ConfirmSubscription, Unsubscribe and DeleteTopic, also when cascading is off.
THEOREM TokensLeadToSubscriptions == Spec => []NoDanglingToken
<1>1. IInv => NoDanglingToken
  BY DEF IInv
<1>2. QED
  BY <1>1, Invariant, PTL

\* No HTTP endpoint is confirmed unless a token that was sent to it, and had
\* not expired, came back.
THEOREM EndpointsConsent == Spec => []ConfirmedByEndpoint
<1>1. IInv => ConfirmedByEndpoint
  BY DEF IInv
<1>2. QED
  BY <1>1, Invariant, PTL

\* A pending subscription has its token, unless it outlived its topic.
THEOREM PendingHasToken == Spec => []PendingIsConfirmable
<1>1. IInv => PendingIsConfirmable
  BY DEF IInv
<1>2. QED
  BY <1>1, Invariant, PTL

\* An endpoint has one subscription to a topic, unless two requests of
\* Subscribe overlapped, an old subscription was restored, or the query for an
\* existing one failed.
THEOREM OneSubscription == Spec => []OnePerEndpoint
<1>1. IInv => OnePerEndpoint
  BY DEF IInv
<1>2. QED
  BY <1>1, Invariant, PTL
=============================================================================
