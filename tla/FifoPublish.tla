---------------------------- MODULE FifoPublish -----------------------------
(***************************************************************************)
(* Service.Publish and PublishBatch on one FIFO topic: deduplication,      *)
(* sequence numbers and the dispatch to the subscribed SQS queues, with    *)
(* concurrent publishers, a crash and restart of the process, and deletion *)
(* and re-creation of the topic.  The publisher runs two store             *)
(* transactions with other goroutines in between: UpdateTopic, which       *)
(* decides whether the message is a duplicate and commits the              *)
(* deduplication record, and the dispatch, which reads the subscriptions.  *)
(* The SQS sends come after both.                                          *)
(*                                                                         *)
(* The instance says which store is behind the service.  The in-memory     *)
(* store installs a transaction's clone whatever happened since it was     *)
(* taken.  SQLite in WAL mode refuses the first write of a transaction     *)
(* whose snapshot is no longer the latest (SQLITE_BUSY), and may fail a    *)
(* transaction for other reasons; nothing retries it.                      *)
(***************************************************************************)
EXTENDS StoreState, Naturals, Sequences

CONSTANTS
  Publisher,                 \* concurrent Publish requests
  Cases,                     \* instances, see CasesAssumption
  Queue,                     \* SQS queues that may be subscribed
  NoID,                      \* the empty MessageDeduplicationId
  NoTopic,                   \* the topic does not exist
  Window,                    \* deduplication window, 5 minutes in the code
  SequenceSpan               \* 2^64 in the code: counters stay below it

FifoAttributes ==
  [ContentBasedDeduplication : BOOLEAN, FifoThroughputScope : {"Topic", "MessageGroup"}]

\* wellFormed: resolveProtocolMessages accepts the message.
IsInput(in) ==
  /\ {"MessageGroupID", "MessageDeduplicationID", "Message", "wellFormed"} = DOMAIN in
  /\ in.wellFormed \in BOOLEAN

ASSUME WindowAssumption == Window \in Nat \ {0} /\ SequenceSpan \in Nat \ {0}
\* An instance: the store, the attributes topics are created with, what
\* clients publish alone and in batches; bounds on messages, topics, time, and attribute
\* changes and unsubscriptions.
ASSUME CasesAssumption ==
  \A c \in Cases :
    /\ c.store \in {"memory", "sqlite"}
    /\ c.attributes \subseteq FifoAttributes
    /\ \A in \in c.inputs : IsInput(in)
    /\ \A b \in c.batches : b \in Seq(c.inputs) /\ Len(b) \in 1..10
    /\ c.messages \in Nat /\ c.topics \in Nat /\ c.clock \in Nat \ {0} /\ c.changes \in Nat
    /\ c.messages < SequenceSpan

\* sha256 of the message body, an identifier no client chooses.
Sha256(message) == <<"sha256", message>>

GroupOf(c) == { in.MessageGroupID : in \in c.inputs }
DedupIDOf(c) ==
  { in.MessageDeduplicationID : in \in c.inputs } \cup { Sha256(in.Message) : in \in c.inputs }
KeyOf(c) == { <<d>> : d \in DedupIDOf(c) } \cup (GroupOf(c) \X DedupIDOf(c))
SequenceNumberOf(c) == 0..(SequenceSpan * (c.clock + 1))
GroupSequenceOf(c) == [Prefix : 1..c.clock, Counter : 1..c.messages]
DedupRecordOf(c) ==
  [MessageID : 1..c.messages, SequenceNumber : SequenceNumberOf(c),
   ExpiresAt : 0..(c.clock + Window)]

\* domain.Topic, as far as Publish looks at it, with its subscriptions.
TopicOf(c) ==
  [incarnation : 1..c.topics,
   GroupSequences : Map(GroupOf(c), GroupSequenceOf(c)),
   DedupRecords : Map(KeyOf(c), DedupRecordOf(c)),
   subscribed : SUBSET Queue,
   ContentBasedDeduplication : BOOLEAN,
   FifoThroughputScope : {"Topic", "MessageGroup"}]

ASSUME NoTopicAssumption == \A c \in Cases : NoTopic \notin TopicOf(c)

VARIABLES
  case,      \* the instance
  topic,     \* the stored topic and its subscriptions, or NoTopic
  clock,     \* wall clock
  admin,     \* <<clone>> while a topic or subscription request is in Tx
  pub,       \* pub[p]: program counter and local variables of a request
  batch,     \* batch[p]: the entries PublishBatch has yet to publish
  nextID,    \* message identifiers handed out so far (util.UUID)
  created,   \* topics created so far
  changes,   \* attribute changes and unsubscriptions so far
  accepted,  \* history: messages whose UpdateTopic committed as new
  replies,   \* history: answers that said "deduplicated"
  sent,      \* history: per queue, what SendMessage delivered, in order
  lost,      \* history: accepted messages whose dispatch failed or crashed
  dropped    \* history: <<message, queue>> where the queue was unsubscribed after
             \* the message was accepted and before its dispatch listed the queues

\* seen, in a request and in the histories, is the set of accepted messages
\* whose request had ended when this one began.

vars == <<case, topic, clock, admin, pub, batch, nextID, created, changes, accepted,
          replies, sent, lost, dropped>>
\* What the steps of a request other than its commits leave alone.
world == <<case, topic, clock, admin, nextID, created, changes, batch>>
history == <<accepted, replies, sent, lost, dropped>>

-----------------------------------------------------------------------------
InMemory == case.store = "memory"

DedupID(t, in) ==
  IF in.MessageDeduplicationID = NoID /\ t.ContentBasedDeduplication
  THEN Sha256(in.Message) ELSE in.MessageDeduplicationID

\* validatePublishInput, the part that reads the topic.
ValidInput(t, in) ==
  t.ContentBasedDeduplication \/ in.MessageDeduplicationID # NoID

\* The key of DedupRecords, for identifiers without the separator: the
\* identifier of the request, in the scope the topic has in the callback.
DedupKey(t, r) ==
  IF t.FifoThroughputScope = "MessageGroup"
  THEN <<r.in.MessageGroupID, r.dedupID>> ELSE <<r.dedupID>>

\* domain.NextSequence: the first use of a group fixes its prefix.
NoSequence == [Prefix |-> 0, Counter |-> 0]
SequenceOf(t, group) ==
  IF group \in DOMAIN t.GroupSequences THEN t.GroupSequences[group] ELSE NoSequence
\* Mutant: the counter is not advanced.
NextSequenceStuck(s, now) ==
  [Prefix |-> IF s.Prefix = 0 THEN now ELSE s.Prefix, Counter |-> s.Counter]
\* Mutant: the stored state of the group is ignored.
NextSequenceFresh(s, now) == [Prefix |-> now, Counter |-> 1]
NextSequence(s, now) ==
  [Prefix |-> IF s.Prefix = 0 THEN now ELSE s.Prefix, Counter |-> s.Counter + 1]
SequenceNumber(s) == s.Prefix * SequenceSpan + s.Counter

NewTopic(n, attributes) ==
  [incarnation |-> n, GroupSequences |-> EmptyMap, DedupRecords |-> EmptyMap,
   subscribed |-> {},
   ContentBasedDeduplication |-> attributes.ContentBasedDeduplication,
   FifoThroughputScope |-> attributes.FifoThroughputScope]

\* Mutant: an expired record still counts.
IsDuplicateForever(t, r, now) == DedupKey(t, r) \in DOMAIN t.DedupRecords

\* An unexpired deduplication record for the request.
IsDuplicate(t, r, now) ==
  /\ DedupKey(t, r) \in DOMAIN t.DedupRecords
  /\ t.DedupRecords[DedupKey(t, r)].ExpiresAt > now

\* The callback of Publish on a topic that has no such record.
RecordMessage(t, r, now) ==
  LET next == NextSequence(SequenceOf(t, r.in.MessageGroupID), now) IN
  [t EXCEPT !.GroupSequences = Put(@, r.in.MessageGroupID, next),
            !.DedupRecords = Put(@, DedupKey(t, r),
               [MessageID |-> r.id, SequenceNumber |-> SequenceNumber(next),
                ExpiresAt |-> now + Window])]

\* Mutant: a stale transaction commits in SQLite too.
MayCommitStale(base) == TRUE

\* A committed topic may be replaced by the result of a transaction.
MayCommit(base) == InMemory \/ topic = base

Idle == [pc |-> "idle"]

Init ==
  /\ case \in Cases
  /\ topic = NoTopic
  /\ clock = 1
  /\ admin = <<>>
  /\ pub = [p \in Publisher |-> Idle]
  /\ batch = [p \in Publisher |-> <<>>]
  /\ nextID = 1
  /\ created = 0 /\ changes = 0
  /\ accepted = <<>>
  /\ replies = {}
  /\ sent = [q \in Queue |-> <<>>]
  /\ lost = {} /\ dropped = {}

-----------------------------------------------------------------------------
(***************************************************************************)
(* The steps of one Publish request.                                       *)
(***************************************************************************)
Goto(p, r) == pub' = [pub EXCEPT ![p] = r]

InFlight == { pub[p].id : p \in {x \in Publisher :
                pub[x].pc \in {"dispatch", "install", "send"}} }

Undispatched == { pub[p].id : p \in {x \in Publisher : pub[x].pc = "dispatch"} }

Ended == { accepted[i].id : i \in DOMAIN accepted } \ InFlight

\* GetTopic, validation and the choice of identifiers.
MayPublish(in) == topic # NoTopic /\ ValidInput(topic, in)
StartPublish(p, in) ==
  /\ MayPublish(in)
  /\ Goto(p, [pc |-> "update", in |-> in, id |-> nextID, dedupID |-> DedupID(topic, in),
              seen |-> Ended])
  /\ nextID' = nextID + 1
  /\ UNCHANGED <<case, topic, clock, admin, created, changes, history>>

Publish(p, in) ==
  /\ pub[p].pc = "idle" /\ batch[p] = <<>>
  /\ nextID <= case.messages
  /\ StartPublish(p, in)
  /\ UNCHANGED batch

\* PublishBatch: the checks of the batch as a whole (a refused one changes
\* nothing), then its entries one after the other, in the order of their
\* indices (parseBatchEntries).  A failed entry does not stop the next.
PublishBatch(p, entries) ==
  /\ pub[p].pc = "idle" /\ batch[p] = <<>>
  /\ nextID <= case.messages
  /\ topic # NoTopic
  /\ batch' = [batch EXCEPT ![p] = entries]
  /\ UNCHANGED <<case, topic, clock, admin, pub, nextID, created, changes, history>>

PublishEntry(p) ==
  /\ pub[p].pc = "idle" /\ batch[p] # <<>>
  /\ nextID <= case.messages
  /\ batch' = [batch EXCEPT ![p] = Tail(@)]
  /\ \/ StartPublish(p, Head(batch[p]))
     \/ /\ ~MayPublish(Head(batch[p]))
        /\ UNCHANGED <<case, topic, clock, admin, pub, nextID, created, changes, history>>

\* store.UpdateTopic clones the state; a missing topic is an error.
BeginUpdate(p) ==
  /\ pub[p].pc = "update"
  /\ IF topic = NoTopic THEN Goto(p, Idle)
     ELSE Goto(p, [pc |-> "callback", in |-> pub[p].in, id |-> pub[p].id,
                   dedupID |-> pub[p].dedupID, seen |-> pub[p].seen, base |-> topic])
  /\ UNCHANGED <<world, history>>

\* The callback decides on the clone, at the time it reads the clock (twice
\* in a row, which is one reading here).
RunCallback(p) ==
  LET r == pub[p]
      old == r.base.DedupRecords[DedupKey(r.base, r)]
      new == RecordMessage(r.base, r, clock)
      Decide(id, seq, deduplicated, working) ==
        Goto(p, [pc |-> "commit", in |-> r.in, id |-> id, dedupID |-> r.dedupID,
                 seen |-> r.seen, base |-> r.base, at |-> clock, seq |-> seq,
                 deduplicated |-> deduplicated, working |-> working])
  IN
  /\ r.pc = "callback"
  /\ \/ /\ IsDuplicate(r.base, r, clock)
        /\ Decide(old.MessageID, old.SequenceNumber, TRUE, r.base)
     \/ /\ ~IsDuplicate(r.base, r, clock)
        /\ Decide(r.id, SequenceNumber(new.GroupSequences[r.in.MessageGroupID]), FALSE, new)
  /\ UNCHANGED <<world, history>>

\* What the histories keep of a request.
MessageOf(r) ==
  [id |-> r.id, seq |-> r.seq, group |-> r.in.MessageGroupID, key |-> DedupKey(r.base, r),
   at |-> r.at, seen |-> r.seen, incarnation |-> r.base.incarnation,
   subscribed |-> r.base.subscribed]

Dispatching(r) == [pc |-> "dispatch", in |-> r.in, id |-> r.id, seq |-> r.seq]

\* Mutant: a duplicate is dispatched again.
CommitUpdateResends(p) ==
  LET r == pub[p] IN
  /\ r.pc = "commit"
  /\ topic' = r.working
  /\ accepted' = Append(accepted, MessageOf(r))
  /\ Goto(p, Dispatching(r))
  /\ UNCHANGED <<case, clock, admin, nextID, created, changes, batch, replies, sent, lost, dropped>>

\* The transaction commits; a duplicate is answered at once.
CommitUpdate(p) ==
  LET r == pub[p] IN
  /\ r.pc = "commit"
  /\ MayCommit(r.base)
  /\ topic' = r.working
  /\ \/ /\ r.deduplicated
        /\ replies' = replies \cup {MessageOf(r)}
        /\ Goto(p, Idle)
        /\ UNCHANGED accepted
     \/ /\ ~r.deduplicated
        /\ accepted' = Append(accepted, MessageOf(r))
        /\ Goto(p, Dispatching(r))
        /\ UNCHANGED replies
  /\ UNCHANGED <<case, clock, admin, nextID, created, changes, batch, sent, lost, dropped>>

\* SQLite refuses or fails the transaction: Publish returns the error.
FailUpdate(p) ==
  /\ ~InMemory
  /\ pub[p].pc = "commit"
  /\ Goto(p, Idle)
  /\ UNCHANGED <<world, history>>

\* dispatchPublish: the message cannot be resolved, Publish returns an
\* error although the deduplication record is committed.
RejectMessage(p) ==
  /\ pub[p].pc = "dispatch"
  /\ ~pub[p].in.wellFormed
  /\ Goto(p, Idle)
  /\ lost' = lost \cup {pub[p].id}
  /\ UNCHANGED <<world, accepted, replies, sent, dropped>>

\* The dispatch transaction clones the state and lists the subscriptions.
BeginDispatch(p) ==
  /\ pub[p].pc = "dispatch"
  /\ pub[p].in.wellFormed
  /\ Goto(p, [pc |-> "install", in |-> pub[p].in, id |-> pub[p].id, seq |-> pub[p].seq,
              working |-> topic])
  /\ UNCHANGED <<world, history>>

\* Mutant: the subscriptions found are not delivered to.
CommitDispatchForgets(p) ==
  /\ pub[p].pc = "install"
  /\ Goto(p, Idle)
  /\ UNCHANGED <<world, history>>

\* It writes nothing (a FIFO topic has SQS subscriptions only), but the
\* in-memory store installs its clone all the same.
CommitDispatch(p) ==
  LET r == pub[p] IN
  /\ r.pc = "install"
  /\ topic' = IF InMemory THEN r.working ELSE topic
  /\ Goto(p, [pc |-> "send", in |-> r.in, id |-> r.id, seq |-> r.seq,
              targets |-> IF r.working = NoTopic THEN {} ELSE r.working.subscribed])
  /\ UNCHANGED <<case, clock, admin, nextID, created, changes, batch, history>>

\* The store fails or the request is cancelled: Publish returns an error, or,
\* when only the listing failed, no error and no target.
FailDispatch(p) ==
  /\ ~InMemory
  /\ pub[p].pc = "install"
  /\ Goto(p, Idle)
  /\ lost' = lost \cup {pub[p].id}
  /\ UNCHANGED <<world, accepted, replies, sent, dropped>>

\* deliverToSQS to one subscription (SqsDelivery has its steps): sent, failed,
\* or sent with the answer lost.  A failure is no error of Publish.
SendToQueue(p, q) ==
  LET r == pub[p] IN
  /\ r.pc = "send"
  /\ q \in r.targets
  /\ Goto(p, [r EXCEPT !.targets = @ \ {q}])
  /\ \E arrived, failed \in BOOLEAN :
       /\ arrived \/ failed
       /\ sent' = IF arrived THEN [sent EXCEPT ![q] = Append(@, r.id)] ELSE sent
       /\ lost' = IF failed THEN lost \cup {r.id} ELSE lost
  /\ UNCHANGED <<world, accepted, replies, dropped>>

Return(p) ==
  /\ pub[p].pc = "send"
  /\ pub[p].targets = {}
  /\ Goto(p, Idle)
  /\ UNCHANGED <<world, history>>

Step(p) ==
  \/ BeginUpdate(p) \/ RunCallback(p) \/ CommitUpdate(p) \/ FailUpdate(p)
  \/ RejectMessage(p) \/ BeginDispatch(p) \/ CommitDispatch(p) \/ FailDispatch(p)
  \/ (\E q \in Queue : SendToQueue(p, q)) \/ Return(p)

-----------------------------------------------------------------------------
(***************************************************************************)
(* The environment: other requests, time, crashes.                         *)
(***************************************************************************)
Tick ==
  /\ clock < case.clock
  /\ clock' = clock + 1
  /\ UNCHANGED <<case, topic, admin, pub, nextID, created, changes, batch, history>>

\* CreateTopic, SetTopicAttribute, Subscribe, Unsubscribe and DeleteTopic are
\* transactions too: in memory they work on a clone that may be stale when it is installed.
BeginAdmin ==
  /\ InMemory
  /\ admin = <<>>
  /\ admin' = <<topic>>
  /\ UNCHANGED <<case, topic, clock, pub, nextID, created, changes, batch, history>>

AdminBase == IF InMemory THEN Range(admin) ELSE {topic}

CreateFifoTopic ==
  /\ NoTopic \in AdminBase
  /\ created < case.topics
  /\ created' = created + 1
  /\ \E attributes \in case.attributes : topic' = NewTopic(created + 1, attributes)
  /\ admin' = <<>>
  /\ UNCHANGED <<case, clock, pub, nextID, changes, batch, history>>

\* SetTopicAttribute; the scope cannot be taken back.
SetFifoAttribute ==
  /\ changes < case.changes
  /\ changes' = changes + 1
  /\ \E base \in AdminBase \ {NoTopic} :
       \/ topic' = [base EXCEPT !.ContentBasedDeduplication = ~@]
       \/ /\ base.FifoThroughputScope = "Topic"
          /\ topic' = [base EXCEPT !.FifoThroughputScope = "MessageGroup"]
  /\ admin' = <<>>
  /\ UNCHANGED <<case, clock, pub, nextID, created, batch, history>>

SubscribeQueue(q) ==
  /\ \E base \in AdminBase \ {NoTopic} :
       /\ q \notin base.subscribed
       /\ topic' = [base EXCEPT !.subscribed = @ \cup {q}]
  /\ admin' = <<>>
  /\ UNCHANGED <<case, clock, pub, nextID, created, changes, batch, history>>

\* Unsubscribe of a queue: DeleteSubscription.
UnsubscribeQueue(q) ==
  /\ changes < case.changes
  /\ changes' = changes + 1
  /\ \E base \in AdminBase \ {NoTopic} :
       /\ q \in base.subscribed
       /\ topic' = [base EXCEPT !.subscribed = @ \ {q}]
  /\ admin' = <<>>
  /\ dropped' = dropped \cup { <<id, q>> : id \in Undispatched }
  /\ UNCHANGED <<case, clock, pub, nextID, created, batch, accepted, replies, sent, lost>>

\* The request takes longer than the resolution of the clock (UnixNano).
DeleteFifoTopic ==
  /\ AdminBase \ {NoTopic} # {}
  /\ clock < case.clock
  /\ topic' = NoTopic
  /\ admin' = <<>>
  /\ clock' = clock + 1
  /\ UNCHANGED <<case, pub, nextID, created, changes, batch, history>>

\* log.Fatal or a kill: every request is cut off, memory is gone.
Crash ==
  /\ \E p \in Publisher : pub[p].pc # "idle" \/ batch[p] # <<>>
  /\ pub' = [p \in Publisher |-> Idle]
  /\ batch' = [p \in Publisher |-> <<>>]
  /\ lost' = lost \cup InFlight
  /\ topic' = IF InMemory THEN NoTopic ELSE topic
  /\ admin' = <<>>
  /\ UNCHANGED <<case, clock, nextID, created, changes, accepted, replies, sent, dropped>>

Next ==
  \/ \E p \in Publisher : (\E in \in case.inputs : Publish(p, in)) \/ Step(p)
  \/ \E p \in Publisher : (\E b \in case.batches : PublishBatch(p, b)) \/ PublishEntry(p)
  \/ Tick \/ BeginAdmin \/ CreateFifoTopic \/ SetFifoAttribute
  \/ (\E q \in Queue : SubscribeQueue(q) \/ UnsubscribeQueue(q)) \/ DeleteFifoTopic \/ Crash

Spec == Init /\ [][Next]_vars

-----------------------------------------------------------------------------
MessageID == 1..case.messages
Time == 0..(case.clock + Window)
Maps(f, K, V) == DOMAIN f \subseteq K /\ \A k \in DOMAIN f : f[k] \in V
IsTopic(t) ==
  /\ t.incarnation \in 1..case.topics
  /\ Maps(t.GroupSequences, GroupOf(case), GroupSequenceOf(case))
  /\ Maps(t.DedupRecords, KeyOf(case), DedupRecordOf(case))
  /\ t.subscribed \subseteq Queue
  /\ t.ContentBasedDeduplication \in BOOLEAN
  /\ t.FifoThroughputScope \in {"Topic", "MessageGroup"}
IsMessage(m) ==
  /\ m.id \in MessageID /\ m.seq \in SequenceNumberOf(case)
  /\ m.group \in GroupOf(case) /\ m.key \in KeyOf(case)
  /\ m.at \in Time /\ m.seen \subseteq MessageID /\ m.incarnation \in 1..case.topics
  /\ m.subscribed \subseteq Queue

\* Every table of the topic holds records of its kind, a request is at a
\* point of Publish with the locals it has there, and the histories are
\* made of messages.
TypeOK ==
  /\ topic = NoTopic \/ IsTopic(topic)
  /\ Len(admin) <= 1 /\ \A t \in Range(admin) : t = NoTopic \/ IsTopic(t)
  /\ clock \in 1..case.clock
  /\ nextID \in 1..(case.messages + 1)
  /\ created \in 0..case.topics /\ changes \in 0..case.changes
  /\ \A p \in Publisher : Range(batch[p]) \subseteq case.inputs
  /\ \A p \in Publisher :
       LET r == pub[p] IN
       \/ r = Idle
       \/ /\ r.pc \in {"update", "callback", "commit", "dispatch", "install", "send"}
          /\ r.in \in case.inputs /\ r.id \in MessageID
          /\ r.pc \in {"callback", "commit"} => IsTopic(r.base)
          /\ r.pc = "commit" => IsTopic(r.working) /\ r.deduplicated \in BOOLEAN
          /\ r.pc = "install" => r.working = NoTopic \/ IsTopic(r.working)
          /\ r.pc = "send" => r.targets \subseteq Queue
  /\ \A i \in DOMAIN accepted : IsMessage(accepted[i])
  /\ \A m \in replies : IsMessage(m)
  /\ sent \in [Queue -> Seq(MessageID)]
  /\ lost \subseteq MessageID /\ dropped \subseteq MessageID \X Queue

\* Two messages that the topic accepts under the same deduplication key are
\* at least a window apart, whatever requests overlap, whether or not the
\* process was restarted or the attributes changed in between (the record of
\* Publish survives).  On SQLite: in memory the record can be overwritten.
NoDuplicateInWindow ==
  ~InMemory =>
    \A i, j \in DOMAIN accepted :
      /\ i < j
      /\ accepted[i].key = accepted[j].key
      /\ accepted[i].incarnation = accepted[j].incarnation
      => accepted[j].at >= accepted[i].at + Window

\* Sequence numbers of a message group increase strictly in the order the
\* messages are accepted, also after a restart, and after the topic was
\* deleted and created again with empty counters (NextSequence).  On SQLite.
SequenceOrder ==
  ~InMemory =>
    \A i, j \in DOMAIN accepted :
      i < j /\ accepted[i].group = accepted[j].group
        => accepted[i].seq < accepted[j].seq

\* An answer that says "deduplicated" carries the identifier and the sequence
\* number of a message that was accepted under the same key by the same
\* topic, less than a window ago: it never swallows a message for a record
\* that was not committed or has expired.
DuplicateNamesOriginal ==
  \A m \in replies : \E i \in DOMAIN accepted :
    LET a == accepted[i] IN
    /\ a.id = m.id /\ a.seq = m.seq /\ a.key = m.key
    /\ a.incarnation = m.incarnation
    /\ a.at <= m.at /\ m.at < a.at + Window

\* A queue gets only accepted messages, each at most once: neither a refused
\* or duplicate request nor a crash leads to a second send.
SentAtMostOnce ==
  \A q \in Queue :
    /\ \A i \in DOMAIN sent[q] : \E j \in DOMAIN accepted : sent[q][i] = accepted[j].id
    /\ \A i, j \in DOMAIN sent[q] : sent[q][i] = sent[q][j] => i = j

\* Messages of one group that are published one after the other are in every
\* queue in the order of their sequence numbers.  (Of requests that overlap
\* the later sequence number may be sent first: SendToQueue comes after the
\* commit that chose it.)  On SQLite.
QueueInSequenceOrder ==
  ~InMemory =>
    \A q \in Queue : \A i, j \in DOMAIN sent[q] : \A a, b \in DOMAIN accepted :
      /\ accepted[a].id = sent[q][i] /\ accepted[b].id = sent[q][j]
      /\ accepted[a].group = accepted[b].group
      /\ accepted[a].id \in accepted[b].seen
      => i < j /\ accepted[a].seq < accepted[b].seq

\* On SQLite, a message is in every queue that was subscribed from its
\* acceptance until the dispatch listed the subscriptions, when its request has
\* ended, unless the dispatch is known to have failed or to have been cut off,
\* or the topic was deleted.
AcceptedIsSent ==
  ~InMemory /\ topic # NoTopic =>
    \A i \in DOMAIN accepted :
      /\ accepted[i].id \notin InFlight \cup lost
      /\ accepted[i].incarnation = topic.incarnation
      => \A q \in accepted[i].subscribed :
           <<accepted[i].id, q>> \in dropped \/ accepted[i].id \in Range(sent[q])
=============================================================================
