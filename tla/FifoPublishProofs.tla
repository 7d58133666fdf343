-------------------------- MODULE FifoPublishProofs --------------------------
(***************************************************************************)
(* Publish on a FIFO topic, for any number of publishers, queues, topics,  *)
(* messages, clock ticks and crashes, over either store: deduplication,    *)
(* sequence numbers and the order in which queues receive messages.        *)
(*                                                                         *)
(* The properties are about committed messages; the inductive invariant    *)
(* is about the copies of the topic that requests carry between their      *)
(* steps.  Whatever a copy missed, each of its deduplication records names *)
(* a committed message and its counters count committed messages only.     *)
(* On SQLite a copy that is committed is the current topic, and the topic  *)
(* remembers every message of its incarnation.                             *)
(***************************************************************************)
EXTENDS FifoPublish, TLAPS, FiniteSetTheorems

MessageSet(c) ==
  [id : 1..c.messages, seq : SequenceNumberOf(c), group : GroupOf(c), key : KeyOf(c),
   at : 1..c.clock, seen : SUBSET (1..c.messages), incarnation : 1..c.topics,
   subscribed : SUBSET Queue]

UpdateReq(c) ==
  [pc : {"update"}, in : c.inputs, id : 1..c.messages, dedupID : DedupIDOf(c),
   seen : SUBSET (1..c.messages)]
CallbackReq(c) ==
  [pc : {"callback"}, in : c.inputs, id : 1..c.messages, dedupID : DedupIDOf(c),
   seen : SUBSET (1..c.messages), base : TopicOf(c)]
CommitReq(c) ==
  [pc : {"commit"}, in : c.inputs, id : 1..c.messages, dedupID : DedupIDOf(c),
   seen : SUBSET (1..c.messages), base : TopicOf(c), at : 1..c.clock,
   seq : SequenceNumberOf(c), deduplicated : BOOLEAN, working : TopicOf(c)]
DispatchReq(c) ==
  [pc : {"dispatch"}, in : c.inputs, id : 1..c.messages, seq : SequenceNumberOf(c)]
InstallReq(c) ==
  [pc : {"install"}, in : c.inputs, id : 1..c.messages, seq : SequenceNumberOf(c),
   working : TopicOf(c) \cup {NoTopic}]
SendReq(c) ==
  [pc : {"send"}, in : c.inputs, id : 1..c.messages, seq : SequenceNumberOf(c),
   targets : SUBSET Queue]

PubState(c) ==
  {Idle} \cup UpdateReq(c) \cup CallbackReq(c) \cup CommitReq(c)
    \cup DispatchReq(c) \cup InstallReq(c) \cup SendReq(c)

Typed ==
  /\ case \in Cases
  /\ topic \in TopicOf(case) \cup {NoTopic}
  /\ clock \in 1..case.clock
  /\ admin \in Seq(TopicOf(case) \cup {NoTopic}) /\ Len(admin) <= 1
  /\ pub \in [Publisher -> PubState(case)]
  /\ batch \in [Publisher -> Seq(case.inputs)]
  /\ nextID \in 1..(case.messages + 1)
  /\ created \in 0..case.topics /\ changes \in 0..case.changes
  /\ accepted \in Seq(MessageSet(case))
  /\ replies \subseteq MessageSet(case)
  /\ sent \in [Queue -> Seq(1..case.messages)]
  /\ lost \subseteq 1..case.messages
  /\ dropped \subseteq (1..case.messages) \X Queue

-----------------------------------------------------------------------------
\* The request has a new identifier that no message has yet.
Fresh(r) == r.pc \in {"update", "callback"} \/ (r.pc = "commit" /\ ~r.deduplicated)
\* Its message is committed and on its way to the queues.
Flying(r) == r.pc \in {"dispatch", "install", "send"}

\* Identifiers of the messages of a history.
IdsOf(acc) == { acc[i].id : i \in DOMAIN acc }

\* No identifier is used by two messages, by two requests, or by a message
\* and a request that has not committed it.
Identifiers ==
  /\ \A i \in DOMAIN accepted : accepted[i].id < nextID
  /\ \A i, j \in DOMAIN accepted : accepted[i].id = accepted[j].id => i = j
  /\ \A p \in Publisher :
       /\ Fresh(pub[p]) => pub[p].id < nextID /\ pub[p].id \notin IdsOf(accepted)
       /\ Flying(pub[p]) => pub[p].id \in IdsOf(accepted)
  /\ \A p, x \in Publisher :
       /\ Fresh(pub[p]) \/ Flying(pub[p])
       /\ Fresh(pub[x]) \/ Flying(pub[x])
       /\ pub[p].id = pub[x].id
       => p = x

\* The message that record k of a topic stands for.
Names(a, t, k) ==
  /\ a.id = t.DedupRecords[k].MessageID /\ a.seq = t.DedupRecords[k].SequenceNumber
  /\ a.key = k /\ a.incarnation = t.incarnation
  /\ t.DedupRecords[k].ExpiresAt = a.at + Window

\* A copy of the topic speaks of committed messages only.
Recorded(t, acc, now, n) ==
  /\ t.incarnation <= n
  /\ \A k \in DOMAIN t.DedupRecords : \E i \in DOMAIN acc : Names(acc[i], t, k)
  /\ \A g \in DOMAIN t.GroupSequences :
       t.GroupSequences[g].Counter <= Len(acc) /\ t.GroupSequences[g].Prefix <= now

\* The decision of a callback was right for the copy it was made on.
Decided(r, acc) ==
  \/ /\ r.deduplicated
     /\ r.working = r.base
     /\ \E i \in DOMAIN acc :
          /\ acc[i].id = r.id /\ acc[i].seq = r.seq /\ acc[i].key = DedupKey(r.base, r)
          /\ acc[i].incarnation = r.base.incarnation
          /\ acc[i].at <= r.at /\ r.at < acc[i].at + Window
  \/ /\ ~r.deduplicated
     /\ r.working = RecordMessage(r.base, r, r.at)
     /\ r.seq = SequenceNumber(r.working.GroupSequences[r.in.MessageGroupID])
     /\ ~IsDuplicate(r.base, r, r.at)

Copies ==
  /\ topic # NoTopic => Recorded(topic, accepted, clock, created)
  /\ \A i \in DOMAIN admin :
       admin[i] # NoTopic => Recorded(admin[i], accepted, clock, created)
  /\ \A p \in Publisher :
       /\ pub[p].pc \in {"callback", "commit"} => Recorded(pub[p].base, accepted, clock, created)
       /\ pub[p].pc = "commit" => pub[p].at <= clock /\ Decided(pub[p], accepted)
       /\ pub[p].pc = "install" /\ pub[p].working # NoTopic
            => Recorded(pub[p].working, accepted, clock, created)
  /\ \A i \in DOMAIN accepted : accepted[i].at <= clock /\ accepted[i].incarnation <= created

-----------------------------------------------------------------------------
\* What a request has seen ended before it began, and stays ended.
Seen ==
  /\ \A p \in Publisher :
       pub[p].pc \in {"update", "callback", "commit"} =>
         pub[p].seen \subseteq IdsOf(accepted) \ InFlight
  /\ \A b \in DOMAIN accepted :
       /\ accepted[b].seen \cap InFlight = {}
       /\ \A m \in accepted[b].seen :
            \E a \in DOMAIN accepted : a < b /\ accepted[a].id = m

\* A request may still send its message to a queue.
Owes(r, q) == r.pc \in {"dispatch", "install"} \/ (r.pc = "send" /\ q \in r.targets)

\* It has not done so yet.
Unsent ==
  \A p \in Publisher, q \in Queue : Owes(pub[p], q) => pub[p].id \notin Range(sent[q])

\* Messages of which one had ended when the other began are in this order in
\* every queue.
QueueOrder ==
  \A q \in Queue : \A i, j \in DOMAIN sent[q] : \A b \in DOMAIN accepted :
    accepted[b].id = sent[q][j] /\ sent[q][i] \in accepted[b].seen => i < j

-----------------------------------------------------------------------------
\* The topic remembers the messages of its incarnation.
Remembers(t, m) ==
  /\ m.key \in DOMAIN t.DedupRecords
  /\ t.DedupRecords[m.key].ExpiresAt >= m.at + Window
  /\ m.group \in DOMAIN t.GroupSequences
  /\ m.seq <= SequenceNumber(t.GroupSequences[m.group])

Remembered ==
  ~InMemory /\ topic # NoTopic =>
    /\ topic.incarnation = created
    /\ \A i \in DOMAIN accepted :
         accepted[i].incarnation = created => Remembers(topic, accepted[i])

\* Messages of earlier incarnations are below every number that the topic may
\* still give.
Older ==
  ~InMemory =>
    /\ \A i \in DOMAIN accepted :
         /\ accepted[i].seq < (clock + 1) * SequenceSpan
         /\ accepted[i].incarnation < created \/ topic = NoTopic
              => accepted[i].seq < clock * SequenceSpan
    /\ topic # NoTopic =>
         \A i \in DOMAIN accepted : \A g \in DOMAIN topic.GroupSequences :
           accepted[i].incarnation < created /\ accepted[i].group = g
             => accepted[i].seq < topic.GroupSequences[g].Prefix * SequenceSpan
    /\ \A p \in Publisher : pub[p].pc = "commit" =>
         \A i \in DOMAIN accepted :
           accepted[i].incarnation < pub[p].base.incarnation
             => accepted[i].seq < pub[p].at * SequenceSpan

\* A request whose message is committed will list queue q, has listed it and
\* not yet tried it, or has tried it; or somebody unsubscribed the queue.
Reaches(p, q) ==
  \/ <<pub[p].id, q>> \in dropped
  \/ pub[p].pc = "dispatch" /\ q \in topic.subscribed
  \/ pub[p].pc = "install" /\ pub[p].working # NoTopic /\ q \in pub[p].working.subscribed
  \/ /\ pub[p].pc = "send"
     /\ q \in pub[p].targets \/ pub[p].id \in lost \/ pub[p].id \in Range(sent[q])

\* It does so for every queue that was subscribed when it committed.
Dispatched ==
  ~InMemory /\ topic # NoTopic =>
    \A p \in Publisher : \A i \in DOMAIN accepted :
      /\ Flying(pub[p])
      /\ accepted[i].incarnation = created /\ accepted[i].id = pub[p].id
      => \A q \in accepted[i].subscribed : Reaches(p, q)

IInv ==
  /\ Typed /\ Identifiers /\ Copies /\ Seen /\ Unsent /\ QueueOrder
  /\ Remembered /\ Older /\ Dispatched
  /\ NoDuplicateInWindow /\ SequenceOrder /\ DuplicateNamesOriginal /\ SentAtMostOnce
  /\ AcceptedIsSent
-----------------------------------------------------------------------------
(***************************************************************************)
(* Numbers and tables.                                                     *)
(***************************************************************************)
\* Multiplication by the span of a counter keeps the order of prefixes.
LEMMA TimesMonotone ==
  ASSUME NEW a \in Nat, NEW b \in Nat, a <= b, NEW s \in Nat
  PROVE  a * s <= b * s
<1>1. PICK d \in Nat : b = a + d
  BY b - a \in Nat
<1>2. (a + d) * s = a * s + d * s /\ d * s \in Nat /\ a * s \in Nat
  OBVIOUS
<1>3. QED
  BY <1>1, <1>2

\* The first numbers of two moments, and of the moments after them.
LEMMA SpanMonotone ==
  ASSUME NEW a \in Nat, NEW b \in Nat, a <= b
  PROVE  /\ a * SequenceSpan \in Nat /\ b * SequenceSpan \in Nat
         /\ (a + 1) * SequenceSpan \in Nat /\ (b + 1) * SequenceSpan \in Nat
         /\ a * SequenceSpan <= b * SequenceSpan
         /\ (a + 1) * SequenceSpan <= (b + 1) * SequenceSpan
<1>1. SequenceSpan \in Nat
  BY WindowAssumption
<1>2. a * SequenceSpan <= b * SequenceSpan
  BY <1>1, TimesMonotone
<1>3. (a + 1) * SequenceSpan <= (b + 1) * SequenceSpan
  <2>1. a + 1 \in Nat /\ b + 1 \in Nat /\ a + 1 <= b + 1
    OBVIOUS
  <2>2. QED
    BY <1>1, <2>1, TimesMonotone
<1>4. QED
  BY <1>1, <1>2, <1>3

\* A sequence number lies between its prefix and the next one.
LEMMA SequenceBounds ==
  ASSUME NEW s, s.Prefix \in Nat, s.Counter \in Nat, s.Counter < SequenceSpan
  PROVE  /\ SequenceNumber(s) \in Nat
         /\ s.Prefix * SequenceSpan <= SequenceNumber(s)
         /\ SequenceNumber(s) < (s.Prefix + 1) * SequenceSpan
<1>1. (s.Prefix + 1) * SequenceSpan = s.Prefix * SequenceSpan + SequenceSpan
      /\ s.Prefix * SequenceSpan \in Nat
  BY WindowAssumption
<1>2. QED
  BY <1>1, WindowAssumption DEF SequenceNumber

\* The numbers of a topic that is created before the clock reaches n.
LEMMA SequenceInRange ==
  ASSUME NEW s, s.Prefix \in Nat, s.Counter \in Nat, s.Counter < SequenceSpan,
         NEW n \in Nat, s.Prefix <= n
  PROVE  SequenceNumber(s) < (n + 1) * SequenceSpan
<1>1. (s.Prefix + 1) * SequenceSpan <= (n + 1) * SequenceSpan
  BY TimesMonotone, WindowAssumption
<1>2. (s.Prefix + 1) * SequenceSpan \in Nat /\ (n + 1) * SequenceSpan \in Nat
  BY WindowAssumption
<1>3. QED
  BY <1>1, <1>2, SequenceBounds

\* Distinct identifiers up to n, and one more: there are less than n messages.
LEMMA Room ==
  ASSUME NEW C, NEW acc \in Seq(C), NEW n \in Nat, NEW id \in 1..n,
         \A i \in DOMAIN acc : acc[i].id \in 1..n,
         \A i, j \in DOMAIN acc : acc[i].id = acc[j].id => i = j,
         id \notin IdsOf(acc)
  PROVE  Len(acc) + 1 <= n
<1> DEFINE k == Len(acc) + 1
           f == [i \in 1..k |-> IF i = k THEN id ELSE acc[i].id]
<1>1. k \in Nat /\ DOMAIN acc = 1..(k - 1)
  OBVIOUS
<1>2. f \in Injection(1..k, 1..n)
  <2>1. f \in [1..k -> 1..n]
    BY <1>1
  <2>2. ASSUME NEW i \in 1..k, NEW j \in 1..k, f[i] = f[j]
        PROVE  i = j
    <3>1. \A x \in 1..(k - 1) : acc[x].id # id
      BY <1>1 DEF IdsOf
    <3>2. (i = k \/ i \in 1..(k - 1)) /\ (j = k \/ j \in 1..(k - 1))
      BY <1>1
    <3>3. QED
      BY <1>1, <2>2, <3>1, <3>2
  <2>3. QED
    BY <2>1, <2>2 DEF Injection, IsInjective
<1> HIDE DEF f
<1>3. IsFiniteSet(1..k) /\ Cardinality(1..k) = k
  BY <1>1, FS_Interval
<1>4. IsFiniteSet(1..n) /\ Cardinality(1..n) = n
  BY <1>1, FS_Interval
<1>5. Cardinality(1..k) <= Cardinality(1..n)
  BY <1>2, <1>4, FS_Injection
<1>6. QED
  BY <1>3, <1>4, <1>5

\* A row that is present.
LEMMA MapApply ==
  ASSUME NEW K, NEW V, NEW m \in Map(K, V)
  PROVE  DOMAIN m \subseteq K /\ \A k \in DOMAIN m : m[k] \in V
BY DEF Map

\* Writing a row.
LEMMA MapPut ==
  ASSUME NEW K, NEW V, NEW m \in Map(K, V), NEW k \in K, NEW v \in V
  PROVE  Put(m, k, v) \in Map(K, V)
<1>1. DOMAIN m \cup {k} \in SUBSET K /\ Put(m, k, v) \in [DOMAIN m \cup {k} -> V]
  BY MapApply DEF Put
<1>2. QED
  BY <1>1 DEF Map

\* The empty table.
LEMMA MapEmpty ==
  ASSUME NEW K, NEW V
  PROVE  EmptyMap \in Map(K, V) /\ DOMAIN EmptyMap = {}
<1>1. EmptyMap \in [{} -> V] /\ DOMAIN EmptyMap = {} /\ {} \in SUBSET K
  BY DEF EmptyMap
<1>2. QED
  BY <1>1 DEF Map
-----------------------------------------------------------------------------
(***************************************************************************)
(* Topics, messages and requests.                                          *)
(***************************************************************************)
\* The bounds of an instance.
LEMMA CaseFacts ==
  ASSUME NEW c \in Cases
  PROVE  /\ c.messages \in Nat /\ c.topics \in Nat /\ c.clock \in Nat /\ c.changes \in Nat
         /\ c.messages < SequenceSpan /\ SequenceSpan \in Nat /\ Window \in Nat \ {0}
         /\ NoTopic \notin TopicOf(c)
BY CasesAssumption, WindowAssumption, NoTopicAssumption

\* The fields of a topic.
LEMMA TopicFields ==
  ASSUME NEW c, NEW t \in TopicOf(c)
  PROVE  /\ t.incarnation \in 1..c.topics
         /\ t.GroupSequences \in Map(GroupOf(c), GroupSequenceOf(c))
         /\ t.DedupRecords \in Map(KeyOf(c), DedupRecordOf(c))
         /\ t.subscribed \subseteq Queue
         /\ t.ContentBasedDeduplication \in BOOLEAN
         /\ t.FifoThroughputScope \in {"Topic", "MessageGroup"}
BY DEF TopicOf

\* The rows of its tables.
LEMMA TopicRows ==
  ASSUME NEW c, NEW t \in TopicOf(c)
  PROVE  /\ DOMAIN t.GroupSequences \subseteq GroupOf(c)
         /\ DOMAIN t.DedupRecords \subseteq KeyOf(c)
         /\ \A g \in DOMAIN t.GroupSequences :
              /\ t.GroupSequences[g].Prefix \in 1..c.clock
              /\ t.GroupSequences[g].Counter \in 1..c.messages
         /\ \A k \in DOMAIN t.DedupRecords :
              /\ t.DedupRecords[k].MessageID \in 1..c.messages
              /\ t.DedupRecords[k].SequenceNumber \in SequenceNumberOf(c)
              /\ t.DedupRecords[k].ExpiresAt \in 0..(c.clock + Window)
<1>1. /\ DOMAIN t.GroupSequences \subseteq GroupOf(c)
      /\ \A g \in DOMAIN t.GroupSequences : t.GroupSequences[g] \in GroupSequenceOf(c)
  BY TopicFields, MapApply
<1>2. /\ DOMAIN t.DedupRecords \subseteq KeyOf(c)
      /\ \A k \in DOMAIN t.DedupRecords : t.DedupRecords[k] \in DedupRecordOf(c)
  BY TopicFields, MapApply
<1>3. QED
  BY <1>1, <1>2 DEF GroupSequenceOf, DedupRecordOf

\* The identifier of a request on a topic.
LEMMA DedupIDInRange ==
  ASSUME NEW c, NEW t, NEW in \in c.inputs
  PROVE  DedupID(t, in) \in DedupIDOf(c)
BY DEF DedupID, DedupIDOf

\* Its key.
LEMMA KeyInRange ==
  ASSUME NEW c, NEW t, NEW r, r.in \in c.inputs, r.dedupID \in DedupIDOf(c)
  PROVE  DedupKey(t, r) \in KeyOf(c) /\ r.in.MessageGroupID \in GroupOf(c)
<1>1. r.in.MessageGroupID \in GroupOf(c)
  BY DEF GroupOf
<1>2. <<r.in.MessageGroupID, r.dedupID>> \in GroupOf(c) \X DedupIDOf(c)
  BY <1>1
<1>3. QED
  BY <1>1, <1>2 DEF DedupKey, KeyOf

\* The number that the callback gives.
LEMMA RecordedNumber ==
  ASSUME NEW c, NEW t \in TopicOf(c), NEW r, NEW now
  PROVE  RecordMessage(t, r, now).GroupSequences[r.in.MessageGroupID]
           = NextSequence(SequenceOf(t, r.in.MessageGroupID), now)
<1> DEFINE next == NextSequence(SequenceOf(t, r.in.MessageGroupID), now)
<1>1. RecordMessage(t, r, now).GroupSequences
        = Put(t.GroupSequences, r.in.MessageGroupID, next)
  BY DEF RecordMessage, TopicOf
<1> HIDE DEF next
<1>2. Put(t.GroupSequences, r.in.MessageGroupID, next)[r.in.MessageGroupID] = next
  BY DEF Put
<1>3. QED
  BY <1>1, <1>2 DEF next

\* A topic with other tables.
LEMMA TopicUpdate ==
  ASSUME NEW c, NEW t \in TopicOf(c),
         NEW gs \in Map(GroupOf(c), GroupSequenceOf(c)),
         NEW dr \in Map(KeyOf(c), DedupRecordOf(c))
  PROVE  [t EXCEPT !.GroupSequences = gs, !.DedupRecords = dr] \in TopicOf(c)
BY DEF TopicOf

\* The next number of a group: a first one starts at the time, others go on.
LEMMA NextFacts ==
  ASSUME NEW c \in Cases, NEW t \in TopicOf(c), NEW g, NEW now \in 1..c.clock
  PROVE  LET next == NextSequence(SequenceOf(t, g), now) IN
         /\ g \notin DOMAIN t.GroupSequences => next.Prefix = now /\ next.Counter = 1
         /\ g \in DOMAIN t.GroupSequences =>
              /\ next.Prefix = t.GroupSequences[g].Prefix
              /\ next.Counter = t.GroupSequences[g].Counter + 1
<1>1. CASE g \notin DOMAIN t.GroupSequences
  BY <1>1 DEF NextSequence, SequenceOf, NoSequence
<1>2. CASE g \in DOMAIN t.GroupSequences
  <2>1. t.GroupSequences[g].Prefix # 0
    BY <1>2, TopicRows, CaseFacts
  <2>2. QED
    BY <1>2, <2>1 DEF NextSequence, SequenceOf
<1>3. QED
  BY <1>1, <1>2

\* A committed or pending topic has all its fields in range, if there is
\* room for one more message.
LEMMA RecordTyped ==
  ASSUME NEW c \in Cases, NEW t \in TopicOf(c), NEW now \in 1..c.clock, NEW r,
         r.in \in c.inputs, r.dedupID \in DedupIDOf(c), r.id \in 1..c.messages,
         \A g \in DOMAIN t.GroupSequences : t.GroupSequences[g].Counter < c.messages,
         \A g \in DOMAIN t.GroupSequences : t.GroupSequences[g].Prefix <= now
  PROVE  /\ RecordMessage(t, r, now) \in TopicOf(c)
         /\ SequenceNumber(NextSequence(SequenceOf(t, r.in.MessageGroupID), now))
              \in SequenceNumberOf(c)
         /\ SequenceNumber(NextSequence(SequenceOf(t, r.in.MessageGroupID), now))
              < (now + 1) * SequenceSpan
<1> DEFINE g == r.in.MessageGroupID
           k == DedupKey(t, r)
           next == NextSequence(SequenceOf(t, g), now)
           rec == [MessageID |-> r.id, SequenceNumber |-> SequenceNumber(next),
                   ExpiresAt |-> now + Window]
           gs == Put(t.GroupSequences, g, next)
           dr == Put(t.DedupRecords, k, rec)
<1>1. /\ c.messages \in Nat /\ c.clock \in Nat /\ c.messages < SequenceSpan
      /\ SequenceSpan \in Nat /\ Window \in Nat
  BY CaseFacts
<1>2. k \in KeyOf(c) /\ g \in GroupOf(c)
  BY KeyInRange
<1>3. next.Prefix \in 1..now /\ next.Counter \in 1..c.messages
  BY <1>1, NextFacts, TopicRows
<1>4. next \in GroupSequenceOf(c)
  <2>1. next = [Prefix |-> next.Prefix, Counter |-> next.Counter]
    BY DEF NextSequence
  <2>2. next.Prefix \in 1..c.clock
    BY <1>1, <1>3
  <2> HIDE DEF next
  <2>3. QED
    BY <1>3, <2>1, <2>2 DEF GroupSequenceOf
<1>5. /\ SequenceNumber(next) \in Nat
      /\ SequenceNumber(next) < (now + 1) * SequenceSpan
      /\ SequenceNumber(next) < (c.clock + 1) * SequenceSpan
  <2> HIDE DEF next
  <2>1. next.Prefix \in Nat /\ next.Counter \in Nat /\ next.Counter < SequenceSpan
        /\ next.Prefix <= now /\ next.Prefix <= c.clock
    BY <1>1, <1>3
  <2>2. QED
    BY <1>1, <2>1, SequenceBounds, SequenceInRange
<1>6. SequenceNumber(next) \in SequenceNumberOf(c)
  <2> HIDE DEF next
  <2>1. (c.clock + 1) * SequenceSpan = SequenceSpan * (c.clock + 1)
        /\ SequenceSpan * (c.clock + 1) \in Nat
    BY <1>1
  <2>2. QED
    BY <1>5, <2>1 DEF SequenceNumberOf
<1>7. rec \in DedupRecordOf(c)
  <2>1. now + Window \in 0..(c.clock + Window)
    BY <1>1
  <2> HIDE DEF next
  <2>2. QED
    BY <1>6, <2>1 DEF DedupRecordOf
<1>8. gs \in Map(GroupOf(c), GroupSequenceOf(c)) /\ dr \in Map(KeyOf(c), DedupRecordOf(c))
  <2>1. /\ t.GroupSequences \in Map(GroupOf(c), GroupSequenceOf(c))
        /\ t.DedupRecords \in Map(KeyOf(c), DedupRecordOf(c))
    BY TopicFields
  <2> HIDE DEF next, rec, k, g
  <2>2. gs \in Map(GroupOf(c), GroupSequenceOf(c))
    BY <1>2, <1>4, <2>1, MapPut
  <2>3. dr \in Map(KeyOf(c), DedupRecordOf(c))
    BY <1>2, <1>7, <2>1, MapPut
  <2>4. QED
    BY <2>2, <2>3
<1>9. RecordMessage(t, r, now) = [t EXCEPT !.GroupSequences = gs, !.DedupRecords = dr]
  BY DEF RecordMessage
<1> HIDE DEF gs, dr
<1>10. [t EXCEPT !.GroupSequences = gs, !.DedupRecords = dr] \in TopicOf(c)
  BY <1>8, TopicUpdate
<1>11. QED
  BY <1>5, <1>6, <1>9, <1>10
\* A request by its program counter.
LEMMA PubFacts ==
  ASSUME NEW c, NEW x \in PubState(c)
  PROVE  /\ x.pc \in {"idle", "update", "callback", "commit", "dispatch", "install", "send"}
         /\ x.pc = "idle" => x = Idle
         /\ x.pc = "update" => x \in UpdateReq(c)
         /\ x.pc = "callback" => x \in CallbackReq(c)
         /\ x.pc = "commit" => x \in CommitReq(c)
         /\ x.pc = "dispatch" => x \in DispatchReq(c)
         /\ x.pc = "install" => x \in InstallReq(c)
         /\ x.pc = "send" => x \in SendReq(c)
BY DEF PubState, Idle, UpdateReq, CallbackReq, CommitReq, DispatchReq, InstallReq, SendReq

\* The locals of a request.
LEMMA PubFields ==
  ASSUME NEW c, NEW x \in PubState(c)
  PROVE  /\ x # Idle => x.in \in c.inputs /\ x.id \in 1..c.messages
         /\ x.pc \in {"update", "callback", "commit"} =>
              x.dedupID \in DedupIDOf(c) /\ x.seen \subseteq 1..c.messages
         /\ x.pc \in {"callback", "commit"} => x.base \in TopicOf(c)
         /\ x.pc = "commit" =>
              /\ x.at \in 1..c.clock /\ x.seq \in SequenceNumberOf(c)
              /\ x.deduplicated \in BOOLEAN /\ x.working \in TopicOf(c)
         /\ x.pc \in {"dispatch", "install", "send"} => x.seq \in SequenceNumberOf(c)
         /\ x.pc = "install" => x.working \in TopicOf(c) \cup {NoTopic}
         /\ x.pc = "send" => x.targets \subseteq Queue
BY PubFacts DEF Idle, UpdateReq, CallbackReq, CommitReq, DispatchReq, InstallReq, SendReq

\* One request moves on.
LEMMA GotoFacts ==
  ASSUME NEW S, pub \in [Publisher -> S], NEW p \in Publisher, NEW r, Goto(p, r)
  PROVE  /\ pub'[p] = r
         /\ \A x \in Publisher : x # p => pub'[x] = pub[x]
         /\ r \in S => pub' \in [Publisher -> S]
BY DEF Goto

\* An entry of the history of accepted messages.
LEMMA AcceptedFields ==
  ASSUME Typed, NEW i \in DOMAIN accepted
  PROVE  /\ accepted[i] \in MessageSet(case)
         /\ accepted[i].id \in 1..case.messages /\ accepted[i].seq \in Nat
         /\ accepted[i].at \in 1..case.clock /\ accepted[i].incarnation \in 1..case.topics
         /\ accepted[i].seen \subseteq 1..case.messages
         /\ accepted[i].subscribed \subseteq Queue
<1>1. accepted[i] \in MessageSet(case)
  BY DEF Typed
<1>2. SequenceNumberOf(case) \subseteq Nat
  BY DEF SequenceNumberOf
<1>3. QED
  BY <1>1, <1>2 DEF MessageSet

\* Its numbers.
LEMMA AcceptedNumbers ==
  ASSUME Typed, NEW i \in DOMAIN accepted
  PROVE  /\ accepted[i].id \in Nat /\ accepted[i].seq \in Nat
         /\ accepted[i].at \in Nat /\ accepted[i].incarnation \in Nat
<1>1. case.messages \in Nat /\ case.clock \in Nat /\ case.topics \in Nat
  BY CaseFacts DEF Typed
<1>2. QED
  BY <1>1, AcceptedFields

\* The history after one more message.
LEMMA AppendFacts ==
  ASSUME NEW S, NEW s \in Seq(S), NEW e
  PROVE  /\ DOMAIN s = 1..Len(s) /\ Len(s) \in Nat
         /\ DOMAIN Append(s, e) = DOMAIN s \cup {Len(s) + 1}
         /\ Len(Append(s, e)) = Len(s) + 1
         /\ Len(s) + 1 \notin DOMAIN s
         /\ Append(s, e)[Len(s) + 1] = e
         /\ \A i \in DOMAIN s : Append(s, e)[i] = s[i] /\ i < Len(s) + 1
         /\ e \in S => Append(s, e) \in Seq(S)
OBVIOUS

\* The first entry of a batch, and the others.
LEMMA HeadTail ==
  ASSUME NEW S, NEW s \in Seq(S), s # <<>>
  PROVE  Head(s) \in S /\ Tail(s) \in Seq(S)
OBVIOUS

\* What the history keeps of a request about to commit.
LEMMA MessageFacts ==
  ASSUME NEW c, NEW r \in CommitReq(c)
  PROVE  MessageOf(r) \in MessageSet(c)
<1>1. DedupKey(r.base, r) \in KeyOf(c) /\ r.in.MessageGroupID \in GroupOf(c)
  BY KeyInRange DEF CommitReq
<1>2. r.base.incarnation \in 1..c.topics /\ r.base.subscribed \subseteq Queue
  BY TopicFields DEF CommitReq
<1>3. r.id \in 1..c.messages /\ r.seq \in SequenceNumberOf(c) /\ r.at \in 1..c.clock
      /\ r.seen \subseteq 1..c.messages
  BY DEF CommitReq
<1>4. QED
  BY <1>1, <1>2, <1>3 DEF MessageOf, MessageSet

\* While a request has a new identifier there is room for its message.
LEMMA FreshRoom ==
  ASSUME Typed, Identifiers, NEW p \in Publisher, Fresh(pub[p])
  PROVE  Len(accepted) + 1 <= case.messages
<1> DEFINE n == nextID - 1
<1>1. n \in Nat /\ n <= case.messages /\ case.messages \in Nat
  BY CaseFacts DEF Typed
<1>2. pub[p].id \in 1..n
  <2>1. pub[p] # Idle
    BY DEF Fresh, Idle
  <2>2. pub[p].id \in 1..case.messages
    BY <2>1, PubFields DEF Typed
  <2>3. QED
    BY <1>1, <2>2 DEF Identifiers, Typed
<1>3. \A i \in DOMAIN accepted : accepted[i].id \in 1..n
  BY <1>1, AcceptedFields DEF Identifiers, Typed
<1>4. pub[p].id \notin IdsOf(accepted)
  BY DEF Identifiers
<1>5. \A i, j \in DOMAIN accepted : accepted[i].id = accepted[j].id => i = j
  BY DEF Identifiers
<1>6. accepted \in Seq(MessageSet(case))
  BY DEF Typed
<1> HIDE DEF n
<1>7. Len(accepted) + 1 <= n
  BY <1>1, <1>2, <1>3, <1>4, <1>5, <1>6, Room
<1>8. Len(accepted) \in Nat
  BY <1>6
<1>9. QED
  BY <1>1, <1>7, <1>8
-----------------------------------------------------------------------------
(***************************************************************************)
(* Every request and every table keeps its type.                           *)
(***************************************************************************)
\* The copies a topic or subscription request may work on.
LEMMA AdminFacts ==
  ASSUME Typed
  PROVE  /\ AdminBase \subseteq TopicOf(case) \cup {NoTopic}
         /\ ~InMemory => AdminBase = {topic}
         /\ InMemory => AdminBase = {admin[i] : i \in DOMAIN admin}
BY DEF Typed, AdminBase, Range

\* A new topic.
LEMMA NewTopicTyped ==
  ASSUME NEW c \in Cases, NEW n \in 1..c.topics, NEW a \in c.attributes
  PROVE  NewTopic(n, a) \in TopicOf(c)
<1>1. a.ContentBasedDeduplication \in BOOLEAN
      /\ a.FifoThroughputScope \in {"Topic", "MessageGroup"}
  BY CasesAssumption DEF FifoAttributes
<1>2. /\ EmptyMap \in Map(GroupOf(c), GroupSequenceOf(c))
      /\ EmptyMap \in Map(KeyOf(c), DedupRecordOf(c))
  BY MapEmpty
<1>3. QED
  BY <1>1, <1>2 DEF NewTopic, TopicOf

\* The clone a callback works on, at the time it runs.
LEMMA CallbackCopy ==
  ASSUME IInv, NEW p \in Publisher, pub[p].pc = "callback"
  PROVE  /\ RecordMessage(pub[p].base, pub[p], clock) \in TopicOf(case)
         /\ SequenceNumber(NextSequence(SequenceOf(pub[p].base, pub[p].in.MessageGroupID), clock))
              \in SequenceNumberOf(case)
<1>1. Typed /\ Identifiers
  BY DEF IInv
<1>2. pub[p] \in CallbackReq(case) /\ case \in Cases /\ clock \in 1..case.clock
  BY <1>1, PubFacts DEF Typed
<1>3. /\ pub[p].base \in TopicOf(case) /\ pub[p].in \in case.inputs
      /\ pub[p].dedupID \in DedupIDOf(case) /\ pub[p].id \in 1..case.messages
  BY <1>2 DEF CallbackReq
<1>4. Len(accepted) + 1 <= case.messages
  BY <1>1, FreshRoom DEF Fresh
<1>5. Recorded(pub[p].base, accepted, clock, created)
  BY DEF IInv, Copies
<1>6. Len(accepted) \in Nat /\ case.messages \in Nat
  BY <1>1, <1>2, CaseFacts DEF Typed
<1>7. \A g \in DOMAIN pub[p].base.GroupSequences :
        /\ pub[p].base.GroupSequences[g].Counter < case.messages
        /\ pub[p].base.GroupSequences[g].Prefix <= clock
  BY <1>3, <1>4, <1>5, <1>6, TopicRows DEF Recorded
<1>8. QED
  BY <1>2, <1>3, <1>7, RecordTyped

\* The next state of a request that decides.
LEMMA CallbackTyped ==
  ASSUME IInv, NEW p \in Publisher, RunCallback(p)
  PROVE  \E r \in CommitReq(case) :
           /\ Goto(p, r)
           /\ r.in = pub[p].in /\ r.dedupID = pub[p].dedupID /\ r.seen = pub[p].seen
           /\ r.base = pub[p].base /\ r.at = clock
           /\ \/ /\ r.deduplicated
                 /\ IsDuplicate(pub[p].base, pub[p], clock)
                 /\ r.working = r.base
                 /\ r.id = pub[p].base.DedupRecords[DedupKey(pub[p].base, pub[p])].MessageID
                 /\ r.seq = pub[p].base.DedupRecords[DedupKey(pub[p].base, pub[p])].SequenceNumber
              \/ /\ ~r.deduplicated
                 /\ ~IsDuplicate(pub[p].base, pub[p], clock)
                 /\ r.id = pub[p].id
                 /\ r.working = RecordMessage(pub[p].base, pub[p], clock)
                 /\ r.seq = SequenceNumber(r.working.GroupSequences[r.in.MessageGroupID])
<1> DEFINE x == pub[p]
           old == x.base.DedupRecords[DedupKey(x.base, x)]
           new == RecordMessage(x.base, x, clock)
           seq == SequenceNumber(new.GroupSequences[x.in.MessageGroupID])
           Commit(id, s, d, w) ==
             [pc |-> "commit", in |-> x.in, id |-> id, dedupID |-> x.dedupID,
              seen |-> x.seen, base |-> x.base, at |-> clock, seq |-> s,
              deduplicated |-> d, working |-> w]
<1>1. Typed /\ x.pc = "callback"
  BY DEF IInv, RunCallback
<1>2. x \in CallbackReq(case) /\ clock \in 1..case.clock
  BY <1>1, PubFacts DEF Typed
<1>3. /\ x.base \in TopicOf(case) /\ x.in \in case.inputs /\ x.seen \subseteq 1..case.messages
      /\ x.dedupID \in DedupIDOf(case) /\ x.id \in 1..case.messages
  BY <1>2 DEF CallbackReq
<1>4. new \in TopicOf(case)
  BY <1>1, CallbackCopy
<1>5. seq \in SequenceNumberOf(case)
  <2>1. new.GroupSequences[x.in.MessageGroupID]
          = NextSequence(SequenceOf(x.base, x.in.MessageGroupID), clock)
    BY <1>3, RecordedNumber
  <2>2. QED
    BY <1>1, <2>1, CallbackCopy
<1>6. CASE IsDuplicate(x.base, x, clock)
  <2>1. old.MessageID \in 1..case.messages /\ old.SequenceNumber \in SequenceNumberOf(case)
    BY <1>3, <1>6, TopicRows DEF IsDuplicate
  <2>2. Goto(p, Commit(old.MessageID, old.SequenceNumber, TRUE, x.base))
    BY <1>6 DEF RunCallback
  <2> HIDE DEF old, x
  <2>3. Commit(old.MessageID, old.SequenceNumber, TRUE, x.base) \in CommitReq(case)
    BY <1>2, <1>3, <2>1 DEF CommitReq
  <2>4. QED
    BY <1>6, <2>2, <2>3 DEF old, x
<1>7. CASE ~IsDuplicate(x.base, x, clock)
  <2>1. Goto(p, Commit(x.id, seq, FALSE, new))
    BY <1>7 DEF RunCallback
  <2> HIDE DEF seq, new, x
  <2>2. Commit(x.id, seq, FALSE, new) \in CommitReq(case)
    BY <1>2, <1>3, <1>4, <1>5 DEF CommitReq
  <2>3. QED
    BY <1>7, <2>1, <2>2 DEF seq, new, x
<1>8. QED
  BY <1>6, <1>7
\* A request that starts.
LEMMA StartTyped ==
  ASSUME Typed, NEW p \in Publisher, NEW in \in case.inputs, StartPublish(p, in),
         nextID <= case.messages
  PROVE  /\ nextID' \in 1..(case.messages + 1)
         /\ pub' \in [Publisher -> PubState(case)]
<1> DEFINE r == [pc |-> "update", in |-> in, id |-> nextID, dedupID |-> DedupID(topic, in),
                 seen |-> Ended]
<1>1. nextID \in 1..case.messages /\ case.messages \in Nat /\ nextID' = nextID + 1
      /\ pub \in [Publisher -> PubState(case)] /\ Goto(p, r)
  BY CaseFacts DEF Typed, StartPublish
<1>2. Ended \subseteq 1..case.messages
  BY AcceptedFields DEF Ended
<1>3. DedupID(topic, in) \in DedupIDOf(case)
  BY DedupIDInRange
<1>4. r \in UpdateReq(case)
  BY <1>1, <1>2, <1>3 DEF UpdateReq
<1>5. r \in PubState(case)
  BY <1>4 DEF PubState
<1> HIDE DEF r
<1>6. pub' \in [Publisher -> PubState(case)]
  BY <1>1, <1>5, GotoFacts
<1>7. QED
  BY <1>1, <1>6

\* The steps of Publish, and of PublishBatch.
LEMMA EntryTyped ==
  ASSUME Typed, NEW p \in Publisher,
         \/ \E in \in case.inputs : Publish(p, in)
         \/ \E b \in case.batches : PublishBatch(p, b)
         \/ PublishEntry(p)
  PROVE  Typed'
<1>1. \A b \in case.batches : b \in Seq(case.inputs)
  BY CasesAssumption DEF Typed
<1>2. CASE \E in \in case.inputs : Publish(p, in)
  <2>1. PICK in \in case.inputs : Publish(p, in)
    BY <1>2
  <2>2. StartPublish(p, in) /\ nextID <= case.messages /\ batch' = batch
    BY <2>1 DEF Publish
  <2>3. /\ nextID' \in 1..(case.messages + 1)
        /\ pub' \in [Publisher -> PubState(case)]
    BY <2>2, StartTyped
  <2>4. QED
    BY <2>2, <2>3 DEF Typed, StartPublish, history
<1>3. CASE \E b \in case.batches : PublishBatch(p, b)
  BY <1>1, <1>3 DEF Typed, PublishBatch, history
<1>4. CASE PublishEntry(p)
  <2>1. batch[p] \in Seq(case.inputs) /\ batch[p] # <<>> /\ nextID <= case.messages
        /\ batch' = [batch EXCEPT ![p] = Tail(@)]
    BY <1>4 DEF PublishEntry, Typed
  <2>2. Head(batch[p]) \in case.inputs /\ Tail(batch[p]) \in Seq(case.inputs)
    BY <2>1, HeadTail
  <2>3. batch' \in [Publisher -> Seq(case.inputs)]
    BY <2>1, <2>2 DEF Typed
  <2>4. CASE StartPublish(p, Head(batch[p]))
    <3>1. /\ nextID' \in 1..(case.messages + 1)
          /\ pub' \in [Publisher -> PubState(case)]
      BY <2>1, <2>2, <2>4, StartTyped
    <3>2. QED
      BY <2>3, <2>4, <3>1 DEF Typed, StartPublish, history
  <2>5. CASE UNCHANGED <<case, topic, clock, admin, pub, nextID, created, changes, history>>
    BY <2>3, <2>5 DEF Typed, history
  <2>6. QED
    BY <1>4, <2>4, <2>5 DEF PublishEntry
<1>5. QED
  BY <1>2, <1>3, <1>4

\* The steps of one request that leave everything else alone.
LEMMA MoveTyped ==
  ASSUME Typed, NEW p \in Publisher, NEW r \in PubState(case), Goto(p, r),
         UNCHANGED <<case, clock, admin, nextID, created, changes, batch, dropped>>,
         topic' \in TopicOf(case) \cup {NoTopic},
         accepted' \in Seq(MessageSet(case)), replies' \subseteq MessageSet(case),
         sent' \in [Queue -> Seq(1..case.messages)], lost' \subseteq 1..case.messages
  PROVE  Typed'
<1>1. pub' \in [Publisher -> PubState(case)]
  BY GotoFacts DEF Typed
<1>2. QED
  BY <1>1 DEF Typed

\* The steps of a request.
LEMMA StepTyped ==
  ASSUME IInv, NEW p \in Publisher, Step(p)
  PROVE  Typed'
<1> DEFINE r == pub[p]
<1>1. Typed /\ r \in PubState(case) /\ Idle \in PubState(case)
  BY DEF IInv, Typed, PubState
<1>2. /\ topic \in TopicOf(case) \cup {NoTopic}
      /\ accepted \in Seq(MessageSet(case)) /\ replies \subseteq MessageSet(case)
      /\ sent \in [Queue -> Seq(1..case.messages)] /\ lost \subseteq 1..case.messages
  BY <1>1 DEF Typed
<1> HIDE DEF r
<1>3. CASE BeginUpdate(p)
  <2> DEFINE n == [pc |-> "callback", in |-> r.in, id |-> r.id, dedupID |-> r.dedupID,
                   seen |-> r.seen, base |-> topic]
  <2>1. r \in UpdateReq(case)
    BY <1>1, <1>3, PubFacts DEF BeginUpdate, r
  <2>2. CASE topic = NoTopic
    BY <1>1, <1>2, <1>3, <2>2, MoveTyped DEF BeginUpdate, world, history
  <2>3. CASE topic # NoTopic
    <3>1. n \in PubState(case)
      BY <1>2, <2>1, <2>3 DEF UpdateReq, CallbackReq, PubState
    <3>2. Goto(p, n)
      BY <1>3, <2>3 DEF BeginUpdate, r
    <3> HIDE DEF n
    <3>3. QED
      BY <1>1, <1>2, <1>3, <3>1, <3>2, MoveTyped DEF BeginUpdate, world, history
  <2>4. QED
    BY <2>2, <2>3
<1>4. CASE RunCallback(p)
  <2>1. PICK n \in CommitReq(case) : Goto(p, n)
    BY <1>4, CallbackTyped
  <2>2. n \in PubState(case)
    BY DEF PubState
  <2>3. UNCHANGED <<world, history>>
    BY <1>4 DEF RunCallback
  <2>4. QED
    BY <1>1, <1>2, <2>1, <2>2, <2>3, MoveTyped DEF world, history
<1>5. CASE CommitUpdate(p)
  <2>1. r \in CommitReq(case)
    BY <1>1, <1>5, PubFacts DEF CommitUpdate, r
  <2>2. MessageOf(r) \in MessageSet(case) /\ r.working \in TopicOf(case)
    BY <2>1, MessageFacts DEF CommitReq
  <2>3. topic' \in TopicOf(case) \cup {NoTopic}
    BY <1>5, <2>2 DEF CommitUpdate, r
  <2>4. UNCHANGED <<case, clock, admin, nextID, created, changes, batch, sent, lost, dropped>>
    BY <1>5 DEF CommitUpdate
  <2>5. CASE Goto(p, Idle) /\ replies' = replies \cup {MessageOf(r)} /\ UNCHANGED accepted
    <3>1. replies' \subseteq MessageSet(case)
      BY <1>2, <2>2, <2>5
    <3>2. QED
      BY <1>1, <1>2, <2>3, <2>4, <2>5, <3>1, MoveTyped
  <2>6. CASE Goto(p, Dispatching(r)) /\ accepted' = Append(accepted, MessageOf(r))
             /\ UNCHANGED replies
    <3>1. Dispatching(r) \in PubState(case)
      BY <2>1 DEF Dispatching, CommitReq, DispatchReq, PubState
    <3>2. accepted' \in Seq(MessageSet(case))
      BY <1>2, <2>2, <2>6, AppendFacts
    <3>3. QED
      BY <1>1, <1>2, <2>3, <2>4, <2>6, <3>1, <3>2, MoveTyped
  <2>7. QED
    BY <1>5, <2>5, <2>6 DEF CommitUpdate, r
<1>6. CASE FailUpdate(p) \/ Return(p)
  BY <1>1, <1>2, <1>6, MoveTyped DEF FailUpdate, Return, world, history
<1>7. CASE RejectMessage(p) \/ FailDispatch(p)
  <2>1. r.id \in 1..case.messages
    BY <1>1, <1>7, PubFields DEF RejectMessage, FailDispatch, r, Idle
  <2>2. lost' \subseteq 1..case.messages
    BY <1>2, <1>7, <2>1 DEF RejectMessage, FailDispatch, r
  <2>3. QED
    BY <1>1, <1>2, <1>7, <2>2, MoveTyped DEF RejectMessage, FailDispatch, world
<1>8. CASE BeginDispatch(p)
  <2> DEFINE n == [pc |-> "install", in |-> r.in, id |-> r.id, seq |-> r.seq,
                   working |-> topic]
  <2>1. r \in DispatchReq(case)
    BY <1>1, <1>8, PubFacts DEF BeginDispatch, r
  <2>2. n \in PubState(case)
    BY <1>2, <2>1 DEF DispatchReq, InstallReq, PubState
  <2>3. Goto(p, n)
    BY <1>8 DEF BeginDispatch, r
  <2> HIDE DEF n
  <2>4. QED
    BY <1>1, <1>2, <1>8, <2>2, <2>3, MoveTyped DEF BeginDispatch, world, history
<1>9. CASE CommitDispatch(p)
  <2> DEFINE n == [pc |-> "send", in |-> r.in, id |-> r.id, seq |-> r.seq,
                   targets |-> IF r.working = NoTopic THEN {} ELSE r.working.subscribed]
  <2>1. r \in InstallReq(case)
    BY <1>1, <1>9, PubFacts DEF CommitDispatch, r
  <2>2. n \in PubState(case)
    <3>1. r.working = NoTopic \/ r.working.subscribed \subseteq Queue
      BY <2>1, TopicFields DEF InstallReq
    <3>2. QED
      BY <2>1, <3>1 DEF InstallReq, SendReq, PubState
  <2>3. Goto(p, n)
    BY <1>9 DEF CommitDispatch, r
  <2>4. topic' \in TopicOf(case) \cup {NoTopic}
    BY <1>2, <1>9, <2>1 DEF CommitDispatch, InstallReq, r
  <2> HIDE DEF n
  <2>5. QED
    BY <1>1, <1>2, <1>9, <2>2, <2>3, <2>4, MoveTyped DEF CommitDispatch, history
<1>10. CASE \E q \in Queue : SendToQueue(p, q)
  <2>1. PICK q \in Queue : SendToQueue(p, q)
    BY <1>10
  <2> DEFINE n == [r EXCEPT !.targets = @ \ {q}]
  <2>2. r \in SendReq(case)
    BY <1>1, <2>1, PubFacts DEF SendToQueue, r
  <2>3. n \in PubState(case)
    BY <2>2 DEF SendReq, PubState
  <2>4. Goto(p, n)
    BY <2>1 DEF SendToQueue, r
  <2>5. /\ sent' = sent \/ sent' = [sent EXCEPT ![q] = Append(@, r.id)]
        /\ lost' = lost \/ lost' = lost \cup {r.id}
    BY <2>1 DEF SendToQueue, r
  <2>6. r.id \in 1..case.messages
    BY <2>2 DEF SendReq
  <2>7. sent' \in [Queue -> Seq(1..case.messages)] /\ lost' \subseteq 1..case.messages
    <3>1. sent[q] \in Seq(1..case.messages)
      BY <1>2
    <3>2. Append(sent[q], r.id) \in Seq(1..case.messages)
      BY <2>6, <3>1, AppendFacts
    <3>3. QED
      BY <1>2, <2>5, <2>6, <3>2
  <2> HIDE DEF n
  <2>8. QED
    BY <1>1, <1>2, <2>1, <2>3, <2>4, <2>7, MoveTyped DEF SendToQueue, world
<1>11. QED
  BY <1>3, <1>4, <1>5, <1>6, <1>7, <1>8, <1>9, <1>10 DEF Step
\* Other requests, time and crashes.
Environment ==
  \/ Tick \/ BeginAdmin \/ CreateFifoTopic \/ SetFifoAttribute
  \/ (\E q \in Queue : SubscribeQueue(q) \/ UnsubscribeQueue(q)) \/ DeleteFifoTopic \/ Crash

\* A topic after SetTopicAttribute, Subscribe or Unsubscribe.
LEMMA TopicChange ==
  ASSUME NEW c, NEW t \in TopicOf(c), NEW w,
         \/ w = [t EXCEPT !.ContentBasedDeduplication = ~@]
         \/ w = [t EXCEPT !.FifoThroughputScope = "MessageGroup"]
         \/ \E q \in Queue : w = [t EXCEPT !.subscribed = @ \cup {q}]
         \/ \E q \in Queue : w = [t EXCEPT !.subscribed = @ \ {q}]
  PROVE  /\ w \in TopicOf(c) /\ w.incarnation = t.incarnation
         /\ w.GroupSequences = t.GroupSequences /\ w.DedupRecords = t.DedupRecords
         /\ \A q \in t.subscribed \ w.subscribed : w = [t EXCEPT !.subscribed = @ \ {q}]
<1>1. CASE w = [t EXCEPT !.ContentBasedDeduplication = ~@]
  <2>1. (~t.ContentBasedDeduplication) \in BOOLEAN
    OBVIOUS
  <2>2. PICK b \in BOOLEAN : w = [t EXCEPT !.ContentBasedDeduplication = b]
    BY <1>1, <2>1
  <2>3. QED
    BY <2>2 DEF TopicOf
<1>2. CASE w = [t EXCEPT !.FifoThroughputScope = "MessageGroup"]
  BY <1>2 DEF TopicOf
<1>3. CASE \E q \in Queue : w = [t EXCEPT !.subscribed = @ \cup {q}]
  BY <1>3 DEF TopicOf
<1>4. CASE \E q \in Queue : w = [t EXCEPT !.subscribed = @ \ {q}]
  BY <1>4 DEF TopicOf
<1>5. QED
  BY <1>1, <1>2, <1>3, <1>4

\* Which topic an administrative request leaves.
LEMMA AdminTopic ==
  ASSUME Typed, SetFifoAttribute \/ \E q \in Queue : SubscribeQueue(q) \/ UnsubscribeQueue(q)
  PROVE  \E base \in AdminBase \ {NoTopic} :
           /\ base \in TopicOf(case) /\ topic' \in TopicOf(case)
           /\ topic'.incarnation = base.incarnation
           /\ topic'.GroupSequences = base.GroupSequences
           /\ topic'.DedupRecords = base.DedupRecords
           /\ \A q \in base.subscribed \ topic'.subscribed :
                \A id \in Undispatched : <<id, q>> \in dropped'
<1>1. CASE SetFifoAttribute \/ \E q \in Queue : SubscribeQueue(q)
  <2>1. PICK base \in AdminBase \ {NoTopic} :
          \/ topic' = [base EXCEPT !.ContentBasedDeduplication = ~@]
          \/ topic' = [base EXCEPT !.FifoThroughputScope = "MessageGroup"]
          \/ \E q \in Queue : topic' = [base EXCEPT !.subscribed = @ \cup {q}]
    BY <1>1 DEF SetFifoAttribute, SubscribeQueue
  <2>2. base \in TopicOf(case)
    BY <2>1, AdminFacts
  <2>3. base.subscribed \subseteq topic'.subscribed
    BY <2>1, <2>2 DEF TopicOf
  <2>4. QED
    BY <2>1, <2>2, <2>3, TopicChange
<1>2. CASE \E q \in Queue : UnsubscribeQueue(q)
  <2>1. PICK q \in Queue : UnsubscribeQueue(q)
    BY <1>2
  <2>2. PICK base \in AdminBase \ {NoTopic} : topic' = [base EXCEPT !.subscribed = @ \ {q}]
    BY <2>1 DEF UnsubscribeQueue
  <2>3. base \in TopicOf(case)
    BY <2>2, AdminFacts
  <2>4. base.subscribed \ topic'.subscribed \subseteq {q}
    BY <2>2, <2>3 DEF TopicOf
  <2>5. \A id \in Undispatched : <<id, q>> \in dropped'
    BY <2>1 DEF UnsubscribeQueue
  <2>6. QED
    BY <2>2, <2>3, <2>4, <2>5, TopicChange
<1>3. QED
  BY <1>1, <1>2

\* The environment keeps the types.
LEMMA EnvironmentTyped ==
  ASSUME Typed, Environment
  PROVE  Typed'
<1>1. /\ case \in Cases /\ case.topics \in Nat /\ case.clock \in Nat /\ case.changes \in Nat
      /\ topic \in TopicOf(case) \cup {NoTopic} /\ clock \in 1..case.clock
      /\ created \in 0..case.topics /\ changes \in 0..case.changes
  BY CaseFacts DEF Typed
<1>2. <<>> \in Seq(TopicOf(case) \cup {NoTopic}) /\ Len(<<>>) <= 1
  OBVIOUS
<1>3. CASE Tick
  <2>1. clock' \in 1..case.clock
    BY <1>1, <1>3 DEF Tick
  <2>2. QED
    BY <1>3, <2>1 DEF Tick, Typed, history
<1>4. CASE BeginAdmin
  <2>1. <<topic>> \in Seq(TopicOf(case) \cup {NoTopic}) /\ Len(<<topic>>) <= 1
    BY <1>1
  <2>2. QED
    BY <1>4, <2>1 DEF BeginAdmin, Typed, history
<1>5. CASE CreateFifoTopic
  <2>1. created' \in 0..case.topics /\ created + 1 \in 1..case.topics
    BY <1>1, <1>5 DEF CreateFifoTopic
  <2>2. topic' \in TopicOf(case)
    BY <1>1, <1>5, <2>1, NewTopicTyped DEF CreateFifoTopic
  <2>3. QED
    BY <1>2, <1>5, <2>1, <2>2 DEF CreateFifoTopic, Typed, history
<1>6. CASE SetFifoAttribute
  <2>1. changes' \in 0..case.changes
    BY <1>1, <1>6 DEF SetFifoAttribute
  <2>2. topic' \in TopicOf(case)
    BY <1>6, AdminTopic
  <2>3. QED
    BY <1>2, <1>6, <2>1, <2>2 DEF SetFifoAttribute, Typed, history
<1>7. CASE \E q \in Queue : SubscribeQueue(q)
  <2>1. topic' \in TopicOf(case)
    BY <1>7, AdminTopic
  <2>2. QED
    BY <1>2, <1>7, <2>1 DEF SubscribeQueue, Typed, history
<1>8. CASE \E q \in Queue : UnsubscribeQueue(q)
  <2>1. topic' \in TopicOf(case)
    BY <1>8, AdminTopic
  <2>2. Undispatched \subseteq 1..case.messages
    BY PubFields DEF Undispatched, Typed, Idle
  <2>3. PICK q \in Queue : UnsubscribeQueue(q)
    BY <1>8
  <2>4. dropped' \subseteq (1..case.messages) \X Queue /\ changes' \in 0..case.changes
    BY <1>1, <2>2, <2>3 DEF UnsubscribeQueue, Typed
  <2>5. QED
    BY <1>2, <2>1, <2>3, <2>4 DEF UnsubscribeQueue, Typed
<1>9. CASE DeleteFifoTopic
  <2>1. clock' \in 1..case.clock
    BY <1>1, <1>9 DEF DeleteFifoTopic
  <2>2. QED
    BY <1>2, <1>9, <2>1 DEF DeleteFifoTopic, Typed, history
<1>10. CASE Crash
  <2>1. InFlight \subseteq 1..case.messages
    <3>1. \A p \in Publisher : pub[p] \in PubState(case)
      BY DEF Typed
    <3>2. QED
      BY <3>1, PubFields DEF InFlight, Idle
  <2>2. pub' \in [Publisher -> PubState(case)] /\ batch' \in [Publisher -> Seq(case.inputs)]
    BY <1>10 DEF Crash, PubState
  <2>3. topic' \in TopicOf(case) \cup {NoTopic}
    BY <1>1, <1>10 DEF Crash
  <2>4. lost' \subseteq 1..case.messages
    BY <1>10, <2>1 DEF Crash, Typed
  <2>5. QED
    BY <1>2, <1>10, <2>2, <2>3, <2>4 DEF Crash, Typed
<1>11. QED
  BY <1>3, <1>4, <1>5, <1>6, <1>7, <1>8, <1>9, <1>10 DEF Environment

\* Every step does.
LEMMA TypedStep ==
  ASSUME IInv, Next
  PROVE  Typed'
<1>1. Typed
  BY DEF IInv
<1>2. \/ \E p \in Publisher : Step(p)
      \/ \E p \in Publisher :
           \/ \E in \in case.inputs : Publish(p, in)
           \/ \E b \in case.batches : PublishBatch(p, b)
           \/ PublishEntry(p)
      \/ Environment
  BY DEF Next, Environment
<1>3. QED
  BY <1>1, <1>2, StepTyped, EntryTyped, EnvironmentTyped
-----------------------------------------------------------------------------
(***************************************************************************)
(* The steps as they matter to messages: a request starts, a message is    *)
(* committed, or requests go on or end.                                    *)
(***************************************************************************)
Starts(p) == pub[p].pc = "idle" /\ \E in \in case.inputs : StartPublish(p, in)
Commits(p) == CommitUpdate(p) /\ ~pub[p].deduplicated

Before(r) == r.pc \in {"update", "callback", "commit"}
Moved(r, n) ==
  /\ Fresh(n) => Fresh(r) /\ n.id = r.id
  /\ Flying(n) => Flying(r) /\ n.id = r.id
  /\ Before(n) => Before(r) /\ n.seen = r.seen
  /\ \A q \in Queue : Owes(n, q) => Owes(r, q)

Continues ==
  /\ UNCHANGED <<accepted, nextID>>
  /\ \A p \in Publisher : Moved(pub[p], pub'[p])

\* A request that ends, or stays where it is.
LEMMA MovedEasily ==
  ASSUME NEW r
  PROVE  Moved(r, r) /\ Moved(r, Idle)
BY DEF Moved, Fresh, Flying, Before, Owes, Idle

\* One request moves on, the others stay.
LEMMA GotoMoved ==
  ASSUME Typed, NEW p \in Publisher, NEW n, Goto(p, n), Moved(pub[p], n),
         UNCHANGED <<accepted, nextID>>
  PROVE  Continues
<1>1. pub'[p] = n /\ \A x \in Publisher : x # p => pub'[x] = pub[x]
  BY GotoFacts DEF Typed
<1>2. QED
  BY <1>1, MovedEasily DEF Continues

\* Every step is one of the three.
LEMMA Moves ==
  ASSUME IInv, Next
  PROVE  Continues \/ (\E p \in Publisher : Starts(p)) \/ (\E p \in Publisher : Commits(p))
<1> USE DEF history, world
<1>1. Typed
  BY DEF IInv
<1>2. ASSUME NEW p \in Publisher, NEW in \in case.inputs, Publish(p, in)
      PROVE  Starts(p)
  BY <1>2 DEF Publish, Starts
<1>3. ASSUME NEW p \in Publisher, NEW b \in case.batches, PublishBatch(p, b)
      PROVE  Continues
  BY <1>3, MovedEasily DEF PublishBatch, Continues
<1>4. ASSUME NEW p \in Publisher, PublishEntry(p)
      PROVE  Continues \/ Starts(p)
  <2>1. batch[p] \in Seq(case.inputs) /\ batch[p] # <<>> /\ pub[p].pc = "idle"
    BY <1>1, <1>4 DEF PublishEntry, Typed
  <2>2. Head(batch[p]) \in case.inputs
    BY <2>1, HeadTail
  <2>3. CASE StartPublish(p, Head(batch[p]))
    BY <2>1, <2>2, <2>3 DEF Starts
  <2>4. CASE UNCHANGED <<pub, nextID, history>>
    BY <2>4, MovedEasily DEF Continues
  <2>5. QED
    BY <1>4, <2>3, <2>4 DEF PublishEntry
<1>5. ASSUME NEW p \in Publisher, Step(p)
      PROVE  Continues \/ Commits(p)
  <2> DEFINE r == pub[p]
  <2>1. Moved(r, Idle)
    BY MovedEasily
  <2>2. CASE BeginUpdate(p)
    <3> DEFINE n == [pc |-> "callback", in |-> r.in, id |-> r.id, dedupID |-> r.dedupID,
                     seen |-> r.seen, base |-> topic]
    <3>1. Moved(r, n)
      BY <2>2 DEF BeginUpdate, Moved, Fresh, Flying, Before, Owes
    <3>2. Goto(p, n) \/ Goto(p, Idle)
      BY <2>2 DEF BeginUpdate
    <3> HIDE DEF n
    <3>3. QED
      BY <1>1, <2>1, <2>2, <3>1, <3>2, GotoMoved DEF BeginUpdate
  <2>3. CASE RunCallback(p)
    <3>1. PICK n \in CommitReq(case) :
            /\ Goto(p, n)
            /\ n.seen = r.seen /\ (~n.deduplicated => n.id = r.id)
      BY <2>3, CallbackTyped
    <3>2. n.pc = "commit" /\ r.pc = "callback"
      BY <2>3 DEF RunCallback, CommitReq
    <3>3. Moved(r, n)
      BY <3>1, <3>2 DEF Moved, Fresh, Flying, Before, Owes
    <3>4. QED
      BY <1>1, <2>3, <3>1, <3>3, GotoMoved DEF RunCallback
  <2>4. CASE CommitUpdate(p)
    <3>1. CASE r.deduplicated
      BY <1>1, <2>1, <2>4, <3>1, GotoMoved DEF CommitUpdate
    <3>2. QED
      BY <2>4, <3>1 DEF Commits
  <2>5. CASE FailUpdate(p) \/ RejectMessage(p) \/ FailDispatch(p) \/ Return(p)
    <3>1. Goto(p, Idle) /\ UNCHANGED <<accepted, nextID>>
      BY <2>5 DEF FailUpdate, RejectMessage, FailDispatch, Return
    <3>2. QED
      BY <1>1, <2>1, <3>1, GotoMoved
  <2>6. CASE BeginDispatch(p)
    <3> DEFINE n == [pc |-> "install", in |-> r.in, id |-> r.id, seq |-> r.seq,
                     working |-> topic]
    <3>1. Moved(r, n) /\ Goto(p, n)
      BY <2>6 DEF BeginDispatch, Moved, Fresh, Flying, Before, Owes
    <3> HIDE DEF n
    <3>2. QED
      BY <1>1, <2>6, <3>1, GotoMoved DEF BeginDispatch
  <2>7. CASE CommitDispatch(p)
    <3> DEFINE n == [pc |-> "send", in |-> r.in, id |-> r.id, seq |-> r.seq,
                     targets |-> IF r.working = NoTopic THEN {} ELSE r.working.subscribed]
    <3>1. Moved(r, n) /\ Goto(p, n)
      BY <2>7 DEF CommitDispatch, Moved, Fresh, Flying, Before, Owes
    <3> HIDE DEF n
    <3>2. QED
      BY <1>1, <2>7, <3>1, GotoMoved DEF CommitDispatch
  <2>8. CASE \E q \in Queue : SendToQueue(p, q)
    <3>1. PICK q \in Queue : SendToQueue(p, q)
      BY <2>8
    <3> DEFINE n == [r EXCEPT !.targets = @ \ {q}]
    <3>2. r \in SendReq(case)
      BY <1>1, <3>1, PubFacts DEF SendToQueue, Typed
    <3>3. n.pc = "send" /\ r.pc = "send" /\ n.id = r.id /\ n.targets \subseteq r.targets
      BY <3>2 DEF SendReq
    <3>4. Goto(p, n)
      BY <3>1 DEF SendToQueue
    <3> HIDE DEF n
    <3>5. Moved(r, n)
      BY <3>3 DEF Moved, Fresh, Flying, Before, Owes
    <3>6. QED
      BY <1>1, <3>1, <3>4, <3>5, GotoMoved DEF SendToQueue
  <2>9. QED
    BY <1>5, <2>2, <2>3, <2>4, <2>5, <2>6, <2>7, <2>8 DEF Step
<1>6. CASE Environment
  <2>1. \A p \in Publisher : pub'[p] = pub[p] \/ pub'[p] = Idle
    BY <1>6 DEF Environment, Tick, BeginAdmin, CreateFifoTopic, SetFifoAttribute,
                SubscribeQueue, UnsubscribeQueue, DeleteFifoTopic, Crash
  <2>2. UNCHANGED <<accepted, nextID>>
    BY <1>6 DEF Environment, Tick, BeginAdmin, CreateFifoTopic, SetFifoAttribute,
                SubscribeQueue, UnsubscribeQueue, DeleteFifoTopic, Crash
  <2>3. QED
    BY <2>1, <2>2, MovedEasily DEF Continues
<1>7. QED
  BY <1>2, <1>3, <1>4, <1>5, <1>6 DEF Next, Environment
\* A request that starts has a new identifier.
LEMMA StartFacts ==
  ASSUME Typed, NEW p \in Publisher, Starts(p)
  PROVE  /\ pub'[p].pc = "update" /\ pub'[p].id = nextID /\ pub'[p].seen = Ended
         /\ \A x \in Publisher : x # p => pub'[x] = pub[x]
         /\ nextID' = nextID + 1
         /\ UNCHANGED <<case, topic, clock, admin, created, changes, history>>
         /\ topic # NoTopic
<1>1. PICK in \in case.inputs : StartPublish(p, in)
  BY DEF Starts
<1> DEFINE r == [pc |-> "update", in |-> in, id |-> nextID, dedupID |-> DedupID(topic, in),
                 seen |-> Ended]
<1>2. Goto(p, r)
  BY <1>1 DEF StartPublish
<1>3. pub'[p] = r /\ \A x \in Publisher : x # p => pub'[x] = pub[x]
  BY <1>2, GotoFacts DEF Typed
<1>4. QED
  BY <1>1, <1>3 DEF StartPublish, MayPublish

\* The message of a commit is the last of the history.
LEMMA CommitFacts ==
  ASSUME Typed, NEW p \in Publisher, Commits(p)
  PROVE  LET r == pub[p]
             n == Len(accepted) + 1
         IN
         /\ r \in CommitReq(case) /\ Fresh(r) /\ MayCommit(r.base) /\ ~r.deduplicated
         /\ pub'[p] = Dispatching(r)
         /\ \A x \in Publisher : x # p => pub'[x] = pub[x]
         /\ DOMAIN accepted' = DOMAIN accepted \cup {n} /\ n \notin DOMAIN accepted
         /\ Len(accepted') = Len(accepted) + 1
         /\ \A i \in DOMAIN accepted : accepted'[i] = accepted[i] /\ i < n
         /\ accepted'[n] = MessageOf(r)
         /\ topic' = r.working
         /\ UNCHANGED <<case, clock, admin, nextID, created, changes, batch, replies, sent, lost>>
<1>1. /\ pub[p].pc = "commit" /\ MayCommit(pub[p].base) /\ topic' = pub[p].working
      /\ accepted' = Append(accepted, MessageOf(pub[p])) /\ Goto(p, Dispatching(pub[p]))
      /\ UNCHANGED <<case, clock, admin, nextID, created, changes, batch, replies, sent, lost>>
      /\ ~pub[p].deduplicated
  BY DEF Commits, CommitUpdate
<1>2. pub[p] \in CommitReq(case) /\ Fresh(pub[p])
  BY <1>1, PubFacts DEF Typed, Fresh
<1>3. pub'[p] = Dispatching(pub[p]) /\ \A x \in Publisher : x # p => pub'[x] = pub[x]
  BY <1>1, GotoFacts DEF Typed
<1>4. accepted \in Seq(MessageSet(case))
  BY DEF Typed
<1> DEFINE m == MessageOf(pub[p])
<1> HIDE DEF m
<1>5. accepted' = Append(accepted, m)
  BY <1>1 DEF m
<1>6. /\ DOMAIN accepted' = DOMAIN accepted \cup {Len(accepted) + 1}
      /\ Len(accepted) + 1 \notin DOMAIN accepted
      /\ Len(accepted') = Len(accepted) + 1
      /\ \A i \in DOMAIN accepted : accepted'[i] = accepted[i] /\ i < Len(accepted) + 1
      /\ accepted'[Len(accepted) + 1] = m
  BY <1>4, <1>5, AppendFacts
<1>7. QED
  BY <1>1, <1>2, <1>3, <1>6 DEF m

\* Its fields.
LEMMA MessageFields ==
  ASSUME NEW r
  PROVE  /\ MessageOf(r).id = r.id /\ MessageOf(r).seq = r.seq
         /\ MessageOf(r).group = r.in.MessageGroupID
         /\ MessageOf(r).key = DedupKey(r.base, r) /\ MessageOf(r).at = r.at
         /\ MessageOf(r).seen = r.seen
         /\ MessageOf(r).incarnation = r.base.incarnation
         /\ MessageOf(r).subscribed = r.base.subscribed
BY DEF MessageOf

\* The identifiers of the history after it.
LEMMA CommitIds ==
  ASSUME Typed, NEW p \in Publisher, Commits(p)
  PROVE  IdsOf(accepted') = IdsOf(accepted) \cup {pub[p].id}
BY CommitFacts, MessageFields DEF IdsOf

\* No identifier is used twice.
LEMMA IdentifiersStep ==
  ASSUME IInv, Next
  PROVE  Identifiers'
<1>1. Typed /\ Identifiers
  BY DEF IInv
<1>2. CASE Continues
  BY <1>1, <1>2 DEF Continues, Moved, Identifiers
<1>3. CASE \E p \in Publisher : Starts(p)
  <2>1. PICK p \in Publisher : Starts(p)
    BY <1>3
  <2>2. /\ pub'[p].pc = "update" /\ pub'[p].id = nextID
        /\ \A x \in Publisher : x # p => pub'[x] = pub[x]
        /\ nextID' = nextID + 1 /\ accepted' = accepted
    BY <1>1, <2>1, StartFacts DEF history
  <2>3. nextID \in Nat /\ \A i \in DOMAIN accepted : accepted[i].id \in Nat
    <3>1. case \in Cases /\ nextID \in 1..(case.messages + 1)
      BY <1>1 DEF Typed
    <3>2. QED
      BY <1>1, <3>1, AcceptedNumbers, CaseFacts
  <2>4. nextID \notin IdsOf(accepted)
    BY <1>1, <2>3 DEF Identifiers, IdsOf
  <2>5. \A x \in Publisher : Fresh(pub[x]) \/ Flying(pub[x]) =>
          pub[x].id \in Nat /\ pub[x].id < nextID
    <3>1. \A x \in Publisher : Fresh(pub[x]) \/ Flying(pub[x]) => pub[x].id \in Nat
      BY <1>1, PubFields, CaseFacts DEF Typed, Fresh, Flying, Idle
    <3>2. QED
      BY <1>1, <3>1 DEF Identifiers, IdsOf
  <2>6. Fresh(pub'[p]) /\ ~Flying(pub'[p])
    BY <2>2 DEF Fresh, Flying
  <2>7. \A i \in DOMAIN accepted' : accepted'[i].id < nextID'
    BY <1>1, <2>2, <2>3 DEF Identifiers
  <2>8. \A x \in Publisher :
          /\ Fresh(pub'[x]) => pub'[x].id < nextID' /\ pub'[x].id \notin IdsOf(accepted')
          /\ Flying(pub'[x]) => pub'[x].id \in IdsOf(accepted')
    BY <1>1, <2>2, <2>3, <2>4, <2>5, <2>6 DEF Identifiers
  <2>9. ASSUME NEW x \in Publisher, NEW y \in Publisher,
               Fresh(pub'[x]) \/ Flying(pub'[x]), Fresh(pub'[y]) \/ Flying(pub'[y]),
               pub'[x].id = pub'[y].id
        PROVE  x = y
    BY <1>1, <2>2, <2>3, <2>5, <2>9 DEF Identifiers
  <2>10. QED
    BY <1>1, <2>2, <2>7, <2>8, <2>9 DEF Identifiers
<1>4. CASE \E p \in Publisher : Commits(p)
  <2>1. PICK p \in Publisher : Commits(p)
    BY <1>4
  <2> DEFINE n == Len(accepted) + 1
             r == pub[p]
  <2>2. /\ Fresh(r) /\ pub'[p] = Dispatching(r)
        /\ \A x \in Publisher : x # p => pub'[x] = pub[x]
        /\ DOMAIN accepted' = DOMAIN accepted \cup {n} /\ n \notin DOMAIN accepted
        /\ \A i \in DOMAIN accepted : accepted'[i] = accepted[i]
        /\ accepted'[n].id = r.id /\ nextID' = nextID
    BY <1>1, <2>1, CommitFacts, MessageFields
  <2>3. pub'[p].id = r.id /\ Flying(pub'[p]) /\ ~Fresh(pub'[p])
    BY <2>2 DEF Dispatching, Flying, Fresh
  <2>4. IdsOf(accepted') = IdsOf(accepted) \cup {r.id}
    BY <1>1, <2>1, CommitIds
  <2>5. r.id < nextID /\ r.id \notin IdsOf(accepted)
    BY <1>1, <2>2 DEF Identifiers
  <2>6. \A i \in DOMAIN accepted : accepted[i].id # r.id
    BY <2>5 DEF IdsOf
  <2> HIDE DEF n, r
  <2>7. \A i \in DOMAIN accepted' : accepted'[i].id < nextID'
    BY <1>1, <2>2, <2>5 DEF Identifiers
  <2>8. \A i, j \in DOMAIN accepted' : accepted'[i].id = accepted'[j].id => i = j
    BY <1>1, <2>2, <2>6 DEF Identifiers
  <2>9. \A x \in Publisher :
          /\ Fresh(pub'[x]) => pub'[x].id < nextID' /\ pub'[x].id \notin IdsOf(accepted')
          /\ Flying(pub'[x]) => pub'[x].id \in IdsOf(accepted')
    BY <1>1, <2>2, <2>3, <2>4 DEF Identifiers, r
  <2>10. ASSUME NEW x \in Publisher, NEW y \in Publisher,
                Fresh(pub'[x]) \/ Flying(pub'[x]), Fresh(pub'[y]) \/ Flying(pub'[y]),
                pub'[x].id = pub'[y].id
         PROVE  x = y
    BY <1>1, <2>2, <2>3, <2>10 DEF Identifiers, r
  <2>11. QED
    BY <2>7, <2>8, <2>9, <2>10 DEF Identifiers
<1>5. QED
  BY <1>2, <1>3, <1>4, Moves
-----------------------------------------------------------------------------
(***************************************************************************)
(* The order of the queues.                                                *)
(***************************************************************************)
\* The messages on their way: none is added but by a commit.
FlyingIds(f) == { f[p].id : p \in {x \in Publisher : Flying(f[x])} }

\* InFlight before and after a step.
LEMMA FlyingFacts ==
  ASSUME IInv, Next
  PROVE  /\ InFlight = FlyingIds(pub) /\ InFlight' = FlyingIds(pub')
         /\ Continues \/ (\E p \in Publisher : Starts(p)) => InFlight' \subseteq InFlight
         /\ \A p \in Publisher : Commits(p) => InFlight' \subseteq InFlight \cup {pub[p].id}
<1>1. InFlight = FlyingIds(pub) /\ InFlight' = FlyingIds(pub') /\ Typed
  BY DEF IInv, InFlight, FlyingIds, Flying
<1>2. CASE Continues
  BY <1>1, <1>2 DEF Continues, Moved, FlyingIds
<1>3. ASSUME NEW p \in Publisher, Starts(p)
      PROVE  InFlight' \subseteq InFlight
  <2>1. ~Flying(pub'[p]) /\ \A x \in Publisher : x # p => pub'[x] = pub[x]
    BY <1>1, <1>3, StartFacts DEF Flying
  <2>2. QED
    BY <1>1, <2>1 DEF FlyingIds
<1>4. ASSUME NEW p \in Publisher, Commits(p)
      PROVE  InFlight' \subseteq InFlight \cup {pub[p].id}
  <2>1. pub'[p] = Dispatching(pub[p]) /\ \A x \in Publisher : x # p => pub'[x] = pub[x]
    BY <1>1, <1>4, CommitFacts
  <2>2. pub'[p].id = pub[p].id
    BY <2>1 DEF Dispatching
  <2>3. QED
    BY <1>1, <2>1, <2>2 DEF FlyingIds
<1>5. QED
  BY <1>1, <1>2, <1>3, <1>4

\* What a request has seen stays ended.
LEMMA SeenStep ==
  ASSUME IInv, Next
  PROVE  Seen'
<1>1. Typed /\ Identifiers /\ Seen
  BY DEF IInv
<1>2. ASSUME Continues \/ \E p \in Publisher : Starts(p)
      PROVE  Seen'
  <2>1. InFlight' \subseteq InFlight /\ accepted' = accepted
    BY <1>1, <1>2, FlyingFacts, StartFacts DEF Continues, history
  <2>2. ASSUME NEW x \in Publisher, Before(pub'[x])
        PROVE  pub'[x].seen \subseteq IdsOf(accepted') \ InFlight'
    <3>1. CASE Continues
      BY <1>1, <2>1, <2>2, <3>1 DEF Continues, Moved, Seen, Before
    <3>2. CASE \E p \in Publisher : Starts(p)
      <4>1. PICK p \in Publisher : Starts(p)
        BY <3>2
      <4>2. pub'[p].seen = Ended /\ \A y \in Publisher : y # p => pub'[y] = pub[y]
        BY <1>1, <4>1, StartFacts
      <4>3. Ended = IdsOf(accepted) \ InFlight
        BY DEF Ended, IdsOf
      <4>4. QED
        BY <1>1, <2>1, <2>2, <4>2, <4>3 DEF Seen, Before
    <3>3. QED
      BY <1>2, <3>1, <3>2
  <2>3. QED
    BY <1>1, <2>1, <2>2 DEF Seen, Before
<1>3. CASE \E p \in Publisher : Commits(p)
  <2>1. PICK p \in Publisher : Commits(p)
    BY <1>3
  <2> DEFINE n == Len(accepted) + 1
             r == pub[p]
  <2>2. /\ r.pc = "commit" /\ Fresh(r) /\ pub'[p] = Dispatching(r)
        /\ \A x \in Publisher : x # p => pub'[x] = pub[x]
        /\ DOMAIN accepted' = DOMAIN accepted \cup {n} /\ n \notin DOMAIN accepted
        /\ \A i \in DOMAIN accepted : accepted'[i] = accepted[i] /\ i < n
        /\ accepted'[n].seen = r.seen
    BY <1>1, <2>1, CommitFacts, MessageFields DEF CommitReq
  <2>3. InFlight' \subseteq InFlight \cup {r.id}
    BY <2>1, FlyingFacts
  <2>4. IdsOf(accepted') = IdsOf(accepted) \cup {r.id} /\ r.id \notin IdsOf(accepted)
    BY <1>1, <2>1, <2>2, CommitIds DEF Identifiers
  <2>5. r.seen \subseteq IdsOf(accepted) \ InFlight /\ pub'[p].pc = "dispatch"
    BY <1>1, <2>2 DEF Seen, Dispatching
  <2> HIDE DEF n, r
  <2>6. \A x \in Publisher : Before(pub'[x]) =>
          pub'[x].seen \subseteq IdsOf(accepted') \ InFlight'
    BY <1>1, <2>2, <2>3, <2>4, <2>5 DEF Seen, Before
  <2>7. ASSUME NEW b \in DOMAIN accepted
        PROVE  /\ accepted'[b].seen \cap InFlight' = {}
               /\ \A m \in accepted'[b].seen :
                    \E a \in DOMAIN accepted' : a < b /\ accepted'[a].id = m
    <3>1. accepted'[b].seen = accepted[b].seen
      BY <2>2
    <3>2. \A m \in accepted[b].seen : \E a \in DOMAIN accepted : a < b /\ accepted[a].id = m
      BY <1>1 DEF Seen
    <3>3. accepted[b].seen \cap InFlight = {} /\ r.id \notin accepted[b].seen
      BY <1>1, <2>4, <3>2 DEF Seen, IdsOf
    <3>4. QED
      BY <2>2, <2>3, <3>1, <3>2, <3>3
  <2>8. /\ accepted'[n].seen \cap InFlight' = {}
        /\ \A m \in accepted'[n].seen :
             \E a \in DOMAIN accepted' : a < n /\ accepted'[a].id = m
    BY <2>2, <2>3, <2>4, <2>5 DEF IdsOf
  <2>9. QED
    BY <2>2, <2>6, <2>7, <2>8 DEF Seen, Before
<1>4. QED
  BY <1>2, <1>3, Moves

\* One message arrives at one queue.
Sends(p, q) ==
  /\ SendToQueue(p, q)
  /\ sent' = [sent EXCEPT ![q] = Append(@, pub[p].id)]

\* Everything else leaves the queues alone.
LEMMA QueueMoves ==
  ASSUME Next
  PROVE  sent' = sent \/ \E p \in Publisher, q \in Queue : Sends(p, q)
<1> USE DEF history, world
<1>1. ASSUME NEW p \in Publisher,
             \/ \E in \in case.inputs : Publish(p, in)
             \/ \E b \in case.batches : PublishBatch(p, b)
             \/ PublishEntry(p)
      PROVE  sent' = sent
  BY <1>1 DEF Publish, PublishBatch, PublishEntry, StartPublish
<1>2. ASSUME NEW p \in Publisher, Step(p)
      PROVE  sent' = sent \/ \E q \in Queue : Sends(p, q)
  <2>1. ASSUME NEW q \in Queue, SendToQueue(p, q)
        PROVE  sent' = sent \/ Sends(p, q)
    BY <2>1 DEF SendToQueue, Sends
  <2>2. QED
    BY <1>2, <2>1 DEF Step, BeginUpdate, RunCallback, CommitUpdate, FailUpdate,
                      RejectMessage, BeginDispatch, CommitDispatch, FailDispatch, Return
<1>3. ASSUME Environment
      PROVE  sent' = sent
  BY <1>3 DEF Environment, Tick, BeginAdmin, CreateFifoTopic, SetFifoAttribute,
              SubscribeQueue, UnsubscribeQueue, DeleteFifoTopic, Crash
<1>4. QED
  BY <1>1, <1>2, <1>3 DEF Next, Environment

\* A send: the message is committed, is not in the queue, and goes to its end.
LEMMA SendFacts ==
  ASSUME IInv, NEW p \in Publisher, NEW q \in Queue, Sends(p, q)
  PROVE  LET n == Len(sent[q]) + 1
             id == pub[p].id
         IN
         /\ UNCHANGED <<accepted, nextID, topic, created, clock>>
         /\ \A x \in Publisher : x # p => pub'[x] = pub[x]
         /\ pub[p].pc = "send" /\ pub'[p].pc = "send" /\ pub'[p].id = id
         /\ pub'[p].targets = pub[p].targets \ {q}
         /\ id \in IdsOf(accepted) /\ id \in InFlight /\ id \notin Range(sent[q])
         /\ \A y \in Queue : y # q => sent'[y] = sent[y]
         /\ DOMAIN sent'[q] = DOMAIN sent[q] \cup {n} /\ n \notin DOMAIN sent[q]
         /\ \A i \in DOMAIN sent[q] : sent'[q][i] = sent[q][i] /\ i < n
         /\ sent'[q][n] = id
<1>1. Typed /\ Identifiers /\ Unsent
  BY DEF IInv
<1>2. /\ pub[p].pc = "send" /\ q \in pub[p].targets
      /\ Goto(p, [pub[p] EXCEPT !.targets = @ \ {q}])
      /\ sent' = [sent EXCEPT ![q] = Append(@, pub[p].id)]
      /\ UNCHANGED <<accepted, nextID, topic, created, clock>>
  BY DEF Sends, SendToQueue, world
<1>3. pub[p] \in SendReq(case)
  BY <1>1, <1>2, PubFacts DEF Typed
<1> DEFINE r == [pub[p] EXCEPT !.targets = @ \ {q}]
<1>4. r.pc = "send" /\ r.id = pub[p].id /\ r.targets = pub[p].targets \ {q}
  BY <1>3 DEF SendReq
<1> HIDE DEF r
<1>5. pub'[p] = r /\ \A x \in Publisher : x # p => pub'[x] = pub[x]
  <2>1. Goto(p, r)
    BY <1>2 DEF r
  <2>2. pub \in [Publisher -> PubState(case)]
    BY <1>1 DEF Typed
  <2>3. QED
    BY <2>1, <2>2, GotoFacts
<1>6. pub[p].id \in IdsOf(accepted) /\ pub[p].id \in InFlight
  BY <1>1, <1>2 DEF Identifiers, Flying, InFlight
<1>7. pub[p].id \notin Range(sent[q])
  BY <1>1, <1>2 DEF Unsent, Owes
<1>8. sent[q] \in Seq(1..case.messages) /\ DOMAIN sent = Queue
  BY <1>1 DEF Typed
<1>9. sent'[q] = Append(sent[q], pub[p].id) /\ \A y \in Queue : y # q => sent'[y] = sent[y]
  BY <1>2, <1>8
<1>10. /\ DOMAIN sent'[q] = DOMAIN sent[q] \cup {Len(sent[q]) + 1}
       /\ Len(sent[q]) + 1 \notin DOMAIN sent[q]
       /\ \A i \in DOMAIN sent[q] : sent'[q][i] = sent[q][i] /\ i < Len(sent[q]) + 1
       /\ sent'[q][Len(sent[q]) + 1] = pub[p].id
  BY <1>8, <1>9, AppendFacts
<1>11. QED
  BY <1>2, <1>4, <1>5, <1>6, <1>7, <1>9, <1>10
\* A message that a request still owes to a queue is not in it.
LEMMA UnsentStep ==
  ASSUME IInv, Next
  PROVE  Unsent'
<1>1. Typed /\ Identifiers /\ Unsent
  BY DEF IInv
<1>2. SUFFICES ASSUME NEW x \in Publisher, NEW y \in Queue, Owes(pub'[x], y)
               PROVE  pub'[x].id \notin Range(sent'[y])
  BY DEF Unsent
<1>3. ASSUME NEW p \in Publisher, NEW q \in Queue, Sends(p, q)
      PROVE  pub'[x].id \notin Range(sent'[y])
  <2>1. Owes(pub[x], y) /\ pub'[x].id = pub[x].id /\ Flying(pub[x])
    BY <1>2, <1>3, SendFacts DEF Owes, Flying
  <2>2. ~(x = p /\ y = q)
    BY <1>2, <1>3, SendFacts DEF Owes
  <2>3. pub[x].id = pub[p].id => x = p
    BY <1>1, <1>3, <2>1, SendFacts DEF Identifiers, Flying
  <2>4. CASE y # q
    BY <1>1, <1>3, <2>1, <2>4, SendFacts DEF Unsent
  <2>5. CASE y = q
    <3>1. pub[x].id \notin Range(sent[q]) /\ pub[x].id # pub[p].id
      BY <1>1, <2>1, <2>2, <2>3, <2>5 DEF Unsent
    <3>2. \A i \in DOMAIN sent'[q] : sent'[q][i] # pub[x].id
      BY <1>3, <3>1, SendFacts DEF Range
    <3>3. QED
      BY <2>1, <2>5, <3>2 DEF Range
  <2>6. QED
    BY <2>4, <2>5
<1>4. ASSUME sent' = sent
      PROVE  pub'[x].id \notin Range(sent'[y])
  <2>1. CASE Continues
    <3>1. Owes(pub[x], y) /\ Flying(pub'[x])
      BY <1>2, <2>1 DEF Continues, Moved, Flying, Owes
    <3>2. pub'[x].id = pub[x].id
      BY <2>1, <3>1 DEF Continues, Moved
    <3>3. QED
      BY <1>1, <1>4, <3>1, <3>2 DEF Unsent
  <2>2. ASSUME NEW p \in Publisher, Starts(p)
        PROVE  pub'[x].id \notin Range(sent'[y])
    BY <1>1, <1>2, <1>4, <2>2, StartFacts DEF Unsent, Owes
  <2>3. ASSUME NEW p \in Publisher, Commits(p)
        PROVE  pub'[x].id \notin Range(sent'[y])
    <3>1. /\ pub'[p] = Dispatching(pub[p]) /\ Fresh(pub[p])
          /\ \A z \in Publisher : z # p => pub'[z] = pub[z]
      BY <1>1, <2>3, CommitFacts
    <3>2. pub'[p].id = pub[p].id /\ pub[p].id \notin IdsOf(accepted)
      BY <1>1, <3>1 DEF Dispatching, Identifiers
    <3>3. \A i \in DOMAIN sent[y] : sent[y][i] \in IdsOf(accepted)
      BY DEF IInv, SentAtMostOnce, IdsOf
    <3>4. QED
      BY <1>1, <1>2, <1>4, <3>1, <3>2, <3>3 DEF Unsent, Range
  <2>4. QED
    BY <2>1, <2>2, <2>3, Moves
<1>5. QED
  BY <1>3, <1>4, QueueMoves

\* A queue gets committed messages, each once.
LEMMA SentStep ==
  ASSUME IInv, Next
  PROVE  SentAtMostOnce'
<1>1. Typed /\ SentAtMostOnce
  BY DEF IInv
<1>2. IdsOf(accepted) \subseteq IdsOf(accepted')
  <2>1. ASSUME NEW p \in Publisher, Commits(p)
        PROVE  IdsOf(accepted) \subseteq IdsOf(accepted')
    BY <1>1, <2>1, CommitIds
  <2>2. ASSUME NEW p \in Publisher, Starts(p)
        PROVE  accepted' = accepted
    BY <1>1, <2>2, StartFacts DEF history
  <2>3. QED
    BY <2>1, <2>2, Moves DEF Continues
<1>3. SUFFICES ASSUME NEW y \in Queue
               PROVE  /\ \A i \in DOMAIN sent'[y] : sent'[y][i] \in IdsOf(accepted')
                      /\ \A i, j \in DOMAIN sent'[y] : sent'[y][i] = sent'[y][j] => i = j
  BY DEF SentAtMostOnce, IdsOf
<1>4. /\ \A i \in DOMAIN sent[y] : sent[y][i] \in IdsOf(accepted)
      /\ \A i, j \in DOMAIN sent[y] : sent[y][i] = sent[y][j] => i = j
  BY <1>1 DEF SentAtMostOnce, IdsOf
<1>5. CASE sent'[y] = sent[y]
  BY <1>2, <1>4, <1>5
<1>6. ASSUME NEW p \in Publisher, Sends(p, y)
      PROVE  /\ \A i \in DOMAIN sent'[y] : sent'[y][i] \in IdsOf(accepted')
             /\ \A i, j \in DOMAIN sent'[y] : sent'[y][i] = sent'[y][j] => i = j
  <2> DEFINE n == Len(sent[y]) + 1
  <2>1. /\ accepted' = accepted /\ pub[p].id \in IdsOf(accepted)
        /\ \A i \in DOMAIN sent[y] : sent[y][i] # pub[p].id
        /\ DOMAIN sent'[y] = DOMAIN sent[y] \cup {n}
        /\ \A i \in DOMAIN sent[y] : sent'[y][i] = sent[y][i]
        /\ sent'[y][n] = pub[p].id
    BY <1>6, SendFacts DEF Range
  <2> HIDE DEF n
  <2>2. QED
    BY <1>4, <2>1
<1>7. ASSUME NEW p \in Publisher, NEW q \in Queue, Sends(p, q), q # y
      PROVE  sent'[y] = sent[y]
  BY <1>7, SendFacts
<1>8. QED
  BY <1>5, <1>6, <1>7, QueueMoves

\* Messages published one after the other are in this order in every queue.
LEMMA QueueOrderStep ==
  ASSUME IInv, Next
  PROVE  QueueOrder'
<1>1. Typed /\ Identifiers /\ Seen /\ QueueOrder /\ SentAtMostOnce
  BY DEF IInv
<1>2. SUFFICES ASSUME NEW y \in Queue, NEW i \in DOMAIN sent'[y], NEW j \in DOMAIN sent'[y],
                      NEW b \in DOMAIN accepted', accepted'[b].id = sent'[y][j],
                      sent'[y][i] \in accepted'[b].seen
               PROVE  i < j
  BY DEF QueueOrder
<1>3. CASE sent'[y] = sent[y]
  <2>1. CASE b \in DOMAIN accepted /\ accepted'[b] = accepted[b]
    BY <1>1, <1>2, <1>3, <2>1 DEF QueueOrder
  <2>2. ASSUME NEW p \in Publisher, Commits(p), b \notin DOMAIN accepted
        PROVE  FALSE
    <3>1. accepted'[b].id = pub[p].id /\ Fresh(pub[p])
      BY <1>1, <2>2, CommitFacts, MessageFields
    <3>2. pub[p].id \notin IdsOf(accepted) /\ sent[y][j] \in IdsOf(accepted)
      BY <1>1, <1>2, <1>3, <3>1 DEF Identifiers, SentAtMostOnce, IdsOf
    <3>3. QED
      BY <1>2, <1>3, <3>1, <3>2
  <2>3. ASSUME NEW p \in Publisher, Commits(p), b \in DOMAIN accepted
        PROVE  accepted'[b] = accepted[b]
    BY <1>1, <2>3, CommitFacts
  <2>4. ASSUME NEW p \in Publisher, Starts(p)
        PROVE  accepted' = accepted
    BY <1>1, <2>4, StartFacts DEF history
  <2>5. QED
    BY <2>1, <2>2, <2>3, <2>4, Moves DEF Continues
<1>4. ASSUME NEW p \in Publisher, Sends(p, y)
      PROVE  i < j
  <2> DEFINE n == Len(sent[y]) + 1
             id == pub[p].id
  <2>1. /\ accepted' = accepted /\ id \in InFlight
        /\ DOMAIN sent'[y] = DOMAIN sent[y] \cup {n} /\ n \notin DOMAIN sent[y]
        /\ \A k \in DOMAIN sent[y] : sent'[y][k] = sent[y][k] /\ k < n
        /\ sent'[y][n] = id
    BY <1>4, SendFacts
  <2> HIDE DEF n, id
  <2>2. i # n
    BY <1>1, <1>2, <2>1 DEF Seen
  <2>3. CASE j = n
    BY <2>1, <2>2, <2>3
  <2>4. CASE j # n
    BY <1>1, <1>2, <2>1, <2>2, <2>4 DEF QueueOrder
  <2>5. QED
    BY <2>3, <2>4
<1>5. ASSUME NEW p \in Publisher, NEW q \in Queue, Sends(p, q), q # y
      PROVE  sent'[y] = sent[y]
  BY <1>5, SendFacts
<1>6. QED
  BY <1>3, <1>4, <1>5, QueueMoves
-----------------------------------------------------------------------------
(***************************************************************************)
(* The copies of the topic.                                                *)
(***************************************************************************)
\* Time, topics and history only grow.
LEMMA Onward ==
  ASSUME IInv, Next
  PROVE  /\ case' = case
         /\ clock \in Nat /\ clock' \in Nat /\ clock <= clock'
         /\ created \in Nat /\ created' \in Nat /\ created <= created'
         /\ DOMAIN accepted \subseteq DOMAIN accepted'
         /\ \A i \in DOMAIN accepted : accepted'[i] = accepted[i]
         /\ Len(accepted) \in Nat /\ Len(accepted') \in Nat /\ Len(accepted) <= Len(accepted')
<1> USE DEF history, world
<1>1. Typed /\ Typed'
  BY TypedStep DEF IInv
<1>2. /\ case' = case
      /\ clock' = clock \/ clock' = clock + 1
      /\ created' = created \/ created' = created + 1
  BY DEF Next, Publish, PublishBatch, PublishEntry, StartPublish, Step, BeginUpdate,
         RunCallback, CommitUpdate, FailUpdate, RejectMessage, BeginDispatch, CommitDispatch,
         FailDispatch, SendToQueue, Return, Tick, BeginAdmin, CreateFifoTopic,
         SetFifoAttribute, SubscribeQueue, UnsubscribeQueue, DeleteFifoTopic, Crash
<1>3. clock \in Nat /\ created \in Nat
  BY <1>1, CaseFacts DEF Typed
<1>4. Len(accepted) \in Nat
  BY <1>1 DEF Typed
<1>5. ASSUME NEW p \in Publisher, Commits(p)
      PROVE  /\ DOMAIN accepted \subseteq DOMAIN accepted'
             /\ \A i \in DOMAIN accepted : accepted'[i] = accepted[i]
             /\ Len(accepted') = Len(accepted) + 1
  BY <1>1, <1>5, CommitFacts
<1>6. ASSUME NEW p \in Publisher, Starts(p)
      PROVE  accepted' = accepted
  BY <1>1, <1>6, StartFacts
<1>7. /\ DOMAIN accepted \subseteq DOMAIN accepted'
      /\ \A i \in DOMAIN accepted : accepted'[i] = accepted[i]
      /\ Len(accepted') = Len(accepted) \/ Len(accepted') = Len(accepted) + 1
  BY <1>5, <1>6, Moves DEF Continues
<1>8. QED
  BY <1>2, <1>3, <1>4, <1>7

\* A copy stays right while the history grows.
LEMMA RecordedLater ==
  ASSUME IInv, Next, NEW t \in TopicOf(case), Recorded(t, accepted, clock, created)
  PROVE  Recorded(t, accepted', clock', created')
<1>1. /\ clock \in Nat /\ clock' \in Nat /\ clock <= clock'
      /\ created \in Nat /\ created' \in Nat /\ created <= created'
      /\ DOMAIN accepted \subseteq DOMAIN accepted'
      /\ \A i \in DOMAIN accepted : accepted'[i] = accepted[i]
      /\ Len(accepted) \in Nat /\ Len(accepted') \in Nat /\ Len(accepted) <= Len(accepted')
  BY Onward
<1>2. case \in Cases
  BY DEF IInv, Typed
<1>3. t.incarnation \in Nat
  BY <1>2, TopicFields, CaseFacts
<1>4. \A g \in DOMAIN t.GroupSequences :
        t.GroupSequences[g].Counter \in Nat /\ t.GroupSequences[g].Prefix \in Nat
  BY <1>2, TopicRows, CaseFacts
<1>5. t.incarnation <= created'
  BY <1>1, <1>3 DEF Recorded
<1>6. \A k \in DOMAIN t.DedupRecords : \E i \in DOMAIN accepted' : Names(accepted'[i], t, k)
  BY <1>1 DEF Recorded
<1>7. \A g \in DOMAIN t.GroupSequences :
        /\ t.GroupSequences[g].Counter <= Len(accepted')
        /\ t.GroupSequences[g].Prefix <= clock'
  BY <1>1, <1>4 DEF Recorded
<1>8. QED
  BY <1>5, <1>6, <1>7 DEF Recorded

\* Only the tables and the incarnation count.
LEMMA RecordedSame ==
  ASSUME NEW t, NEW u, NEW acc, NEW now, NEW n, Recorded(t, acc, now, n),
         u.incarnation = t.incarnation, u.GroupSequences = t.GroupSequences,
         u.DedupRecords = t.DedupRecords
  PROVE  Recorded(u, acc, now, n)
BY DEF Recorded, Names

\* The topic that a commit leaves speaks of committed messages, the new one
\* among them.
LEMMA RecordedCommit ==
  ASSUME IInv, NEW p \in Publisher, Commits(p)
  PROVE  Recorded(topic', accepted', clock', created')
<1> DEFINE r == pub[p]
           n == Len(accepted) + 1
           g == r.in.MessageGroupID
           k == DedupKey(r.base, r)
           next == NextSequence(SequenceOf(r.base, g), r.at)
           rec == [MessageID |-> r.id, SequenceNumber |-> SequenceNumber(next),
                   ExpiresAt |-> r.at + Window]
<1>1. Typed /\ case \in Cases /\ Len(accepted) \in Nat /\ clock \in Nat
  BY CaseFacts DEF IInv, Typed
<1>2. /\ r \in CommitReq(case) /\ ~r.deduplicated /\ topic' = r.working
      /\ DOMAIN accepted' = DOMAIN accepted \cup {n} /\ n \notin DOMAIN accepted
      /\ Len(accepted') = n
      /\ \A i \in DOMAIN accepted : accepted'[i] = accepted[i]
      /\ accepted'[n] = MessageOf(r) /\ clock' = clock /\ created' = created
  BY <1>1, CommitFacts
<1>3. /\ r.base \in TopicOf(case) /\ r.pc = "commit" /\ r.at \in 1..case.clock
  BY <1>2 DEF CommitReq
<1>4. Recorded(r.base, accepted, clock, created) /\ r.at <= clock /\ Decided(r, accepted)
  BY <1>3 DEF IInv, Copies
<1>5. topic' = RecordMessage(r.base, r, r.at)
      /\ r.seq = SequenceNumber(r.working.GroupSequences[r.in.MessageGroupID])
  BY <1>2, <1>4 DEF Decided
<1>6. /\ topic'.incarnation = r.base.incarnation
      /\ topic'.GroupSequences = Put(r.base.GroupSequences, g, next)
      /\ topic'.DedupRecords = Put(r.base.DedupRecords, k, rec)
  BY <1>3, <1>5 DEF RecordMessage, TopicOf
<1>7. r.seq = SequenceNumber(next)
  <2>1. RecordMessage(r.base, r, r.at).GroupSequences[g] = next
    BY <1>3, RecordedNumber
  <2>2. QED
    BY <1>2, <1>5, <2>1
<1>8. topic'.incarnation <= created'
  BY <1>2, <1>4, <1>6 DEF Recorded
<1>9. ASSUME NEW x \in DOMAIN topic'.DedupRecords
      PROVE  \E i \in DOMAIN accepted' : Names(accepted'[i], topic', x)
  <2>1. CASE x = k
    <3>1. topic'.DedupRecords[x] = rec
      BY <1>6, <2>1 DEF Put
    <3>2. /\ rec.MessageID = r.id /\ rec.SequenceNumber = r.seq
          /\ rec.ExpiresAt = r.at + Window
      BY <1>7
    <3> HIDE DEF rec, k, r
    <3>3. /\ accepted'[n].id = r.id /\ accepted'[n].seq = r.seq
          /\ accepted'[n].key = k /\ accepted'[n].at = r.at
          /\ accepted'[n].incarnation = r.base.incarnation
      BY <1>2, MessageFields DEF k
    <3>4. Names(accepted'[n], topic', x)
      BY <1>6, <2>1, <3>1, <3>2, <3>3 DEF Names
    <3>5. QED
      BY <1>2, <3>4
  <2>2. CASE x # k
    <3>1. x \in DOMAIN r.base.DedupRecords /\ topic'.DedupRecords[x] = r.base.DedupRecords[x]
      BY <1>6, <2>2 DEF Put
    <3>2. PICK i \in DOMAIN accepted : Names(accepted[i], r.base, x)
      BY <1>4, <3>1 DEF Recorded
    <3>3. Names(accepted'[i], topic', x)
      BY <1>2, <1>6, <3>1, <3>2 DEF Names
    <3>4. QED
      BY <1>2, <3>2, <3>3
  <2>3. QED
    BY <2>1, <2>2
<1>10. ASSUME NEW x \in DOMAIN topic'.GroupSequences
       PROVE  topic'.GroupSequences[x].Counter <= Len(accepted')
              /\ topic'.GroupSequences[x].Prefix <= clock'
  <2>1. CASE x = g
    <3>1. topic'.GroupSequences[x] = next
      BY <1>6, <2>1 DEF Put
    <3>2. \A y \in DOMAIN r.base.GroupSequences :
            /\ r.base.GroupSequences[y].Counter \in Nat
            /\ r.base.GroupSequences[y].Counter <= Len(accepted)
            /\ r.base.GroupSequences[y].Prefix <= clock
      BY <1>1, <1>3, <1>4, TopicRows, CaseFacts DEF Recorded
    <3>3. /\ g \notin DOMAIN r.base.GroupSequences => next.Prefix = r.at /\ next.Counter = 1
          /\ g \in DOMAIN r.base.GroupSequences =>
               /\ next.Prefix = r.base.GroupSequences[g].Prefix
               /\ next.Counter = r.base.GroupSequences[g].Counter + 1
      BY <1>1, <1>3, NextFacts
    <3> HIDE DEF next, g, r
    <3>4. next.Counter <= n /\ next.Prefix <= clock
      BY <1>1, <1>4, <3>2, <3>3
    <3>5. QED
      BY <1>2, <3>1, <3>4
  <2>2. CASE x # g
    <3>1. x \in DOMAIN r.base.GroupSequences
          /\ topic'.GroupSequences[x] = r.base.GroupSequences[x]
      BY <1>6, <2>2 DEF Put
    <3>2. r.base.GroupSequences[x].Counter \in Nat
      BY <1>1, <1>3, <3>1, TopicRows, CaseFacts
    <3> HIDE DEF r, g
    <3>3. QED
      BY <1>1, <1>2, <1>4, <3>1, <3>2 DEF Recorded
  <2>3. QED
    BY <2>1, <2>2
<1>11. QED
  BY <1>8, <1>9, <1>10 DEF Recorded
\* Where the topic of the next state comes from.
LEMMA TopicMoves ==
  ASSUME IInv, Next
  PROVE  \/ topic' = topic
         \/ topic' = NoTopic /\ (DeleteFifoTopic \/ InMemory)
         \/ CreateFifoTopic
         \/ SetFifoAttribute
         \/ \E q \in Queue : SubscribeQueue(q) \/ UnsubscribeQueue(q)
         \/ \E p \in Publisher : CommitUpdate(p)
         \/ \E p \in Publisher : InMemory /\ pub[p].pc = "install" /\ topic' = pub[p].working
<1> USE DEF history, world
<1>1. ASSUME NEW p \in Publisher,
             \/ \E in \in case.inputs : Publish(p, in)
             \/ \E b \in case.batches : PublishBatch(p, b)
             \/ PublishEntry(p)
      PROVE  topic' = topic
  BY <1>1 DEF Publish, PublishBatch, PublishEntry, StartPublish
<1>2. ASSUME NEW p \in Publisher, Step(p)
      PROVE  \/ topic' = topic \/ CommitUpdate(p)
             \/ InMemory /\ pub[p].pc = "install" /\ topic' = pub[p].working
  BY <1>2 DEF Step, BeginUpdate, RunCallback, FailUpdate, RejectMessage, BeginDispatch,
              CommitDispatch, FailDispatch, SendToQueue, Return
<1>3. ASSUME Tick \/ BeginAdmin \/ DeleteFifoTopic \/ Crash
      PROVE  topic' = topic \/ (topic' = NoTopic /\ (DeleteFifoTopic \/ InMemory))
  BY <1>3 DEF Tick, BeginAdmin, DeleteFifoTopic, Crash
<1>4. QED
  BY <1>1, <1>2, <1>3 DEF Next

\* Where the copies that a request carries come from.
Carries(r, x) ==
  \/ r.pc \in {"idle", "update", "dispatch", "send"}
  \/ r.pc = "callback" /\ r.base = topic /\ topic # NoTopic
  \/ RunCallback(x)
  \/ r.pc = "install" /\ r.working = topic /\ BeginDispatch(x)

\* A request keeps what it has, or takes it from the topic.
LEMMA RequestMoves ==
  ASSUME IInv, Next, NEW x \in Publisher
  PROVE  pub'[x] = pub[x] \/ Carries(pub'[x], x)
<1> USE DEF history, world
<1>1. Typed
  BY DEF IInv
<1>2. ASSUME NEW p \in Publisher, NEW r, Goto(p, r), Carries(r, p)
      PROVE  pub'[x] = pub[x] \/ Carries(pub'[x], x)
  BY <1>1, <1>2, GotoFacts DEF Typed
<1>3. Idle.pc = "idle"
  BY DEF Idle
<1>4. ASSUME NEW p \in Publisher, Starts(p)
      PROVE  pub'[x] = pub[x] \/ Carries(pub'[x], x)
  BY <1>1, <1>4, StartFacts DEF Carries
<1>5. ASSUME NEW p \in Publisher, Step(p)
      PROVE  pub'[x] = pub[x] \/ Carries(pub'[x], x)
  <2>1. CASE BeginUpdate(p)
    <3>1. CASE topic = NoTopic
      BY <1>2, <1>3, <2>1, <3>1 DEF BeginUpdate, Carries
    <3>2. CASE topic # NoTopic
      <4>1. PICK r : Goto(p, r) /\ r.pc = "callback" /\ r.base = topic
        BY <2>1, <3>2 DEF BeginUpdate
      <4>2. QED
        BY <1>2, <3>2, <4>1 DEF Carries
    <3>3. QED
      BY <3>1, <3>2
  <2>2. CASE RunCallback(p)
    BY <1>2, <2>2, CallbackTyped DEF Carries
  <2>3. CASE CommitUpdate(p)
    <3>1. PICK r : Goto(p, r) /\ r.pc \in {"idle", "dispatch"}
      BY <1>3, <2>3 DEF CommitUpdate, Dispatching
    <3>2. QED
      BY <1>2, <3>1 DEF Carries
  <2>4. CASE FailUpdate(p) \/ RejectMessage(p) \/ FailDispatch(p) \/ Return(p)
    BY <1>2, <1>3, <2>4 DEF FailUpdate, RejectMessage, FailDispatch, Return, Carries
  <2>5. CASE BeginDispatch(p)
    <3>1. PICK r : Goto(p, r) /\ r.pc = "install" /\ r.working = topic
      BY <2>5 DEF BeginDispatch
    <3>2. QED
      BY <1>2, <2>5, <3>1 DEF Carries
  <2>6. CASE CommitDispatch(p)
    <3>1. PICK r : Goto(p, r) /\ r.pc = "send"
      BY <2>6 DEF CommitDispatch
    <3>2. QED
      BY <1>2, <3>1 DEF Carries
  <2>7. CASE \E q \in Queue : SendToQueue(p, q)
    <3>1. PICK q \in Queue : SendToQueue(p, q)
      BY <2>7
    <3>2. pub[p] \in SendReq(case)
      BY <1>1, <3>1, PubFacts DEF SendToQueue, Typed
    <3>3. Goto(p, [pub[p] EXCEPT !.targets = @ \ {q}])
      BY <3>1 DEF SendToQueue
    <3>4. [pub[p] EXCEPT !.targets = @ \ {q}].pc = "send"
      BY <3>2 DEF SendReq
    <3>5. QED
      BY <1>2, <3>3, <3>4 DEF Carries
  <2>8. QED
    BY <1>5, <2>1, <2>2, <2>3, <2>4, <2>5, <2>6, <2>7 DEF Step
<1>6. ASSUME NEW p \in Publisher,
             \/ \E in \in case.inputs : Publish(p, in)
             \/ \E b \in case.batches : PublishBatch(p, b)
             \/ PublishEntry(p)
      PROVE  pub' = pub \/ Starts(p)
  <2>1. CASE PublishEntry(p)
    <3>1. batch[p] \in Seq(case.inputs) /\ batch[p] # <<>> /\ pub[p].pc = "idle"
      BY <1>1, <2>1 DEF PublishEntry, Typed
    <3>2. Head(batch[p]) \in case.inputs
      BY <3>1, HeadTail
    <3>3. QED
      BY <2>1, <3>1, <3>2 DEF PublishEntry, Starts
  <2>2. QED
    BY <1>6, <2>1 DEF Publish, PublishBatch, Starts
<1>7. ASSUME Environment
      PROVE  pub'[x] = pub[x] \/ Carries(pub'[x], x)
  BY <1>3, <1>7 DEF Environment, Tick, BeginAdmin, CreateFifoTopic, SetFifoAttribute,
                    SubscribeQueue, UnsubscribeQueue, DeleteFifoTopic, Crash, Carries
<1>8. QED
  BY <1>4, <1>5, <1>6, <1>7 DEF Next, Environment
\* The stored topic.
LEMMA TopicCopy ==
  ASSUME IInv, Next, topic' # NoTopic
  PROVE  Recorded(topic', accepted', clock', created')
<1>1. Typed /\ Copies /\ Typed'
  BY TypedStep DEF IInv
<1>2. ASSUME NEW t \in TopicOf(case), Recorded(t, accepted, clock, created),
             topic'.incarnation = t.incarnation, topic'.GroupSequences = t.GroupSequences,
             topic'.DedupRecords = t.DedupRecords
      PROVE  Recorded(topic', accepted', clock', created')
  <2>1. Recorded(t, accepted', clock', created')
    BY <1>2, RecordedLater
  <2>2. QED
    BY <1>2, <2>1, RecordedSame
<1>3. CASE topic' = topic
  <2>1. topic \in TopicOf(case) /\ Recorded(topic, accepted, clock, created)
    BY <1>1, <1>3 DEF Typed, Copies
  <2>2. QED
    BY <1>2, <1>3, <2>1
<1>4. CASE CreateFifoTopic
  <2>1. topic'.incarnation = created' /\ DOMAIN topic'.DedupRecords = {}
        /\ DOMAIN topic'.GroupSequences = {}
    BY <1>4 DEF CreateFifoTopic, NewTopic, EmptyMap
  <2>2. created' \in Nat
    BY Onward
  <2>3. QED
    BY <2>1, <2>2 DEF Recorded
<1>5. CASE SetFifoAttribute \/ \E q \in Queue : SubscribeQueue(q) \/ UnsubscribeQueue(q)
  <2>1. PICK base \in AdminBase \ {NoTopic} :
          /\ base \in TopicOf(case)
          /\ topic'.incarnation = base.incarnation
          /\ topic'.GroupSequences = base.GroupSequences
          /\ topic'.DedupRecords = base.DedupRecords
    BY <1>1, <1>5, AdminTopic
  <2>2. base = topic \/ \E i \in DOMAIN admin : base = admin[i]
    BY <1>1, AdminFacts
  <2>3. Recorded(base, accepted, clock, created)
    BY <1>1, <2>1, <2>2 DEF Copies
  <2>4. QED
    BY <1>2, <2>1, <2>3
<1>6. ASSUME NEW p \in Publisher, CommitUpdate(p)
      PROVE  Recorded(topic', accepted', clock', created')
  <2>1. CASE ~pub[p].deduplicated
    BY <1>6, <2>1, RecordedCommit DEF Commits
  <2>2. CASE pub[p].deduplicated
    <3>1. pub[p].pc = "commit" /\ topic' = pub[p].working
      BY <1>6 DEF CommitUpdate
    <3>2. pub[p].base \in TopicOf(case)
      BY <1>1, <3>1, PubFields DEF Typed
    <3>3. Recorded(pub[p].base, accepted, clock, created) /\ pub[p].working = pub[p].base
      BY <1>1, <2>2, <3>1 DEF Copies, Decided
    <3>4. QED
      BY <1>2, <3>1, <3>2, <3>3
  <2>3. QED
    BY <2>1, <2>2
<1>7. ASSUME NEW p \in Publisher, pub[p].pc = "install", topic' = pub[p].working
      PROVE  Recorded(topic', accepted', clock', created')
  <2>1. pub[p].working \in TopicOf(case)
    BY <1>1, <1>7, PubFields DEF Typed
  <2>2. Recorded(pub[p].working, accepted, clock, created)
    BY <1>1, <1>7 DEF Copies
  <2>3. QED
    BY <1>2, <1>7, <2>1, <2>2
<1>8. QED
  BY <1>3, <1>4, <1>5, <1>6, <1>7, TopicMoves

\* A decision stays right while the history grows.
LEMMA DecidedLater ==
  ASSUME IInv, Next, NEW r, Decided(r, accepted)
  PROVE  Decided(r, accepted')
<1>1. /\ DOMAIN accepted \subseteq DOMAIN accepted'
      /\ \A i \in DOMAIN accepted : accepted'[i] = accepted[i]
  BY Onward
<1>2. CASE r.deduplicated
  <2>1. PICK i \in DOMAIN accepted :
          /\ accepted[i].id = r.id /\ accepted[i].seq = r.seq
          /\ accepted[i].key = DedupKey(r.base, r)
          /\ accepted[i].incarnation = r.base.incarnation
          /\ accepted[i].at <= r.at /\ r.at < accepted[i].at + Window
    BY <1>2 DEF Decided
  <2>2. r.working = r.base
    BY <1>2 DEF Decided
  <2>3. i \in DOMAIN accepted' /\ accepted'[i] = accepted[i]
    BY <1>1
  <2>4. QED
    BY <1>2, <2>1, <2>2, <2>3 DEF Decided
<1>3. CASE ~r.deduplicated
  BY <1>3 DEF Decided
<1>4. QED
  BY <1>2, <1>3

\* The decision of a callback.
LEMMA CallbackDecides ==
  ASSUME IInv, NEW p \in Publisher, RunCallback(p)
  PROVE  /\ pub'[p] \in CommitReq(case) /\ pub'[p].at = clock /\ pub'[p].base = pub[p].base
         /\ Recorded(pub'[p].base, accepted, clock, created)
         /\ Decided(pub'[p], accepted)
<1> DEFINE x == pub[p]
<1>1. Typed /\ x.pc = "callback" /\ Copies
  BY DEF IInv, RunCallback
<1>2. PICK r \in CommitReq(case) :
        /\ Goto(p, r)
        /\ r.in = x.in /\ r.dedupID = x.dedupID /\ r.base = x.base /\ r.at = clock
        /\ \/ /\ r.deduplicated
              /\ IsDuplicate(x.base, x, clock)
              /\ r.working = r.base
              /\ r.id = x.base.DedupRecords[DedupKey(x.base, x)].MessageID
              /\ r.seq = x.base.DedupRecords[DedupKey(x.base, x)].SequenceNumber
           \/ /\ ~r.deduplicated
              /\ ~IsDuplicate(x.base, x, clock)
              /\ r.id = x.id
              /\ r.working = RecordMessage(x.base, x, clock)
              /\ r.seq = SequenceNumber(r.working.GroupSequences[r.in.MessageGroupID])
  BY CallbackTyped
<1>3. pub'[p] = r
  BY <1>1, <1>2, GotoFacts DEF Typed
<1>4. Recorded(x.base, accepted, clock, created)
  BY <1>1 DEF Copies
<1>5. DedupKey(r.base, r) = DedupKey(x.base, x)
  BY <1>2 DEF DedupKey
<1> DEFINE k == DedupKey(x.base, x)
<1>6. CASE r.deduplicated
  <2>1. k \in DOMAIN x.base.DedupRecords /\ x.base.DedupRecords[k].ExpiresAt > clock
        /\ r.working = r.base
    BY <1>2, <1>6 DEF IsDuplicate
  <2>2. PICK i \in DOMAIN accepted : Names(accepted[i], x.base, k)
    BY <1>4, <2>1 DEF Recorded
  <2>3. accepted[i].at <= clock
    BY <1>1 DEF Copies
  <2>4. /\ accepted[i].id = r.id /\ accepted[i].seq = r.seq
        /\ accepted[i].key = k /\ accepted[i].incarnation = r.base.incarnation
    BY <1>2, <1>6, <2>2 DEF Names
  <2>5. clock < accepted[i].at + Window
    <3>1. accepted[i].at \in Nat /\ clock \in Nat /\ Window \in Nat
      BY <1>1, AcceptedNumbers, CaseFacts DEF Typed
    <3>2. x.base.DedupRecords[k].ExpiresAt = accepted[i].at + Window
      BY <2>2 DEF Names
    <3> HIDE DEF k, x
    <3>3. QED
      BY <2>1, <3>1, <3>2
  <2> HIDE DEF k, x
  <2>6. Decided(r, accepted)
    BY <1>2, <1>5, <1>6, <2>1, <2>3, <2>4, <2>5 DEF Decided, k
  <2>7. QED
    BY <1>2, <1>3, <1>4, <2>6 DEF x
<1>7. CASE ~r.deduplicated
  <2>1. ~IsDuplicate(r.base, r, r.at)
    BY <1>2, <1>5, <1>7 DEF IsDuplicate
  <2>2. RecordMessage(r.base, r, r.at) = RecordMessage(x.base, x, clock)
    BY <1>2, <1>5, <1>7 DEF RecordMessage
  <2>3. r.working = RecordMessage(r.base, r, r.at)
        /\ r.seq = SequenceNumber(r.working.GroupSequences[r.in.MessageGroupID])
    BY <1>2, <1>7, <2>2
  <2>4. Decided(r, accepted)
    BY <1>7, <2>1, <2>3 DEF Decided
  <2>5. QED
    BY <1>2, <1>3, <1>4, <2>4
<1>8. QED
  BY <1>6, <1>7
\* What requests carry.
LEMMA RequestCopies ==
  ASSUME IInv, Next, NEW x \in Publisher
  PROVE  /\ pub'[x].pc \in {"callback", "commit"} =>
              Recorded(pub'[x].base, accepted', clock', created')
         /\ pub'[x].pc = "commit" => pub'[x].at <= clock' /\ Decided(pub'[x], accepted')
         /\ pub'[x].pc = "install" /\ pub'[x].working # NoTopic
              => Recorded(pub'[x].working, accepted', clock', created')
<1>1. Typed /\ Copies /\ clock \in Nat /\ clock' \in Nat /\ clock <= clock'
  BY Onward DEF IInv
<1>2. CASE pub'[x] = pub[x]
  <2>1. CASE pub[x].pc \in {"callback", "commit"}
    <3>1. pub[x].base \in TopicOf(case) /\ Recorded(pub[x].base, accepted, clock, created)
      BY <1>1, <2>1, PubFields DEF Typed, Copies
    <3>2. Recorded(pub[x].base, accepted', clock', created')
      BY <3>1, RecordedLater
    <3>3. ASSUME pub[x].pc = "commit"
          PROVE  pub[x].at <= clock' /\ Decided(pub[x], accepted')
      <4>1. pub[x].at \in Nat /\ pub[x].at <= clock /\ Decided(pub[x], accepted)
        BY <1>1, <3>3, PubFields, CaseFacts DEF Typed, Copies
      <4>2. QED
        BY <1>1, <4>1, DecidedLater
    <3>4. QED
      BY <1>2, <2>1, <3>2, <3>3
  <2>2. CASE pub[x].pc = "install" /\ pub[x].working # NoTopic
    <3>1. pub[x].working \in TopicOf(case)
          /\ Recorded(pub[x].working, accepted, clock, created)
      BY <1>1, <2>2, PubFields DEF Typed, Copies
    <3>2. QED
      BY <1>2, <2>2, <3>1, RecordedLater
  <2>3. QED
    BY <1>2, <2>1, <2>2
<1>3. ASSUME topic # NoTopic
      PROVE  Recorded(topic, accepted', clock', created')
  <2>1. topic \in TopicOf(case) /\ Recorded(topic, accepted, clock, created)
    BY <1>1, <1>3 DEF Typed, Copies
  <2>2. QED
    BY <2>1, RecordedLater
<1>4. CASE RunCallback(x)
  <2>1. /\ pub'[x] \in CommitReq(case) /\ pub'[x].at = clock
        /\ Recorded(pub'[x].base, accepted, clock, created) /\ Decided(pub'[x], accepted)
    BY <1>4, CallbackDecides
  <2>2. pub'[x].pc = "commit" /\ pub'[x].base \in TopicOf(case)
    BY <2>1 DEF CommitReq
  <2>3. Recorded(pub'[x].base, accepted', clock', created') /\ Decided(pub'[x], accepted')
    BY <2>1, <2>2, RecordedLater, DecidedLater
  <2>4. QED
    BY <1>1, <2>1, <2>2, <2>3
<1>5. CASE \/ pub'[x].pc = "callback" /\ pub'[x].base = topic /\ topic # NoTopic
           \/ pub'[x].pc = "install" /\ pub'[x].working = topic
  BY <1>3, <1>5
<1>6. CASE pub'[x].pc \in {"idle", "update", "dispatch", "send"}
  BY <1>6
<1>7. QED
  BY <1>2, <1>4, <1>5, <1>6, RequestMoves DEF Carries

\* What an administrative request carries.
LEMMA AdminCopies ==
  ASSUME IInv, Next, NEW i \in DOMAIN admin', admin'[i] # NoTopic
  PROVE  Recorded(admin'[i], accepted', clock', created')
<1> USE DEF history, world
<1>1. Typed /\ Copies
  BY DEF IInv
<1>2. admin' = admin \/ admin' = <<>> \/ admin' = <<topic>>
  BY DEF Next, Publish, PublishBatch, PublishEntry, StartPublish, Step, BeginUpdate,
         RunCallback, CommitUpdate, FailUpdate, RejectMessage, BeginDispatch, CommitDispatch,
         FailDispatch, SendToQueue, Return, Tick, BeginAdmin, CreateFifoTopic,
         SetFifoAttribute, SubscribeQueue, UnsubscribeQueue, DeleteFifoTopic, Crash
<1>3. admin'[i] = topic \/ (i \in DOMAIN admin /\ admin'[i] = admin[i])
  BY <1>2
<1>4. admin'[i] \in TopicOf(case) /\ Recorded(admin'[i], accepted, clock, created)
  BY <1>1, <1>3 DEF Typed, Copies
<1>5. QED
  BY <1>4, RecordedLater

\* Every copy of the topic speaks of committed messages.
LEMMA CopiesStep ==
  ASSUME IInv, Next
  PROVE  Copies'
<1>1. Typed /\ Copies
  BY DEF IInv
<1>2. /\ clock \in Nat /\ clock' \in Nat /\ clock <= clock'
      /\ created \in Nat /\ created' \in Nat /\ created <= created'
  BY Onward
<1>3. ASSUME NEW i \in DOMAIN accepted'
      PROVE  accepted'[i].at <= clock' /\ accepted'[i].incarnation <= created'
  <2>1. CASE i \in DOMAIN accepted
    <3>1. accepted'[i] = accepted[i]
      BY <2>1, Onward
    <3>2. /\ accepted[i].at \in Nat /\ accepted[i].at <= clock
          /\ accepted[i].incarnation \in Nat /\ accepted[i].incarnation <= created
      <4>1. accepted[i].at \in 1..case.clock /\ accepted[i].incarnation \in 1..case.topics
        BY <1>1, <2>1, AcceptedFields
      <4>2. accepted[i].at <= clock /\ accepted[i].incarnation <= created
        BY <1>1, <2>1 DEF Copies
      <4>3. case.clock \in Nat /\ case.topics \in Nat
        BY <1>1, CaseFacts DEF Typed
      <4>4. QED
        BY <4>1, <4>2, <4>3
    <3>3. QED
      BY <1>2, <3>1, <3>2
  <2>2. ASSUME NEW p \in Publisher, Commits(p), i \notin DOMAIN accepted
        PROVE  accepted'[i].at <= clock' /\ accepted'[i].incarnation <= created'
    <3>1. /\ accepted'[i] = MessageOf(pub[p]) /\ clock' = clock /\ created' = created
          /\ pub[p] \in CommitReq(case)
      BY <1>1, <2>2, CommitFacts
    <3>2. accepted'[i].at = pub[p].at /\ accepted'[i].incarnation = pub[p].base.incarnation
      BY <3>1, MessageFields
    <3>3. pub[p].at <= clock /\ Recorded(pub[p].base, accepted, clock, created)
      BY <1>1, <3>1 DEF Copies, CommitReq
    <3>4. QED
      BY <3>1, <3>2, <3>3 DEF Recorded
  <2>3. ASSUME NEW p \in Publisher, Starts(p)
        PROVE  accepted' = accepted
    BY <1>1, <2>3, StartFacts DEF history
  <2>4. QED
    BY <2>1, <2>2, <2>3, Moves DEF Continues
<1>4. QED
  BY <1>3, TopicCopy, AdminCopies, RequestCopies DEF Copies

\* An answer names a committed message.
LEMMA RepliesStep ==
  ASSUME IInv, Next
  PROVE  DuplicateNamesOriginal'
<1> USE DEF history, world
<1> DEFINE Original(m, a) ==
      /\ a.id = m.id /\ a.seq = m.seq /\ a.key = m.key
      /\ a.incarnation = m.incarnation
      /\ a.at <= m.at /\ m.at < a.at + Window
<1>1. Typed /\ Copies /\ DuplicateNamesOriginal
  BY DEF IInv
<1>2. /\ DOMAIN accepted \subseteq DOMAIN accepted'
      /\ \A i \in DOMAIN accepted : accepted'[i] = accepted[i]
  BY Onward
<1>3. replies' = replies
      \/ \E p \in Publisher : /\ CommitUpdate(p) /\ pub[p].deduplicated
                              /\ replies' = replies \cup {MessageOf(pub[p])}
  BY DEF Next, Publish, PublishBatch, PublishEntry, StartPublish, Step, BeginUpdate,
         RunCallback, CommitUpdate, FailUpdate, RejectMessage, BeginDispatch, CommitDispatch,
         FailDispatch, SendToQueue, Return, Tick, BeginAdmin, CreateFifoTopic,
         SetFifoAttribute, SubscribeQueue, UnsubscribeQueue, DeleteFifoTopic, Crash
<1>4. \A m \in replies : \E i \in DOMAIN accepted : Original(m, accepted[i])
  BY <1>1 DEF DuplicateNamesOriginal
<1>5. ASSUME NEW p \in Publisher, CommitUpdate(p), pub[p].deduplicated
      PROVE  \E i \in DOMAIN accepted : Original(MessageOf(pub[p]), accepted[i])
  <2>1. Decided(pub[p], accepted)
    BY <1>1, <1>5 DEF Copies, CommitUpdate
  <2>2. PICK i \in DOMAIN accepted :
          /\ accepted[i].id = pub[p].id /\ accepted[i].seq = pub[p].seq
          /\ accepted[i].key = DedupKey(pub[p].base, pub[p])
          /\ accepted[i].incarnation = pub[p].base.incarnation
          /\ accepted[i].at <= pub[p].at /\ pub[p].at < accepted[i].at + Window
    BY <1>5, <2>1 DEF Decided
  <2>3. QED
    BY <2>2, MessageFields
<1> HIDE DEF Original
<1>6. \A m \in replies' : \E i \in DOMAIN accepted' : Original(m, accepted'[i])
  BY <1>2, <1>3, <1>4, <1>5
<1>7. QED
  BY <1>6 DEF DuplicateNamesOriginal, Original
-----------------------------------------------------------------------------
(***************************************************************************)
(* SQLite: the topic remembers the messages of its incarnation.            *)
(***************************************************************************)
\* The topic stays, with its tables; it is created; or it is deleted.
Keeps ==
  /\ UNCHANGED <<accepted, created>>
  /\ \/ topic = NoTopic /\ topic' = NoTopic
     \/ /\ topic # NoTopic /\ topic' # NoTopic
        /\ topic'.incarnation = topic.incarnation
        /\ topic'.GroupSequences = topic.GroupSequences
        /\ topic'.DedupRecords = topic.DedupRecords
        /\ \A q \in topic.subscribed \ topic'.subscribed :
             \A id \in Undispatched : <<id, q>> \in dropped'
Creates ==
  /\ topic = NoTopic /\ created' = created + 1 /\ topic'.incarnation = created'
  /\ topic' # NoTopic /\ DOMAIN topic'.GroupSequences = {}
  /\ UNCHANGED <<clock, accepted, pub, sent, lost>>
Deletes ==
  topic' = NoTopic /\ clock' = clock + 1 /\ UNCHANGED <<accepted, created, pub>>

\* On SQLite a commit is on the topic its request has read.
LEMMA SqliteMoves ==
  ASSUME IInv, Next, ~InMemory
  PROVE  /\ ~InMemory'
         /\ \/ Keeps \/ Creates \/ Deletes
            \/ \E p \in Publisher : Commits(p) /\ topic = pub[p].base /\ topic # NoTopic
<1> USE DEF history, world
<1>1. Typed /\ Typed' /\ Copies /\ case' = case /\ NoTopic \notin TopicOf(case)
  BY TypedStep, Onward, CaseFacts DEF IInv, Typed
<1>2. ~InMemory'
  BY <1>1 DEF InMemory
<1>3. CASE \E p \in Publisher : Commits(p)
  <2>1. PICK p \in Publisher : Commits(p)
    BY <1>3
  <2>2. pub[p] \in CommitReq(case) /\ MayCommit(pub[p].base)
    BY <1>1, <2>1, CommitFacts
  <2>3. topic = pub[p].base /\ topic # NoTopic
    BY <1>1, <2>2 DEF MayCommit, CommitReq
  <2>4. QED
    BY <1>2, <2>1, <2>3
<1>4. CASE ~\E p \in Publisher : Commits(p)
  <2>1. accepted' = accepted
    <3>1. ASSUME NEW p \in Publisher, Starts(p)
          PROVE  accepted' = accepted
      BY <1>1, <3>1, StartFacts
    <3>2. QED
      BY <1>4, <3>1, Moves DEF Continues
  <2>2. created' = created \/ CreateFifoTopic
    BY DEF Next, Publish, PublishBatch, PublishEntry, StartPublish, Step, BeginUpdate,
         RunCallback, CommitUpdate, FailUpdate, RejectMessage, BeginDispatch, CommitDispatch,
         FailDispatch, SendToQueue, Return, Tick, BeginAdmin, CreateFifoTopic,
         SetFifoAttribute, SubscribeQueue, UnsubscribeQueue, DeleteFifoTopic, Crash
  <2>3. CASE CreateFifoTopic
    <3>1. topic = NoTopic
      BY <1>1, <2>3, AdminFacts DEF CreateFifoTopic
    <3>2. created' = created + 1 /\ UNCHANGED <<clock, accepted, pub, sent, lost>>
      BY <2>3 DEF CreateFifoTopic
    <3>3. topic'.incarnation = created' /\ DOMAIN topic'.GroupSequences = {}
      BY <2>3 DEF CreateFifoTopic, NewTopic, EmptyMap
    <3>4. topic' \in TopicOf(case)
      <4>1. case.topics \in Nat /\ created \in 0..case.topics /\ case \in Cases
        BY <1>1, CaseFacts DEF Typed
      <4>2. created + 1 \in 1..case.topics
        BY <2>3, <4>1 DEF CreateFifoTopic
      <4>3. QED
        BY <2>3, <4>1, <4>2, NewTopicTyped DEF CreateFifoTopic
    <3>5. QED
      BY <1>1, <1>2, <3>1, <3>2, <3>3, <3>4 DEF Creates
  <2>4. CASE DeleteFifoTopic
    BY <1>2, <2>4 DEF DeleteFifoTopic, Deletes
  <2>5. CASE topic' = topic /\ created' = created
    BY <1>2, <2>1, <2>5 DEF Keeps
  <2>6. CASE SetFifoAttribute \/ \E q \in Queue : SubscribeQueue(q) \/ UnsubscribeQueue(q)
    <3>1. created' = created
      BY <2>6 DEF SetFifoAttribute, SubscribeQueue, UnsubscribeQueue
    <3>2. PICK base \in AdminBase \ {NoTopic} :
           /\ topic' \in TopicOf(case)
           /\ topic'.incarnation = base.incarnation
           /\ topic'.GroupSequences = base.GroupSequences
           /\ topic'.DedupRecords = base.DedupRecords
           /\ \A q \in base.subscribed \ topic'.subscribed :
                \A id \in Undispatched : <<id, q>> \in dropped'
      BY <1>1, <2>6, AdminTopic
    <3>3. base = topic
      BY <1>1, AdminFacts
    <3>4. QED
      BY <1>1, <1>2, <2>1, <3>1, <3>2, <3>3 DEF Keeps
  <2>7. ASSUME NEW p \in Publisher, CommitUpdate(p)
        PROVE  topic' = topic
    <3>1. pub[p].deduplicated /\ pub[p].pc = "commit" /\ MayCommit(pub[p].base)
          /\ topic' = pub[p].working
      BY <1>4, <2>7 DEF Commits, CommitUpdate
    <3>2. pub[p].working = pub[p].base /\ topic = pub[p].base
      BY <1>1, <3>1 DEF Copies, Decided, MayCommit
    <3>3. QED
      BY <3>1, <3>2
  <2>8. QED
    BY <2>2, <2>3, <2>4, <2>5, <2>6, <2>7, TopicMoves
<1>5. QED
  BY <1>3, <1>4

\* What such a commit does: the number it gives is above those of its group,
\* and its key was not used for a window.
LEMMA SqliteCommit ==
  ASSUME IInv, Next, ~InMemory, NEW p \in Publisher, Commits(p), topic = pub[p].base,
         topic # NoTopic
  PROVE  LET r == pub[p]
             g == r.in.MessageGroupID
             k == DedupKey(r.base, r)
         IN
         /\ topic' \in TopicOf(case) /\ topic' # NoTopic
         /\ topic'.incarnation = topic.incarnation /\ topic.incarnation = created
         /\ topic'.subscribed = topic.subscribed
         /\ DOMAIN topic'.DedupRecords = DOMAIN topic.DedupRecords \cup {k}
         /\ topic'.DedupRecords[k].ExpiresAt = r.at + Window
         /\ \A x \in DOMAIN topic.DedupRecords :
              x # k => topic'.DedupRecords[x] = topic.DedupRecords[x]
         /\ DOMAIN topic'.GroupSequences = DOMAIN topic.GroupSequences \cup {g}
         /\ r.seq = SequenceNumber(topic'.GroupSequences[g])
         /\ \A x \in DOMAIN topic.GroupSequences :
              x # g => topic'.GroupSequences[x] = topic.GroupSequences[x]
         /\ g \notin DOMAIN topic.GroupSequences => topic'.GroupSequences[g].Prefix = r.at
         /\ g \in DOMAIN topic.GroupSequences =>
              /\ topic'.GroupSequences[g].Prefix = topic.GroupSequences[g].Prefix
              /\ topic'.GroupSequences[g].Counter = topic.GroupSequences[g].Counter + 1
         /\ ~IsDuplicate(topic, r, r.at)
<1> DEFINE r == pub[p]
           g == r.in.MessageGroupID
           k == DedupKey(r.base, r)
           next == NextSequence(SequenceOf(r.base, g), r.at)
           rec == [MessageID |-> r.id, SequenceNumber |-> SequenceNumber(next),
                   ExpiresAt |-> r.at + Window]
<1>1. Typed /\ Copies /\ Remembered /\ case \in Cases /\ NoTopic \notin TopicOf(case)
  BY CaseFacts DEF IInv, Typed
<1>2. r \in CommitReq(case) /\ ~r.deduplicated /\ topic' = r.working
  BY <1>1, CommitFacts
<1>3. r.base \in TopicOf(case) /\ r.working \in TopicOf(case) /\ r.pc = "commit"
      /\ r.at \in 1..case.clock
  BY <1>2 DEF CommitReq
<1>4. /\ r.working = RecordMessage(r.base, r, r.at)
      /\ r.seq = SequenceNumber(r.working.GroupSequences[r.in.MessageGroupID])
      /\ ~IsDuplicate(r.base, r, r.at)
  BY <1>1, <1>2, <1>3 DEF Copies, Decided
<1>5. /\ topic'.incarnation = topic.incarnation /\ topic'.subscribed = topic.subscribed
      /\ topic'.GroupSequences = Put(topic.GroupSequences, g, next)
      /\ topic'.DedupRecords = Put(topic.DedupRecords, k, rec)
  BY <1>2, <1>3, <1>4 DEF RecordMessage, TopicOf
<1>6. topic.incarnation = created
  BY <1>1 DEF Remembered
<1>7. rec.ExpiresAt = r.at + Window
  OBVIOUS
<1>8. /\ g \notin DOMAIN topic.GroupSequences => next.Prefix = r.at
      /\ g \in DOMAIN topic.GroupSequences =>
           /\ next.Prefix = topic.GroupSequences[g].Prefix
           /\ next.Counter = topic.GroupSequences[g].Counter + 1
  BY <1>1, <1>3, NextFacts
<1> HIDE DEF rec, next, k, g
<1>9. /\ DOMAIN topic'.DedupRecords = DOMAIN topic.DedupRecords \cup {k}
      /\ topic'.DedupRecords[k] = rec
      /\ \A x \in DOMAIN topic.DedupRecords :
           x # k => topic'.DedupRecords[x] = topic.DedupRecords[x]
  BY <1>5 DEF Put
<1>10. /\ DOMAIN topic'.GroupSequences = DOMAIN topic.GroupSequences \cup {g}
       /\ topic'.GroupSequences[g] = next
       /\ \A x \in DOMAIN topic.GroupSequences :
            x # g => topic'.GroupSequences[x] = topic.GroupSequences[x]
  BY <1>5 DEF Put
<1>11. QED
  BY <1>1, <1>2, <1>3, <1>4, <1>5, <1>6, <1>7, <1>8, <1>9, <1>10 DEF g, k
\* Numbers: those of a commit.
LEMMA NumberFacts ==
  ASSUME IInv, Next, ~InMemory, NEW p \in Publisher, Commits(p), topic = pub[p].base,
         topic # NoTopic
  PROVE  LET r == pub[p]
             s == topic'.GroupSequences[r.in.MessageGroupID]
         IN
         /\ r.at \in Nat /\ r.seq \in Nat
         /\ s.Prefix \in Nat /\ s.Counter \in Nat /\ s.Counter < SequenceSpan
         /\ s.Prefix <= clock
         /\ s.Prefix * SequenceSpan <= r.seq
         /\ r.seq < (clock + 1) * SequenceSpan
<1> DEFINE r == pub[p]
           g == r.in.MessageGroupID
           s == topic'.GroupSequences[g]
<1>1. Typed /\ case \in Cases /\ clock \in Nat
  BY CaseFacts DEF IInv, Typed
<1>2. r \in CommitReq(case) /\ accepted' # <<>> /\ clock' = clock
  BY <1>1, CommitFacts
<1>3. r.at \in Nat
  BY <1>1, <1>2, CaseFacts DEF CommitReq
<1>4. /\ topic' \in TopicOf(case) /\ topic' # NoTopic /\ g \in DOMAIN topic'.GroupSequences
      /\ r.seq = SequenceNumber(s)
  BY SqliteCommit
<1>5. s.Prefix \in 1..case.clock /\ s.Counter \in 1..case.messages
  BY <1>4, TopicRows
<1>6. Recorded(topic', accepted', clock', created')
  BY <1>4, TopicCopy
<1>7. s.Prefix <= clock
  BY <1>2, <1>4, <1>6 DEF Recorded
<1> HIDE DEF s, g, r
<1>8. s.Prefix \in Nat /\ s.Counter \in Nat /\ s.Counter < SequenceSpan
  BY <1>1, <1>5, CaseFacts
<1>9. /\ r.seq \in Nat /\ s.Prefix * SequenceSpan <= r.seq
      /\ r.seq < (clock + 1) * SequenceSpan
  BY <1>1, <1>4, <1>7, <1>8, SequenceBounds, SequenceInRange
<1>10. QED
  BY <1>3, <1>7, <1>8, <1>9 DEF s, g, r

\* The number is above those of the group, and the key was not used for a window.
LEMMA CommitIsNext ==
  ASSUME IInv, Next, ~InMemory, NEW p \in Publisher, Commits(p), topic = pub[p].base,
         topic # NoTopic, NEW i \in DOMAIN accepted
  PROVE  /\ accepted[i].group = pub[p].in.MessageGroupID => accepted[i].seq < pub[p].seq
         /\ accepted[i].key = DedupKey(pub[p].base, pub[p]) /\ accepted[i].incarnation = created
              => accepted[i].at + Window <= pub[p].at
<1> DEFINE r == pub[p]
           g == r.in.MessageGroupID
           k == DedupKey(r.base, r)
           a == accepted[i]
           s == topic'.GroupSequences[g]
           o == topic.GroupSequences[g]
<1>1. Typed /\ Copies /\ Remembered /\ Older /\ case \in Cases
  BY DEF IInv, Typed
<1>2. /\ a.seq \in Nat /\ a.at \in Nat /\ a.incarnation \in Nat /\ a.incarnation <= created
      /\ created \in Nat /\ Window \in Nat /\ SequenceSpan \in Nat
  <2>1. a.seq \in Nat /\ a.at \in 1..case.clock /\ a.incarnation \in 1..case.topics
    BY <1>1, AcceptedFields
  <2>2. a.incarnation <= created
    BY <1>1 DEF Copies
  <2>3. created \in Nat /\ Window \in Nat /\ SequenceSpan \in Nat
    BY Onward, WindowAssumption
  <2>4. QED
    BY <1>1, <2>1, <2>2, <2>3, CaseFacts
<1>3. /\ r.at \in Nat /\ r.seq \in Nat /\ s.Prefix \in Nat /\ s.Counter \in Nat
      /\ s.Prefix * SequenceSpan <= r.seq /\ s.Counter < SequenceSpan
  BY NumberFacts
<1>4. /\ topic.incarnation = created /\ r.seq = SequenceNumber(s)
      /\ g \notin DOMAIN topic.GroupSequences => s.Prefix = r.at
      /\ g \in DOMAIN topic.GroupSequences => s.Prefix = o.Prefix /\ s.Counter = o.Counter + 1
      /\ ~IsDuplicate(topic, r, r.at)
  BY SqliteCommit
<1>5. a.incarnation = created => Remembers(topic, a)
  BY <1>1 DEF Remembered
<1>6. r.pc = "commit"
  BY DEF Commits, CommitUpdate
<1>7. ASSUME a.key = k, a.incarnation = created
      PROVE  a.at + Window <= r.at
  <2>1. k \in DOMAIN topic.DedupRecords /\ topic.DedupRecords[k].ExpiresAt >= a.at + Window
    BY <1>5, <1>7 DEF Remembers
  <2>2. ~(topic.DedupRecords[k].ExpiresAt > r.at)
    BY <1>4, <2>1 DEF IsDuplicate
  <2>3. topic.DedupRecords[k].ExpiresAt \in Nat
    <3>1. topic \in TopicOf(case)
      BY <1>1 DEF Typed
    <3>2. topic.DedupRecords[k].ExpiresAt \in 0..(case.clock + Window)
      BY <2>1, <3>1, TopicRows
    <3>3. QED
      BY <1>1, <3>2, CaseFacts
  <2> HIDE DEF k, r, a
  <2>4. QED
    BY <1>2, <1>3, <2>1, <2>2, <2>3
<1>8. ASSUME a.group = g, a.incarnation = created
      PROVE  a.seq < r.seq
  <2>1. g \in DOMAIN topic.GroupSequences /\ a.seq <= SequenceNumber(o)
    BY <1>5, <1>8 DEF Remembers
  <2>2. o.Prefix \in Nat /\ o.Counter \in Nat
    <3>1. topic \in TopicOf(case)
      BY <1>1 DEF Typed
    <3>2. o.Prefix \in 1..case.clock /\ o.Counter \in 1..case.messages
      BY <2>1, <3>1, TopicRows
    <3>3. QED
      BY <1>1, <3>2, CaseFacts
  <2>3. s.Prefix = o.Prefix /\ s.Counter = o.Counter + 1
    BY <1>4, <2>1
  <2> HIDE DEF s, o, g, r, a
  <2>4. o.Prefix * SequenceSpan \in Nat
    BY <1>2, <2>2
  <2>5. SequenceNumber(s) = SequenceNumber(o) + 1 /\ SequenceNumber(o) \in Nat
    BY <1>2, <2>2, <2>3, <2>4 DEF SequenceNumber
  <2>6. QED
    BY <1>2, <1>4, <2>1, <2>5
<1>9. ASSUME a.group = g, a.incarnation < created
      PROVE  a.seq < r.seq
  <2>1. a.seq < s.Prefix * SequenceSpan
    <3>1. CASE g \in DOMAIN topic.GroupSequences
      <4>1. a.seq < o.Prefix * SequenceSpan
        BY <1>1, <1>9, <3>1 DEF Older
      <4>2. QED
        BY <1>4, <3>1, <4>1
    <3>2. CASE g \notin DOMAIN topic.GroupSequences
      <4>1. a.seq < r.at * SequenceSpan
        BY <1>1, <1>4, <1>6, <1>9 DEF Older
      <4>2. QED
        BY <1>4, <3>2, <4>1
    <3>3. QED
      BY <3>1, <3>2
  <2> HIDE DEF s, g, r, a
  <2>2. s.Prefix * SequenceSpan \in Nat
    BY <1>2, <1>3
  <2>3. QED
    BY <1>2, <1>3, <2>1, <2>2
<1>10. a.incarnation = created \/ a.incarnation < created
  BY <1>2
<1>11. QED
  BY <1>7, <1>8, <1>9, <1>10

\* Two messages with one key are a window apart.
LEMMA WindowStep ==
  ASSUME IInv, Next
  PROVE  NoDuplicateInWindow'
<1>1. Typed /\ NoDuplicateInWindow /\ Remembered /\ case' = case
  BY Onward DEF IInv
<1>2. SUFFICES ASSUME ~InMemory' PROVE NoDuplicateInWindow'
  BY DEF NoDuplicateInWindow
<1>3. ~InMemory
  BY <1>1, <1>2 DEF InMemory
<1>4. CASE accepted' = accepted
  BY <1>1, <1>3, <1>4 DEF NoDuplicateInWindow
<1>5. ASSUME NEW p \in Publisher, Commits(p), topic = pub[p].base, topic # NoTopic
      PROVE  NoDuplicateInWindow'
  <2> DEFINE n == Len(accepted) + 1
             r == pub[p]
  <2>1. /\ DOMAIN accepted' = DOMAIN accepted \cup {n}
        /\ \A i \in DOMAIN accepted : accepted'[i] = accepted[i] /\ i < n
        /\ accepted'[n] = MessageOf(r)
    BY <1>1, <1>5, CommitFacts
  <2>2. /\ accepted'[n].key = DedupKey(r.base, r) /\ accepted'[n].at = r.at
        /\ accepted'[n].incarnation = created
    BY <1>1, <1>3, <1>5, <2>1, MessageFields DEF Remembered
  <2>3. n \in Nat /\ DOMAIN accepted \subseteq Nat
    BY <1>1 DEF Typed
  <2>4. r.at \in Nat /\ Window \in Nat
    BY <1>3, <1>5, NumberFacts, WindowAssumption
  <2>5. \A i \in DOMAIN accepted : accepted[i].at \in Nat
    BY <1>1, AcceptedNumbers
  <2>6. \A i \in DOMAIN accepted :
          accepted[i].key = DedupKey(r.base, r) /\ accepted[i].incarnation = created
            => accepted[i].at + Window <= r.at
    BY <1>3, <1>5, CommitIsNext
  <2> HIDE DEF n, r
  <2>7. ASSUME NEW i \in DOMAIN accepted', NEW j \in DOMAIN accepted', i < j,
               accepted'[i].key = accepted'[j].key,
               accepted'[i].incarnation = accepted'[j].incarnation
        PROVE  accepted'[j].at >= accepted'[i].at + Window
    <3>1. i \in DOMAIN accepted
      BY <2>1, <2>3, <2>7
    <3>2. CASE j \in DOMAIN accepted
      BY <1>1, <1>3, <2>1, <2>7, <3>1, <3>2 DEF NoDuplicateInWindow
    <3>3. CASE j = n
      BY <2>1, <2>2, <2>4, <2>5, <2>6, <2>7, <3>1, <3>3
    <3>4. QED
      BY <2>1, <3>2, <3>3
  <2>8. QED
    BY <2>7 DEF NoDuplicateInWindow
<1>6. QED
  BY <1>3, <1>4, <1>5, SqliteMoves DEF Keeps, Creates, Deletes

\* Numbers of a group increase.
LEMMA OrderStep ==
  ASSUME IInv, Next
  PROVE  SequenceOrder'
<1>1. Typed /\ SequenceOrder /\ case' = case
  BY Onward DEF IInv
<1>2. SUFFICES ASSUME ~InMemory' PROVE SequenceOrder'
  BY DEF SequenceOrder
<1>3. ~InMemory
  BY <1>1, <1>2 DEF InMemory
<1>4. CASE accepted' = accepted
  BY <1>1, <1>3, <1>4 DEF SequenceOrder
<1>5. ASSUME NEW p \in Publisher, Commits(p), topic = pub[p].base, topic # NoTopic
      PROVE  SequenceOrder'
  <2> DEFINE n == Len(accepted) + 1
             r == pub[p]
  <2>1. /\ DOMAIN accepted' = DOMAIN accepted \cup {n}
        /\ \A i \in DOMAIN accepted : accepted'[i] = accepted[i] /\ i < n
        /\ accepted'[n] = MessageOf(r)
    BY <1>1, <1>5, CommitFacts
  <2>2. accepted'[n].group = r.in.MessageGroupID /\ accepted'[n].seq = r.seq
    BY <2>1, MessageFields
  <2>3. n \in Nat /\ DOMAIN accepted \subseteq Nat
    BY <1>1 DEF Typed
  <2>4. \A i \in DOMAIN accepted :
          accepted[i].group = r.in.MessageGroupID => accepted[i].seq < r.seq
    BY <1>3, <1>5, CommitIsNext
  <2> HIDE DEF n, r
  <2>5. ASSUME NEW i \in DOMAIN accepted', NEW j \in DOMAIN accepted', i < j,
               accepted'[i].group = accepted'[j].group
        PROVE  accepted'[i].seq < accepted'[j].seq
    <3>1. i \in DOMAIN accepted
      BY <2>1, <2>3, <2>5
    <3>2. CASE j \in DOMAIN accepted
      BY <1>1, <1>3, <2>1, <2>5, <3>1, <3>2 DEF SequenceOrder
    <3>3. CASE j = n
      BY <2>1, <2>2, <2>4, <2>5, <3>1, <3>3
    <3>4. QED
      BY <2>1, <3>2, <3>3
  <2>6. QED
    BY <2>5 DEF SequenceOrder
<1>6. QED
  BY <1>3, <1>4, <1>5, SqliteMoves DEF Keeps, Creates, Deletes
\* The topic remembers its messages.
LEMMA RememberedStep ==
  ASSUME IInv, Next
  PROVE  Remembered'
<1>1. Typed /\ Copies /\ Remembered /\ case' = case
  BY Onward DEF IInv
<1>2. SUFFICES ASSUME ~InMemory', topic' # NoTopic
               PROVE  /\ topic'.incarnation = created'
                      /\ \A i \in DOMAIN accepted' :
                           accepted'[i].incarnation = created' => Remembers(topic', accepted'[i])
  BY DEF Remembered
<1>3. ~InMemory
  BY <1>1, <1>2 DEF InMemory
<1>4. CASE Keeps
  <2>1. /\ topic # NoTopic /\ accepted' = accepted /\ created' = created
        /\ topic'.incarnation = topic.incarnation
        /\ topic'.GroupSequences = topic.GroupSequences
        /\ topic'.DedupRecords = topic.DedupRecords
    BY <1>2, <1>4 DEF Keeps
  <2>2. /\ topic.incarnation = created
        /\ \A i \in DOMAIN accepted :
             accepted[i].incarnation = created => Remembers(topic, accepted[i])
    BY <1>1, <1>3, <2>1 DEF Remembered
  <2>3. \A m : Remembers(topic, m) => Remembers(topic', m)
    BY <2>1 DEF Remembers
  <2>4. QED
    BY <2>1, <2>2, <2>3
<1>5. CASE Creates
  <2>1. created \in Nat /\ created' = created + 1 /\ accepted' = accepted
        /\ topic'.incarnation = created'
    BY <1>5, Onward DEF Creates
  <2>2. \A i \in DOMAIN accepted : accepted[i].incarnation <= created
    BY <1>1 DEF Copies
  <2>3. \A i \in DOMAIN accepted : accepted[i].incarnation # created'
    BY <2>1, <2>2
  <2>4. QED
    BY <2>1, <2>3
<1>6. ASSUME NEW p \in Publisher, Commits(p), topic = pub[p].base, topic # NoTopic
      PROVE  /\ topic'.incarnation = created'
             /\ \A i \in DOMAIN accepted' :
                  accepted'[i].incarnation = created' => Remembers(topic', accepted'[i])
  <2> DEFINE n == Len(accepted) + 1
             r == pub[p]
             g == r.in.MessageGroupID
             k == DedupKey(r.base, r)
  <2>1. /\ DOMAIN accepted' = DOMAIN accepted \cup {n} /\ created' = created
        /\ \A i \in DOMAIN accepted : accepted'[i] = accepted[i]
        /\ accepted'[n] = MessageOf(r)
    BY <1>1, <1>6, CommitFacts
  <2>2. /\ accepted'[n].key = k /\ accepted'[n].at = r.at /\ accepted'[n].group = g
        /\ accepted'[n].seq = r.seq
    BY <1>6, <2>1, MessageFields
  <2>3. /\ topic'.incarnation = topic.incarnation /\ topic.incarnation = created
        /\ topic'.subscribed = topic.subscribed
        /\ DOMAIN topic'.DedupRecords = DOMAIN topic.DedupRecords \cup {k}
        /\ topic'.DedupRecords[k].ExpiresAt = r.at + Window
        /\ \A x \in DOMAIN topic.DedupRecords :
             x # k => topic'.DedupRecords[x] = topic.DedupRecords[x]
        /\ DOMAIN topic'.GroupSequences = DOMAIN topic.GroupSequences \cup {g}
        /\ r.seq = SequenceNumber(topic'.GroupSequences[g])
        /\ \A x \in DOMAIN topic.GroupSequences :
             x # g => topic'.GroupSequences[x] = topic.GroupSequences[x]
    BY <1>3, <1>6, SqliteCommit
  <2>4. r.at \in Nat /\ r.seq \in Nat /\ Window \in Nat
    BY <1>3, <1>6, NumberFacts, WindowAssumption
  <2>5. ASSUME NEW i \in DOMAIN accepted, accepted[i].incarnation = created
        PROVE  Remembers(topic', accepted[i])
    <3> DEFINE a == accepted[i]
    <3>1. a.at \in Nat /\ a.seq \in Nat
      BY <1>1, AcceptedNumbers
    <3>2. /\ a.group = g => a.seq < r.seq
          /\ a.key = k => a.at + Window <= r.at
      BY <1>3, <1>6, <2>5, CommitIsNext
    <3>3. Remembers(topic, a)
      BY <1>1, <1>3, <1>6, <2>5 DEF Remembered
    <3> HIDE DEF a, k, g, r
    <3>4. a.key \in DOMAIN topic'.DedupRecords
          /\ topic'.DedupRecords[a.key].ExpiresAt >= a.at + Window
      <4>1. CASE a.key = k
        BY <2>3, <2>4, <3>1, <3>2, <4>1
      <4>2. CASE a.key # k
        BY <2>3, <3>3, <4>2 DEF Remembers
      <4>3. QED
        BY <4>1, <4>2
    <3>5. a.group \in DOMAIN topic'.GroupSequences
          /\ a.seq <= SequenceNumber(topic'.GroupSequences[a.group])
      <4>1. CASE a.group = g
        BY <2>3, <2>4, <3>1, <3>2, <4>1
      <4>2. CASE a.group # g
        BY <2>3, <3>3, <4>2 DEF Remembers
      <4>3. QED
        BY <4>1, <4>2
    <3>6. QED
      BY <3>4, <3>5 DEF Remembers, a
  <2> HIDE DEF n, r, g, k
  <2>6. Remembers(topic', accepted'[n])
    BY <2>2, <2>3, <2>4 DEF Remembers
  <2>7. QED
    BY <2>1, <2>3, <2>5, <2>6
<1>7. QED
  BY <1>2, <1>3, <1>4, <1>5, <1>6, SqliteMoves DEF Deletes

\* Earlier incarnations are below the numbers to come: the messages.
LEMMA OlderMessages ==
  ASSUME IInv, Next, ~InMemory, NEW i \in DOMAIN accepted'
  PROVE  /\ accepted'[i].seq < (clock' + 1) * SequenceSpan
         /\ accepted'[i].incarnation < created' \/ topic' = NoTopic
              => accepted'[i].seq < clock' * SequenceSpan
<1>1. Typed /\ Older /\ Copies
  BY DEF IInv
<1>2. /\ clock \in Nat /\ clock' \in Nat /\ clock <= clock' /\ SequenceSpan \in Nat
      /\ created \in Nat
  BY Onward, WindowAssumption
<1>3. clock * SequenceSpan <= clock' * SequenceSpan
      /\ (clock + 1) * SequenceSpan <= (clock' + 1) * SequenceSpan
  BY <1>2, SpanMonotone
<1>4. clock * SequenceSpan \in Nat /\ clock' * SequenceSpan \in Nat
      /\ (clock + 1) * SequenceSpan \in Nat /\ (clock' + 1) * SequenceSpan \in Nat
  BY <1>2, SpanMonotone
<1>5. ASSUME i \in DOMAIN accepted, accepted'[i] = accepted[i]
      PROVE  /\ accepted'[i].seq < (clock' + 1) * SequenceSpan
             /\ accepted[i].incarnation < created \/ topic = NoTopic
                  => accepted'[i].seq < clock' * SequenceSpan
  <2>1. accepted[i].seq \in Nat
    BY <1>1, <1>5, AcceptedFields
  <2>2. /\ accepted[i].seq < (clock + 1) * SequenceSpan
        /\ accepted[i].incarnation < created \/ topic = NoTopic
             => accepted[i].seq < clock * SequenceSpan
    BY <1>1, <1>5 DEF Older
  <2>3. QED
    BY <1>3, <1>4, <1>5, <2>1, <2>2
<1>6. CASE Keeps
  <2>1. accepted' = accepted /\ created' = created /\ (topic' = NoTopic => topic = NoTopic)
    BY <1>6 DEF Keeps
  <2>2. QED
    BY <1>5, <2>1
<1>7. CASE Creates
  BY <1>5, <1>7 DEF Creates
<1>8. CASE Deletes
  <2>1. accepted' = accepted /\ clock' = clock + 1
    BY <1>8 DEF Deletes
  <2>2. accepted[i].seq < (clock + 1) * SequenceSpan
    BY <1>1, <2>1 DEF Older
  <2>3. QED
    BY <1>5, <2>1, <2>2
<1>9. ASSUME NEW p \in Publisher, Commits(p), topic = pub[p].base, topic # NoTopic
      PROVE  /\ accepted'[i].seq < (clock' + 1) * SequenceSpan
             /\ accepted'[i].incarnation < created' \/ topic' = NoTopic
                  => accepted'[i].seq < clock' * SequenceSpan
  <2>1. topic' # NoTopic /\ topic.incarnation = created
    BY <1>9, SqliteCommit
  <2>2. /\ created' = created /\ clock' = clock
        /\ i \in DOMAIN accepted => accepted'[i] = accepted[i]
        /\ i \notin DOMAIN accepted => accepted'[i] = MessageOf(pub[p])
    BY <1>1, <1>9, CommitFacts
  <2>3. CASE i \in DOMAIN accepted
    BY <1>5, <2>1, <2>2, <2>3
  <2>4. CASE i \notin DOMAIN accepted
    <3>1. accepted'[i].seq = pub[p].seq /\ accepted'[i].incarnation = created
      BY <1>9, <2>1, <2>2, <2>4, MessageFields
    <3>2. pub[p].seq < (clock + 1) * SequenceSpan
      BY <1>9, NumberFacts
    <3>3. QED
      BY <1>2, <2>1, <2>2, <3>1, <3>2
  <2>5. QED
    BY <2>3, <2>4
<1>10. QED
  BY <1>6, <1>7, <1>8, <1>9, SqliteMoves

\* The numbers of the topic.
LEMMA OlderGroups ==
  ASSUME IInv, Next, ~InMemory, topic' # NoTopic, NEW i \in DOMAIN accepted',
         NEW g \in DOMAIN topic'.GroupSequences, accepted'[i].incarnation < created',
         accepted'[i].group = g
  PROVE  accepted'[i].seq < topic'.GroupSequences[g].Prefix * SequenceSpan
<1>1. Typed /\ Older /\ Copies /\ created \in Nat
  BY Onward DEF IInv
<1>2. CASE Keeps
  <2>1. /\ accepted' = accepted /\ created' = created /\ topic # NoTopic
        /\ topic'.GroupSequences = topic.GroupSequences
    BY <1>2 DEF Keeps
  <2>2. QED
    BY <1>1, <2>1 DEF Older
<1>3. CASE Creates \/ Deletes
  BY <1>3 DEF Creates, Deletes
<1>4. ASSUME NEW p \in Publisher, Commits(p), topic = pub[p].base, topic # NoTopic
      PROVE  accepted'[i].seq < topic'.GroupSequences[g].Prefix * SequenceSpan
  <2> DEFINE r == pub[p]
             h == r.in.MessageGroupID
  <2>1. /\ topic.incarnation = created
        /\ DOMAIN topic'.GroupSequences = DOMAIN topic.GroupSequences \cup {h}
        /\ \A x \in DOMAIN topic.GroupSequences :
             x # h => topic'.GroupSequences[x] = topic.GroupSequences[x]
        /\ h \notin DOMAIN topic.GroupSequences => topic'.GroupSequences[h].Prefix = r.at
        /\ h \in DOMAIN topic.GroupSequences =>
             topic'.GroupSequences[h].Prefix = topic.GroupSequences[h].Prefix
    BY <1>4, SqliteCommit
  <2>2. /\ created' = created /\ r.pc = "commit"
        /\ i \in DOMAIN accepted => accepted'[i] = accepted[i]
        /\ i \notin DOMAIN accepted => accepted'[i] = MessageOf(r)
    BY <1>1, <1>4, CommitFacts DEF CommitReq
  <2>3. i \in DOMAIN accepted
    <3>1. MessageOf(r).incarnation = created
      BY <1>4, <2>1, MessageFields
    <3>2. QED
      BY <1>1, <2>2, <3>1
  <2>4. /\ \A x \in DOMAIN topic.GroupSequences : accepted[i].group = x =>
             accepted[i].seq < topic.GroupSequences[x].Prefix * SequenceSpan
        /\ accepted[i].seq < r.at * SequenceSpan
    BY <1>1, <1>4, <2>1, <2>2, <2>3 DEF Older
  <2> HIDE DEF r, h
  <2>5. CASE g \in DOMAIN topic.GroupSequences
    BY <2>1, <2>2, <2>3, <2>4, <2>5
  <2>6. CASE g \notin DOMAIN topic.GroupSequences
    BY <2>1, <2>2, <2>3, <2>4, <2>6
  <2>7. QED
    BY <2>5, <2>6
<1>5. QED
  BY <1>2, <1>3, <1>4, SqliteMoves

\* The numbers that requests are about to give.
LEMMA OlderRequests ==
  ASSUME IInv, Next, ~InMemory, NEW x \in Publisher, pub'[x].pc = "commit",
         NEW i \in DOMAIN accepted', accepted'[i].incarnation < pub'[x].base.incarnation
  PROVE  accepted'[i].seq < pub'[x].at * SequenceSpan
<1>1. Typed /\ Older /\ Copies /\ created \in Nat
  BY Onward DEF IInv
<1>2. CASE RunCallback(x)
  <2>1. /\ pub'[x] \in CommitReq(case) /\ pub'[x].at = clock /\ accepted' = accepted
        /\ Recorded(pub'[x].base, accepted, clock, created)
    BY <1>2, CallbackDecides DEF RunCallback, history
  <2>2. pub'[x].base.incarnation <= created
    BY <2>1 DEF Recorded
  <2>3. accepted[i].incarnation \in Nat /\ pub'[x].base.incarnation \in Nat
    <3>1. accepted[i].incarnation \in 1..case.topics /\ case \in Cases
      BY <1>1, <2>1, AcceptedFields DEF Typed
    <3>2. pub'[x].base \in TopicOf(case)
      BY <2>1 DEF CommitReq
    <3>3. pub'[x].base.incarnation \in 1..case.topics
      BY <3>2, TopicFields
    <3>4. QED
      BY <3>1, <3>3, CaseFacts
  <2>4. accepted[i].incarnation < created
    BY <1>1, <2>1, <2>2, <2>3
  <2>5. QED
    BY <1>1, <2>1, <2>4 DEF Older
<1>3. CASE pub'[x] = pub[x]
  <2>1. CASE i \in DOMAIN accepted
    <3>1. accepted'[i] = accepted[i]
      BY <2>1, Onward
    <3>2. QED
      BY <1>1, <1>3, <2>1, <3>1 DEF Older
  <2>2. ASSUME NEW p \in Publisher, Commits(p), topic = pub[p].base, topic # NoTopic,
               i \notin DOMAIN accepted
        PROVE  FALSE
    <3>1. accepted'[i].incarnation = created
      BY <1>1, <2>2, SqliteCommit, CommitFacts, MessageFields
    <3>2. Recorded(pub[x].base, accepted, clock, created) /\ pub[x].base \in TopicOf(case)
      BY <1>1, <1>3, PubFields DEF Copies, Typed
    <3>3. pub[x].base.incarnation <= created /\ pub[x].base.incarnation \in Nat
      BY <1>1, <3>2, TopicFields, CaseFacts DEF Recorded, Typed
    <3>4. QED
      BY <1>1, <1>3, <3>1, <3>3
  <2>3. QED
    BY <2>1, <2>2, SqliteMoves DEF Keeps, Creates, Deletes
<1>4. QED
  BY <1>2, <1>3, RequestMoves DEF Carries

\* Together.
LEMMA OlderStep ==
  ASSUME IInv, Next
  PROVE  Older'
<1>1. case' = case
  BY Onward
<1>2. SUFFICES ASSUME ~InMemory' PROVE Older'
  BY DEF Older
<1>3. ~InMemory
  BY <1>1, <1>2 DEF InMemory
<1>4. QED
  BY <1>3, OlderMessages, OlderGroups, OlderRequests DEF Older
-----------------------------------------------------------------------------
(***************************************************************************)
(* SQLite: a message that is accepted is sent.                             *)
(***************************************************************************)
\* A request is moved by its own step, or ended by a crash.
LEMMA Actor ==
  ASSUME IInv, Next, NEW x \in Publisher, pub'[x] # pub[x]
  PROVE  Step(x) \/ Starts(x) \/ Crash
<1> USE DEF history, world
<1>1. Typed
  BY DEF IInv
<1>2. ASSUME NEW p \in Publisher, NEW r, Goto(p, r)
      PROVE  x = p
  BY <1>1, <1>2, GotoFacts DEF Typed
<1>3. ASSUME NEW p \in Publisher, Step(p)
      PROVE  x = p
  <2>1. \E r : Goto(p, r)
    BY <1>3 DEF Step, BeginUpdate, RunCallback, CommitUpdate, FailUpdate, RejectMessage,
                BeginDispatch, CommitDispatch, FailDispatch, SendToQueue, Return
  <2>2. QED
    BY <1>2, <2>1
<1>4. ASSUME NEW p \in Publisher,
             \/ \E in \in case.inputs : Publish(p, in)
             \/ \E b \in case.batches : PublishBatch(p, b)
             \/ PublishEntry(p)
      PROVE  Starts(p) /\ x = p
  <2>1. pub' # pub
    OBVIOUS
  <2>2. Starts(p)
    <3>1. CASE PublishEntry(p)
      <4>1. batch[p] \in Seq(case.inputs) /\ batch[p] # <<>> /\ pub[p].pc = "idle"
        BY <1>1, <3>1 DEF PublishEntry, Typed
      <4>2. Head(batch[p]) \in case.inputs
        BY <4>1, HeadTail
      <4>3. QED
        BY <2>1, <3>1, <4>1, <4>2 DEF PublishEntry, Starts
    <3>2. QED
      BY <1>4, <2>1, <3>1 DEF Publish, PublishBatch, Starts
  <2>3. QED
    BY <1>1, <2>2, StartFacts
<1>5. ASSUME Environment
      PROVE  Crash
  BY <1>5 DEF Environment, Tick, BeginAdmin, CreateFifoTopic, SetFifoAttribute,
              SubscribeQueue, UnsubscribeQueue, DeleteFifoTopic
<1>6. QED
  BY <1>3, <1>4, <1>5 DEF Next, Environment

\* What is lost stays lost, what is in a queue stays there.
LEMMA HistoryGrows ==
  ASSUME IInv, Next
  PROVE  /\ lost \subseteq lost' /\ dropped \subseteq dropped'
         /\ \A q \in Queue : Range(sent[q]) \subseteq Range(sent'[q])
<1> USE DEF history, world
<1>1. lost \subseteq lost' /\ dropped \subseteq dropped'
  BY DEF Next, Publish, PublishBatch, PublishEntry, StartPublish, Step, BeginUpdate,
         RunCallback, CommitUpdate, FailUpdate, RejectMessage, BeginDispatch, CommitDispatch,
         FailDispatch, SendToQueue, Return, Tick, BeginAdmin, CreateFifoTopic,
         SetFifoAttribute, SubscribeQueue, UnsubscribeQueue, DeleteFifoTopic, Crash
<1>2. ASSUME NEW p \in Publisher, NEW q \in Queue, Sends(p, q)
      PROVE  \A y \in Queue : Range(sent[y]) \subseteq Range(sent'[y])
  <2>1. \A y \in Queue : y # q => sent'[y] = sent[y]
    BY <1>2, SendFacts
  <2>2. DOMAIN sent[q] \subseteq DOMAIN sent'[q]
        /\ \A i \in DOMAIN sent[q] : sent'[q][i] = sent[q][i]
    BY <1>2, SendFacts
  <2>3. Range(sent[q]) \subseteq Range(sent'[q])
    BY <2>2 DEF Range
  <2>4. QED
    BY <2>1, <2>3
<1>3. QED
  BY <1>1, <1>2, QueueMoves

\* A message whose request ends was lost, or was offered to every target.
LEMMA Landing ==
  ASSUME IInv, Next, NEW x \in Publisher, Flying(pub[x]), ~Flying(pub'[x])
  PROVE  pub[x].id \in lost' \/ (pub[x].pc = "send" /\ pub[x].targets = {})
<1> USE DEF history, world
<1>1. Typed /\ pub'[x] # pub[x]
  BY DEF IInv
<1>2. ASSUME NEW r, Goto(x, r)
      PROVE  pub'[x] = r
  BY <1>1, <1>2, GotoFacts DEF Typed
<1>3. CASE Crash
  BY <1>3 DEF Crash, InFlight, Flying
<1>4. CASE Starts(x)
  BY <1>4 DEF Starts, Flying
<1>5. CASE Step(x)
  <2>1. CASE BeginUpdate(x) \/ RunCallback(x) \/ CommitUpdate(x) \/ FailUpdate(x)
    BY <2>1 DEF BeginUpdate, RunCallback, CommitUpdate, FailUpdate, Flying
  <2>2. CASE RejectMessage(x) \/ FailDispatch(x)
    BY <2>2 DEF RejectMessage, FailDispatch
  <2>3. CASE BeginDispatch(x) \/ CommitDispatch(x)
    <3>1. \E r : Goto(x, r) /\ Flying(r)
      BY <2>3 DEF BeginDispatch, CommitDispatch, Flying
    <3>2. QED
      BY <1>2, <3>1
  <2>4. CASE \E q \in Queue : SendToQueue(x, q)
    <3>1. PICK q \in Queue : SendToQueue(x, q)
      BY <2>4
    <3>2. pub[x] \in SendReq(case)
      BY <1>1, <3>1, PubFacts DEF SendToQueue, Typed
    <3>3. Goto(x, [pub[x] EXCEPT !.targets = @ \ {q}])
          /\ Flying([pub[x] EXCEPT !.targets = @ \ {q}])
      BY <3>1, <3>2 DEF SendToQueue, SendReq, Flying
    <3>4. QED
      BY <1>2, <3>3
  <2>5. CASE Return(x)
    BY <2>5 DEF Return
  <2>6. QED
    BY <1>5, <2>1, <2>2, <2>3, <2>4, <2>5 DEF Step
<1>6. QED
  BY <1>1, <1>3, <1>4, <1>5, Actor

\* A target that a request no longer has was tried.
LEMMA Tried ==
  ASSUME IInv, Next, NEW x \in Publisher, pub'[x].pc = "send", pub'[x] # pub[x]
  PROVE  \/ /\ pub[x].pc = "install" /\ pub'[x].id = pub[x].id
            /\ pub[x].working # NoTopic => pub'[x].targets = pub[x].working.subscribed
         \/ /\ pub[x].pc = "send" /\ pub'[x].id = pub[x].id
            /\ \A q \in pub[x].targets \ pub'[x].targets :
                 q \in Queue /\ (pub[x].id \in lost' \/ pub[x].id \in Range(sent'[q]))
<1> USE DEF history, world
<1>1. Typed
  BY DEF IInv
<1>2. ASSUME NEW r, Goto(x, r)
      PROVE  pub'[x] = r
  BY <1>1, <1>2, GotoFacts DEF Typed
<1>3. ASSUME Crash
      PROVE  FALSE
  BY <1>3 DEF Crash, Idle
<1>4. ASSUME Starts(x)
      PROVE  FALSE
  BY <1>1, <1>4, StartFacts
<1>5. ASSUME \/ BeginUpdate(x) \/ RunCallback(x) \/ CommitUpdate(x) \/ FailUpdate(x)
             \/ RejectMessage(x) \/ BeginDispatch(x) \/ FailDispatch(x) \/ Return(x)
      PROVE  FALSE
  <2>1. \E r : Goto(x, r) /\ r.pc # "send"
    BY <1>5 DEF BeginUpdate, RunCallback, CommitUpdate, FailUpdate, RejectMessage,
                BeginDispatch, FailDispatch, Return, Idle, Dispatching
  <2>2. QED
    BY <1>2, <2>1
<1>6. CASE CommitDispatch(x)
  <2>1. pub[x].pc = "install"
    BY <1>6 DEF CommitDispatch
  <2>2. \E r : /\ Goto(x, r) /\ r.id = pub[x].id
               /\ pub[x].working # NoTopic => r.targets = pub[x].working.subscribed
    BY <1>6 DEF CommitDispatch
  <2>3. QED
    BY <1>2, <2>1, <2>2
<1>7. ASSUME NEW q \in Queue, SendToQueue(x, q)
      PROVE  /\ pub[x].pc = "send" /\ pub'[x].id = pub[x].id
             /\ \A y \in pub[x].targets \ pub'[x].targets :
                  y \in Queue /\ (pub[x].id \in lost' \/ pub[x].id \in Range(sent'[y]))
  <2>1. pub[x] \in SendReq(case) /\ pub[x].pc = "send"
    BY <1>1, <1>7, PubFacts DEF SendToQueue, Typed
  <2> DEFINE r == [pub[x] EXCEPT !.targets = @ \ {q}]
  <2>2. r.id = pub[x].id /\ r.targets = pub[x].targets \ {q}
    BY <2>1 DEF SendReq
  <2>3. Goto(x, r)
    BY <1>7 DEF SendToQueue
  <2> HIDE DEF r
  <2>4. pub'[x] = r
    BY <1>2, <2>3
  <2>5. pub[x].id \in lost' \/ Sends(x, q)
    BY <1>7 DEF SendToQueue, Sends
  <2>6. ASSUME Sends(x, q)
        PROVE  pub[x].id \in Range(sent'[q])
    BY <2>6, SendFacts DEF Range
  <2>7. QED
    BY <2>1, <2>2, <2>4, <2>5, <2>6
<1>8. QED
  BY <1>3, <1>4, <1>5, <1>6, <1>7, Actor DEF Step
\* A request that comes to the dispatch has committed its message.
LEMMA Departs ==
  ASSUME IInv, Next, NEW x \in Publisher, pub'[x].pc = "dispatch", pub'[x] # pub[x]
  PROVE  Commits(x)
<1> USE DEF history, world
<1>1. Typed
  BY DEF IInv
<1>2. ASSUME NEW r, Goto(x, r)
      PROVE  pub'[x] = r
  BY <1>1, <1>2, GotoFacts DEF Typed
<1>3. ASSUME Crash
      PROVE  FALSE
  BY <1>3 DEF Crash, Idle
<1>4. ASSUME Starts(x)
      PROVE  FALSE
  BY <1>1, <1>4, StartFacts
<1>5. ASSUME \/ BeginUpdate(x) \/ RunCallback(x) \/ FailUpdate(x) \/ RejectMessage(x)
             \/ BeginDispatch(x) \/ CommitDispatch(x) \/ FailDispatch(x) \/ Return(x)
             \/ CommitUpdate(x) /\ pub[x].deduplicated
      PROVE  FALSE
  <2>1. \E r : Goto(x, r) /\ r.pc # "dispatch"
    BY <1>5 DEF BeginUpdate, RunCallback, CommitUpdate, FailUpdate, RejectMessage,
                BeginDispatch, CommitDispatch, FailDispatch, Return, Idle
  <2>2. QED
    BY <1>2, <2>1
<1>6. ASSUME NEW q \in Queue, SendToQueue(x, q)
      PROVE  FALSE
  <2>1. pub[x] \in SendReq(case)
    BY <1>1, <1>6, PubFacts DEF SendToQueue, Typed
  <2>2. Goto(x, [pub[x] EXCEPT !.targets = @ \ {q}])
        /\ [pub[x] EXCEPT !.targets = @ \ {q}].pc = "send"
    BY <1>6, <2>1 DEF SendToQueue, SendReq
  <2>3. QED
    BY <1>2, <2>2
<1>7. QED
  BY <1>3, <1>4, <1>5, <1>6, Actor DEF Step, Commits

\* Requests reach the queues that were subscribed when they committed.
LEMMA DispatchedStep ==
  ASSUME IInv, Next
  PROVE  Dispatched'
<1>1. Typed /\ Identifiers /\ Copies /\ Remembered /\ Dispatched /\ case' = case
      /\ created \in Nat
  BY Onward DEF IInv
<1>2. SUFFICES ASSUME ~InMemory', topic' # NoTopic,
                      NEW x \in Publisher, NEW i \in DOMAIN accepted', Flying(pub'[x]),
                      accepted'[i].incarnation = created', accepted'[i].id = pub'[x].id,
                      NEW q \in accepted'[i].subscribed
               PROVE  Reaches(x, q)'
  BY DEF Dispatched, Flying
<1>3. ~InMemory
  BY <1>1, <1>2 DEF InMemory
<1>4. \/ topic # NoTopic /\ Keeps
      \/ \E p \in Publisher : Commits(p) /\ topic = pub[p].base /\ topic # NoTopic
  <2>1. ASSUME Creates
        PROVE  FALSE
    <3>1. created' = created + 1 /\ accepted' = accepted
      BY <2>1 DEF Creates
    <3>2. accepted[i].incarnation <= created
      BY <1>1, <1>2, <3>1 DEF Copies
    <3>3. QED
      BY <1>1, <1>2, <3>1, <3>2
  <2>2. ASSUME Deletes
        PROVE  FALSE
    BY <1>2, <2>2 DEF Deletes
  <2>3. Keeps => topic # NoTopic
    BY <1>2 DEF Keeps
  <2>4. QED
    BY <1>3, <2>1, <2>2, <2>3, SqliteMoves
<1>5. CASE Commits(x)
  <2>1. topic = pub[x].base /\ topic # NoTopic
    <3>1. pub[x] \in CommitReq(case) /\ MayCommit(pub[x].base)
      BY <1>1, <1>5, CommitFacts
    <3>2. NoTopic \notin TopicOf(case)
      BY <1>1, CaseFacts DEF Typed
    <3>3. QED
      BY <1>3, <3>1, <3>2 DEF MayCommit, CommitReq
  <2>2. /\ Fresh(pub[x]) /\ pub'[x] = Dispatching(pub[x])
        /\ i \in DOMAIN accepted => accepted'[i] = accepted[i]
        /\ i \notin DOMAIN accepted => accepted'[i] = MessageOf(pub[x])
    BY <1>1, <1>5, CommitFacts
  <2>3. pub'[x].id = pub[x].id /\ pub'[x].pc = "dispatch"
    BY <2>2 DEF Dispatching
  <2>4. i \notin DOMAIN accepted
    BY <1>1, <1>2, <2>2, <2>3 DEF Identifiers, IdsOf
  <2>5. q \in topic.subscribed
    BY <1>2, <2>1, <2>2, <2>4, MessageFields
  <2>6. topic'.subscribed = topic.subscribed
    BY <1>3, <1>5, <2>1, SqliteCommit
  <2>7. QED
    BY <2>3, <2>5, <2>6 DEF Reaches
<1>6. CASE ~Commits(x)
  <2>1. topic # NoTopic /\ created' = created /\ i \in DOMAIN accepted
        /\ accepted'[i] = accepted[i]
    <3>1. CASE Keeps
      BY <1>2, <3>1 DEF Keeps
    <3>2. ASSUME NEW p \in Publisher, Commits(p), topic # NoTopic
          PROVE  created' = created /\ i \in DOMAIN accepted /\ accepted'[i] = accepted[i]
      <4>1. /\ created' = created /\ Fresh(pub[p])
            /\ \A y \in Publisher : y # p => pub'[y] = pub[y]
            /\ i \in DOMAIN accepted => accepted'[i] = accepted[i]
            /\ i \notin DOMAIN accepted => accepted'[i] = MessageOf(pub[p])
        BY <1>1, <3>2, CommitFacts
      <4>2. x # p /\ Flying(pub[x]) /\ pub'[x] = pub[x]
        BY <1>2, <1>6, <3>2, <4>1
      <4>3. pub[x].id # pub[p].id
        BY <1>1, <4>1, <4>2 DEF Identifiers
      <4>4. i \in DOMAIN accepted
        BY <1>2, <4>1, <4>2, <4>3, MessageFields
      <4>5. QED
        BY <4>1, <4>4
    <3>3. QED
      BY <1>4, <3>1, <3>2
  <2>2. q \in topic.subscribed /\ q \notin topic'.subscribed
          => \A id \in Undispatched : <<id, q>> \in dropped'
    <3>1. CASE Keeps
      BY <2>1, <3>1 DEF Keeps
    <3>2. ASSUME NEW p \in Publisher, Commits(p), topic = pub[p].base, topic # NoTopic
          PROVE  topic'.subscribed = topic.subscribed
      BY <1>3, <3>2, SqliteCommit
    <3>3. QED
      BY <1>4, <3>1, <3>2
  <2>3. q \in Queue
    BY <1>1, <1>2, <2>1, AcceptedFields
  <2>4. /\ lost \subseteq lost' /\ dropped \subseteq dropped'
        /\ Range(sent[q]) \subseteq Range(sent'[q])
    BY <2>3, HistoryGrows
  <2>5. Flying(pub[x]) /\ accepted[i].id = pub[x].id => Reaches(x, q)
    BY <1>1, <1>2, <1>3, <2>1 DEF Dispatched
  <2>6. CASE pub'[x] = pub[x]
    <3>1. Reaches(x, q)
      BY <1>2, <2>1, <2>5, <2>6
    <3>2. pub[x].pc = "dispatch" => pub[x].id \in Undispatched
      BY DEF Undispatched
    <3>3. QED
      BY <2>2, <2>4, <2>6, <3>1, <3>2 DEF Reaches
  <2>7. ASSUME pub'[x] # pub[x], pub'[x].pc = "dispatch"
        PROVE  FALSE
    BY <1>6, <2>7, Departs
  <2>8. CASE pub'[x] # pub[x] /\ pub'[x].pc = "install"
    <3>1. pub'[x].working = topic /\ BeginDispatch(x)
      <4>1. RunCallback(x) => pub'[x].pc = "commit"
        BY CallbackDecides DEF CommitReq
      <4>2. QED
        BY <2>8, <4>1, RequestMoves DEF Carries
    <3>2. pub[x].pc = "dispatch" /\ pub'[x].id = pub[x].id
      <4>1. \E r : Goto(x, r) /\ r.id = pub[x].id
        BY <3>1 DEF BeginDispatch
      <4>2. QED
        BY <1>1, <3>1, <4>1, GotoFacts DEF BeginDispatch, Typed
    <3>3. Reaches(x, q)
      BY <1>2, <2>1, <2>5, <3>2 DEF Flying
    <3>4. QED
      BY <2>1, <2>4, <2>8, <3>1, <3>2, <3>3 DEF Reaches
  <2>9. CASE pub'[x] # pub[x] /\ pub'[x].pc = "send"
    <3>1. pub[x].pc \in {"install", "send"} /\ pub'[x].id = pub[x].id
      BY <2>9, Tried
    <3>2. Reaches(x, q)
      BY <1>2, <2>1, <2>5, <3>1 DEF Flying
    <3>3. CASE /\ pub[x].pc = "install"
               /\ pub[x].working # NoTopic => pub'[x].targets = pub[x].working.subscribed
      BY <2>4, <2>9, <3>1, <3>2, <3>3 DEF Reaches
    <3>4. CASE /\ pub[x].pc = "send"
               /\ \A y \in pub[x].targets \ pub'[x].targets :
                    y \in Queue /\ (pub[x].id \in lost' \/ pub[x].id \in Range(sent'[y]))
      BY <2>4, <2>9, <3>1, <3>2, <3>4 DEF Reaches
    <3>5. QED
      BY <2>9, <3>3, <3>4, Tried
  <2>10. QED
    BY <1>2, <2>6, <2>7, <2>8, <2>9 DEF Flying
<1>7. QED
  BY <1>5, <1>6

\* An accepted message is in the queues, or its request goes on or failed.
LEMMA AcceptedStep ==
  ASSUME IInv, Next
  PROVE  AcceptedIsSent'
<1>1. Typed /\ Identifiers /\ Copies /\ Remembered /\ Dispatched /\ AcceptedIsSent
      /\ case' = case /\ created \in Nat
  BY Onward DEF IInv
<1>2. SUFFICES ASSUME ~InMemory', topic' # NoTopic, NEW i \in DOMAIN accepted',
                      accepted'[i].id \notin InFlight' \cup lost',
                      accepted'[i].incarnation = topic'.incarnation,
                      NEW q \in accepted'[i].subscribed
               PROVE  <<accepted'[i].id, q>> \in dropped' \/ accepted'[i].id \in Range(sent'[q])
  BY DEF AcceptedIsSent
<1>3. ~InMemory
  BY <1>1, <1>2 DEF InMemory
<1>4. /\ topic # NoTopic /\ topic'.incarnation = topic.incarnation
      /\ topic.incarnation = created /\ i \in DOMAIN accepted /\ accepted'[i] = accepted[i]
  <2>1. topic # NoTopic => topic.incarnation = created
    BY <1>1, <1>3 DEF Remembered
  <2>2. CASE Keeps
    BY <1>2, <2>1, <2>2 DEF Keeps
  <2>3. ASSUME Creates
        PROVE  FALSE
    <3>1. created' = created + 1 /\ accepted' = accepted /\ topic'.incarnation = created'
      BY <2>3 DEF Creates
    <3>2. accepted[i].incarnation <= created
      BY <1>1, <1>2, <3>1 DEF Copies
    <3>3. QED
      BY <1>1, <1>2, <3>1, <3>2
  <2>4. ASSUME Deletes
        PROVE  FALSE
    BY <1>2, <2>4 DEF Deletes
  <2>5. ASSUME NEW p \in Publisher, Commits(p), topic = pub[p].base, topic # NoTopic
        PROVE  /\ topic'.incarnation = topic.incarnation
               /\ i \in DOMAIN accepted /\ accepted'[i] = accepted[i]
    <3>1. topic'.incarnation = topic.incarnation
      BY <1>3, <2>5, SqliteCommit
    <3>2. /\ pub'[p] = Dispatching(pub[p])
          /\ i \in DOMAIN accepted => accepted'[i] = accepted[i]
          /\ i \notin DOMAIN accepted => accepted'[i] = MessageOf(pub[p])
      BY <1>1, <2>5, CommitFacts
    <3>3. pub[p].id \in InFlight'
      <4>1. Flying(pub'[p]) /\ pub'[p].id = pub[p].id
        BY <3>2 DEF Dispatching, Flying
      <4>2. InFlight' = FlyingIds(pub')
        BY FlyingFacts
      <4>3. QED
        BY <4>1, <4>2 DEF FlyingIds
    <3>4. MessageOf(pub[p]).id = pub[p].id
      BY MessageFields
    <3>5. QED
      BY <1>2, <3>1, <3>2, <3>3, <3>4
  <2>6. QED
    BY <1>3, <2>1, <2>2, <2>3, <2>4, <2>5, SqliteMoves
<1>5. q \in Queue
  BY <1>1, <1>2, <1>4, AcceptedFields
<1>6. /\ lost \subseteq lost' /\ dropped \subseteq dropped'
      /\ Range(sent[q]) \subseteq Range(sent'[q])
  BY <1>5, HistoryGrows
<1>7. CASE accepted[i].id \notin InFlight
  <2>1. <<accepted[i].id, q>> \in dropped \/ accepted[i].id \in Range(sent[q])
    BY <1>1, <1>2, <1>3, <1>4, <1>6, <1>7 DEF AcceptedIsSent
  <2>2. QED
    BY <1>4, <1>6, <2>1
<1>8. CASE accepted[i].id \in InFlight
  <2>1. PICK x \in Publisher : Flying(pub[x]) /\ pub[x].id = accepted[i].id
    BY <1>8, FlyingFacts DEF FlyingIds
  <2>2. ~Flying(pub'[x])
    <3>1. SUFFICES ASSUME Flying(pub'[x])
                   PROVE  accepted[i].id \in InFlight'
      BY <1>2, <1>4
    <3>2. pub'[x].id = pub[x].id
      <4>1. ASSUME NEW p \in Publisher, Starts(p)
            PROVE  pub'[x].id = pub[x].id
        BY <1>1, <3>1, <4>1, StartFacts DEF Flying
      <4>2. ASSUME NEW p \in Publisher, Commits(p)
            PROVE  pub'[x].id = pub[x].id
        <5>1. pub'[p] = Dispatching(pub[p]) /\ \A y \in Publisher : y # p => pub'[y] = pub[y]
          BY <1>1, <4>2, CommitFacts
        <5>2. pub'[p].id = pub[p].id
          BY <5>1 DEF Dispatching
        <5>3. QED
          BY <5>1, <5>2
      <4>3. QED
        BY <3>1, <4>1, <4>2, Moves DEF Continues, Moved
    <3>3. InFlight' = FlyingIds(pub')
      BY FlyingFacts
    <3>4. QED
      BY <2>1, <3>1, <3>2, <3>3 DEF FlyingIds
  <2>3. pub[x].pc = "send" /\ pub[x].targets = {}
    BY <1>2, <1>4, <2>1, <2>2, Landing
  <2>4. \/ <<pub[x].id, q>> \in dropped
        \/ pub[x].id \in lost \/ pub[x].id \in Range(sent[q])
    <3>1. Reaches(x, q)
      BY <1>1, <1>2, <1>3, <1>4, <2>1 DEF Dispatched
    <3>2. QED
      BY <2>3, <3>1 DEF Reaches
  <2>5. QED
    BY <1>2, <1>4, <1>6, <2>1, <2>4
<1>9. QED
  BY <1>7, <1>8

-----------------------------------------------------------------------------
(***************************************************************************)
(* The theorems.                                                           *)
(***************************************************************************)
\* The service starts in a state of the invariant.
LEMMA InitInvariant ==
  ASSUME Init
  PROVE  IInv
<1>1. /\ case \in Cases /\ case.messages \in Nat /\ case.topics \in Nat /\ case.clock \in Nat
      /\ case.changes \in Nat /\ 1 <= case.clock
  BY CasesAssumption DEF Init
<1>2. \A p \in Publisher : pub[p] = Idle /\ pub[p].pc = "idle"
  BY DEF Init, Idle
<1>3. DOMAIN accepted = {} /\ topic = NoTopic /\ DOMAIN admin = {} /\ replies = {}
      /\ \A q \in Queue : DOMAIN sent[q] = {}
  BY DEF Init
<1>4. Typed
  <2>1. pub \in [Publisher -> PubState(case)] /\ batch \in [Publisher -> Seq(case.inputs)]
    BY DEF Init, PubState
  <2>2. sent \in [Queue -> Seq(1..case.messages)] /\ accepted \in Seq(MessageSet(case))
        /\ admin \in Seq(TopicOf(case) \cup {NoTopic}) /\ Len(admin) <= 1
    BY DEF Init
  <2>3. /\ clock \in 1..case.clock /\ nextID \in 1..(case.messages + 1)
        /\ created \in 0..case.topics /\ changes \in 0..case.changes
    BY <1>1 DEF Init
  <2>4. QED
    BY <1>1, <1>3, <2>1, <2>2, <2>3 DEF Init, Typed
<1>5. Identifiers /\ Seen /\ Unsent /\ QueueOrder
  BY <1>2, <1>3 DEF Identifiers, Seen, Unsent, QueueOrder, Fresh, Flying, Owes
<1>6. Copies /\ Remembered /\ Older /\ Dispatched
  BY <1>2, <1>3 DEF Copies, Remembered, Older, Dispatched, Flying
<1>7. NoDuplicateInWindow /\ SequenceOrder /\ DuplicateNamesOriginal /\ SentAtMostOnce
      /\ AcceptedIsSent
  BY <1>3 DEF NoDuplicateInWindow, SequenceOrder, DuplicateNamesOriginal, SentAtMostOnce,
              AcceptedIsSent
<1>8. QED
  BY <1>4, <1>5, <1>6, <1>7 DEF IInv

\* Every step keeps it.
LEMMA Invariance ==
  IInv /\ [Next]_vars => IInv'
<1>1. ASSUME IInv, Next
      PROVE  IInv'
  BY <1>1, TypedStep, IdentifiersStep, CopiesStep, SeenStep, UnsentStep, QueueOrderStep,
     RememberedStep, OlderStep, DispatchedStep, WindowStep, OrderStep, RepliesStep,
     SentStep, AcceptedStep DEF IInv
<1>2. ASSUME IInv, UNCHANGED vars
      PROVE  IInv'
  BY <1>2 DEF vars, IInv, Typed, Identifiers, Copies, Seen, Unsent, QueueOrder, Remembered,
              Older, Dispatched, Reaches, Flying, NoDuplicateInWindow, SequenceOrder,
              DuplicateNamesOriginal, SentAtMostOnce, AcceptedIsSent, InMemory, InFlight
<1>3. QED
  BY <1>1, <1>2

\* It holds always.
LEMMA Inductive == Spec => []IInv
<1>1. Init => IInv
  BY InitInvariant
<1>2. QED
  BY <1>1, Invariance, PTL DEF Spec

\* Publish and the administrative requests keep every table, request and
\* history of its type, whatever requests overlap and wherever the process
\* is killed; the counter of a group stays below 2^64 (TypeOK).
THEOREM TypeCorrect == Spec => []TypeOK
<1>1. ASSUME IInv
      PROVE  TypeOK
  <2>1. Typed /\ case \in Cases /\ NoTopic \notin TopicOf(case)
    BY <1>1, CaseFacts DEF IInv, Typed
  <2>2. ASSUME NEW t \in TopicOf(case)
        PROVE  IsTopic(t)
    <3>1. /\ Maps(t.GroupSequences, GroupOf(case), GroupSequenceOf(case))
          /\ Maps(t.DedupRecords, KeyOf(case), DedupRecordOf(case))
      BY TopicFields, MapApply DEF Maps
    <3>2. QED
      BY <3>1, TopicFields DEF IsTopic
  <2>3. ASSUME NEW m \in MessageSet(case)
        PROVE  IsMessage(m)
    <3>1. m.at \in Time
      BY <2>1, CaseFacts DEF MessageSet, Time
    <3>2. QED
      BY <3>1 DEF MessageSet, IsMessage, MessageID
  <2>4. ASSUME NEW p \in Publisher
        PROVE  LET r == pub[p] IN
               \/ r = Idle
               \/ /\ r.pc \in {"update", "callback", "commit", "dispatch", "install", "send"}
                  /\ r.in \in case.inputs /\ r.id \in MessageID
                  /\ r.pc \in {"callback", "commit"} => IsTopic(r.base)
                  /\ r.pc = "commit" => IsTopic(r.working) /\ r.deduplicated \in BOOLEAN
                  /\ r.pc = "install" => r.working = NoTopic \/ IsTopic(r.working)
                  /\ r.pc = "send" => r.targets \subseteq Queue
    <3>1. pub[p] \in PubState(case)
      BY <2>1 DEF Typed
    <3>2. QED
      BY <2>2, <3>1, PubFacts, PubFields DEF MessageID
  <2>5. \A p \in Publisher : Range(batch[p]) \subseteq case.inputs
    BY <2>1 DEF Typed, Range
  <2>6. /\ topic = NoTopic \/ IsTopic(topic)
        /\ Len(admin) <= 1 /\ \A t \in Range(admin) : t = NoTopic \/ IsTopic(t)
    BY <2>1, <2>2 DEF Typed, Range
  <2>7. /\ \A i \in DOMAIN accepted : IsMessage(accepted[i])
        /\ \A m \in replies : IsMessage(m)
    BY <2>1, <2>3 DEF Typed
  <2>8. /\ clock \in 1..case.clock /\ nextID \in 1..(case.messages + 1)
        /\ created \in 0..case.topics /\ changes \in 0..case.changes
        /\ sent \in [Queue -> Seq(MessageID)] /\ lost \subseteq MessageID
        /\ dropped \subseteq MessageID \X Queue
    BY <2>1 DEF Typed, MessageID
  <2>9. QED
    BY <2>4, <2>5, <2>6, <2>7, <2>8 DEF TypeOK
<1>2. QED
  BY <1>1, Inductive, PTL

\* On SQLite two messages accepted under one deduplication key by one topic
\* are at least a window apart: UpdateTopic commits the record together with
\* the decision, or not at all (NoDuplicateInWindow).
THEOREM Deduplication == Spec => []NoDuplicateInWindow
<1>1. IInv => NoDuplicateInWindow
  BY DEF IInv
<1>2. QED
  BY <1>1, Inductive, PTL

\* On SQLite the numbers that NextSequence gives to a group increase, through
\* restarts and through deletion of the topic (SequenceOrder).
THEOREM NumbersIncrease == Spec => []SequenceOrder
<1>1. IInv => SequenceOrder
  BY DEF IInv
<1>2. QED
  BY <1>1, Inductive, PTL

\* Over both stores, an answer that says "deduplicated" names a message that
\* was accepted less than a window ago (DuplicateNamesOriginal).
THEOREM AnswersAreTrue == Spec => []DuplicateNamesOriginal
<1>1. IInv => DuplicateNamesOriginal
  BY DEF IInv
<1>2. QED
  BY <1>1, Inductive, PTL

\* Over both stores, the dispatch of Publish sends a message to a queue at
\* most once, and only when it is accepted (SentAtMostOnce).
THEOREM NoSecondSend == Spec => []SentAtMostOnce
<1>1. IInv => SentAtMostOnce
  BY DEF IInv
<1>2. QED
  BY <1>1, Inductive, PTL

\* On SQLite, messages of a group that are published one after the other are
\* in every queue in the order of their sequence numbers (QueueInSequenceOrder).
THEOREM QueuesInOrder == Spec => []QueueInSequenceOrder
<1>1. ASSUME IInv
      PROVE  QueueInSequenceOrder
  <2>1. Identifiers /\ Seen /\ QueueOrder /\ SequenceOrder
    BY <1>1 DEF IInv
  <2>2. SUFFICES ASSUME ~InMemory, NEW q \in Queue, NEW i \in DOMAIN sent[q],
                        NEW j \in DOMAIN sent[q],
                        NEW a \in DOMAIN accepted, NEW b \in DOMAIN accepted,
                        accepted[a].id = sent[q][i], accepted[b].id = sent[q][j],
                        accepted[a].group = accepted[b].group,
                        accepted[a].id \in accepted[b].seen
                 PROVE  i < j /\ accepted[a].seq < accepted[b].seq
    BY DEF QueueInSequenceOrder
  <2>3. i < j
    BY <2>1, <2>2 DEF QueueOrder
  <2>4. a < b
    <3>1. PICK c \in DOMAIN accepted : c < b /\ accepted[c].id = accepted[a].id
      BY <2>1, <2>2 DEF Seen
    <3>2. c = a
      BY <2>1, <3>1 DEF Identifiers
    <3>3. QED
      BY <3>1, <3>2
  <2>5. QED
    BY <2>1, <2>2, <2>3, <2>4 DEF SequenceOrder
<1>2. QED
  BY <1>1, Inductive, PTL

\* On SQLite, when its request has ended without a known failure, an accepted
\* message is in every queue that was subscribed from its acceptance until the
\* dispatch listed the subscriptions, however queues come and go (AcceptedIsSent).
THEOREM NothingForgotten == Spec => []AcceptedIsSent
<1>1. IInv => AcceptedIsSent
  BY DEF IInv
<1>2. QED
  BY <1>1, Inductive, PTL
=============================================================================
