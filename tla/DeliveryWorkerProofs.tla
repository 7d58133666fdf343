------------------------- MODULE DeliveryWorkerProofs -----------------------
(***************************************************************************)
(* The delivery worker, for any jobs, policies, poll limit and number of   *)
(* failures and crashes: over either store its attempts are bounded; over  *)
(* SQLite no job is abandoned, dead letters are sent, and sent once, and   *)
(* withdrawn jobs stay gone.                                               *)
(*                                                                         *)
(* The inductive invariant ties the worker's copies to the rows they were  *)
(* made from: the copies of a poll are of different jobs, each still in    *)
(* the table or withdrawn, with the row's attempt count, because nobody    *)
(* but the worker itself reschedules or deletes single jobs.               *)
(***************************************************************************)
EXTENDS DeliveryWorker, FiniteSetTheorems, SequenceTheorems, TLAPS

Copy == [ID : JobID, AttemptCount : Nat]

\* Nothing of what only the in-memory store does ever happens.
SqliteOnly == request = <<>> /\ clone = EmptyMap /\ installs = 0 /\ pc # "install"

RowsKnown ==
  /\ IsFiniteSet(DOMAIN jobs)
  /\ DOMAIN jobs \subseteq enqueued
  /\ withdrawn \subseteq enqueued
  /\ WithdrawnStaysGone
  /\ \A id \in JobID \ enqueued : attempts[id] = 0

\* Every row has a delay left for its attempt count, and was posted that often.
RowCounts ==
  \A id \in DOMAIN jobs :
    /\ jobs[id].AttemptCount <= Len(Delays[id])
    /\ jobs[id].AttemptCount <= attempts[id]
    /\ attempts[id] <= jobs[id].AttemptCount + faults + crashes
                         + (IF pc \in {"delete", "reschedule"} /\ Current.ID = id
                            THEN 1 ELSE 0)

CopiesDiffer ==
  \A i, j \in 1..Len(batch) : i # j => batch[i].ID # batch[j].ID

\* Only the copy under redrive may have lost its row to the worker.
CopiesKnown ==
  \A i \in 1..Len(batch) :
    /\ batch[i].ID \in enqueued
    /\ (i = 1 /\ pc = "redrive") \/ batch[i].ID \in DOMAIN jobs \cup withdrawn

CopiesFresh ==
  \A i \in 1..Len(batch) :
    /\ batch[i].ID \in DOMAIN jobs => jobs[batch[i].ID].AttemptCount = batch[i].AttemptCount
    /\ batch[i].AttemptCount <= Len(Delays[batch[i].ID])

CopyCounts ==
  \A i \in 1..Len(batch) :
    /\ batch[i].AttemptCount <= attempts[batch[i].ID]
    /\ i = 1 /\ pc # "deliver" => batch[i].AttemptCount < attempts[batch[i].ID]
    /\ attempts[batch[i].ID] <= batch[i].AttemptCount + faults + crashes
                                  + (IF i = 1 /\ pc # "deliver" THEN 1 ELSE 0)

\* A job is deleted for a reason, and a success is remembered.
Decided ==
  /\ pc = "delete" => last[Current.ID] \in {"success", "refused"} \/ Exhausted(Current)
  /\ \A id \in JobID : last[id] = "success" => id \in delivered

IInv ==
  /\ TypeOK /\ SqliteOnly /\ RowsKnown /\ RowCounts
  /\ CopiesDiffer /\ CopiesKnown /\ CopiesFresh /\ CopyCounts
  /\ Decided /\ AttemptsBounded /\ NeverAbandoned /\ DeadLettered

-----------------------------------------------------------------------------
(***************************************************************************)
(* Tables and sequences.                                                   *)
(***************************************************************************)
\* The rows of a table are job records.
LEMMA TableFacts ==
  ASSUME NEW m, IsJobTable(m)
  PROVE  DOMAIN m \subseteq JobID /\ \A id \in DOMAIN m : m[id] \in JobRecord
BY DEF IsJobTable

\* Saving a row keeps a table a table.
LEMMA PutTable ==
  ASSUME NEW m, IsJobTable(m), NEW id \in JobID, NEW row \in JobRecord
  PROVE  IsJobTable(Put(m, id, row))
<1>1. DOMAIN m \cup {id} \in SUBSET JobID
  BY TableFacts
<1>2. Put(m, id, row) \in [DOMAIN m \cup {id} -> JobRecord]
  BY TableFacts DEF Put
<1>3. QED
  BY <1>1, <1>2 DEF IsJobTable

\* Deleting rows keeps a table a table.
LEMMA DropTable ==
  ASSUME NEW m, IsJobTable(m), NEW K
  PROVE  IsJobTable(Drop(m, K))
<1>1. DOMAIN m \ K \in SUBSET JobID
  BY TableFacts
<1>2. Drop(m, K) \in [DOMAIN m \ K -> JobRecord]
  BY TableFacts DEF Drop, Restrict
<1>3. QED
  BY <1>1, <1>2 DEF IsJobTable

\* The empty table.
LEMMA EmptyTable == IsJobTable(EmptyMap) /\ DOMAIN EmptyMap = {}
<1>1. EmptyMap \in [{} -> JobRecord] /\ DOMAIN EmptyMap = {}
  BY DEF EmptyMap
<1>2. QED
  BY <1>1 DEF IsJobTable

\* Where the worker has a copy, the rest of the copies is one shorter.
LEMMA AdvanceFacts ==
  ASSUME batch \in Seq(Copy), batch # <<>>, Advance
  PROVE  /\ batch' \in Seq(Copy)
         /\ Len(batch') + 1 = Len(batch)
         /\ \A i \in 1..Len(batch') : batch'[i] = batch[i + 1] /\ i + 1 \in 1..Len(batch)
         /\ pc' \in {"poll", "deliver"}
         /\ (pc' = "poll") = (batch' = <<>>)
<1>1. Len(batch) \in Nat /\ Len(batch) >= 1
  BY DEF Copy
<1>2. /\ Tail(batch) \in Seq(Copy)
      /\ Len(Tail(batch)) = Len(batch) - 1
      /\ \A i \in 1..Len(Tail(batch)) : Tail(batch)[i] = batch[i + 1]
  BY <1>1 DEF Copy
<1>3. (Len(batch) = 1) <=> (Tail(batch) = <<>>)
  <2> DEFINE T == Tail(batch)
  <2>1. T \in Seq(Copy) /\ Len(T) = Len(batch) - 1
    BY <1>2
  <2> HIDE DEF T
  <2>2. T = <<>> => Len(T) = 0
    BY EmptySeq
  <2>3. T # <<>> => Len(T) # 0
    BY <2>1, EmptySeq
  <2>4. QED
    BY <1>1, <2>1, <2>2, <2>3 DEF T
<1>4. QED
  BY <1>1, <1>2, <1>3 DEF Advance

\* The current copy is a copy.
LEMMA CurrentCopy ==
  ASSUME batch \in Seq(Copy), batch # <<>>
  PROVE  Current \in Copy /\ 1 \in 1..Len(batch)
<1>1. Len(batch) \in Nat /\ Len(batch) # 0
  BY EmptySeq
<1>2. 1 \in 1..Len(batch)
  BY <1>1
<1>3. batch[1] \in Copy
  BY <1>2
<1>4. QED
  BY <1>2, <1>3 DEF Current

\* A poll copies different rows that are in the table.
LEMMA PollFacts ==
  ASSUME IsJobTable(jobs), IsFiniteSet(DOMAIN jobs), Ready # {},
         NEW s \in SetToSeqs(Ready)
  PROVE  LET b == Copies(FirstOf(s)) IN
         /\ b \in Seq(Copy)
         /\ b # <<>>
         /\ \A i \in 1..Len(b) :
              /\ b[i].ID \in DOMAIN jobs
              /\ b[i].AttemptCount = jobs[b[i].ID].AttemptCount
         /\ \A i, j \in 1..Len(b) : i # j => b[i].ID # b[j].ID
<1> DEFINE C == Cardinality(Ready)
           f == FirstOf(s)
           b == Copies(f)
<1>1. IsFiniteSet(Ready) /\ Ready \subseteq DOMAIN jobs
  BY FS_Subset DEF Ready
<1>2. C \in Nat /\ C >= 1
  BY <1>1, FS_CardinalityType, FS_EmptySet
<1>3. s \in [1..C -> Ready] /\ \A i, j \in 1..C : i # j => s[i] # s[j]
  BY DEF SetToSeqs
<1>4. s \in Seq(Ready) /\ Len(s) = C
  BY <1>2, <1>3
<1>5. PICK n \in 1..C : n = IF Len(s) < Limit THEN Len(s) ELSE Limit
  BY <1>2, <1>4, LimitAssumption
<1>6. f = SubSeq(s, 1, n)
  BY <1>5 DEF FirstOf
<1>7. f \in Seq(Ready) /\ Len(f) = n /\ \A i \in 1..n : f[i] = s[i]
  BY <1>2, <1>4, <1>5, <1>6
<1>8. b = [i \in 1..n |-> [ID |-> f[i], AttemptCount |-> jobs[f[i]].AttemptCount]]
  BY <1>7 DEF Copies
<1>9. \A i \in 1..n : f[i] \in DOMAIN jobs /\ f[i] \in JobID
                        /\ jobs[f[i]].AttemptCount \in Nat
  BY <1>1, <1>3, <1>5, <1>7, TableFacts, SMTT(30) DEF JobRecord
<1>10. b \in [1..n -> Copy]
  BY <1>8, <1>9 DEF Copy
<1>11. b \in Seq(Copy) /\ Len(b) = n
  BY <1>2, <1>5, <1>10
<1> HIDE DEF b, f, C
<1>12. \A i \in 1..n : b[i].ID = f[i] /\ b[i].AttemptCount = jobs[f[i]].AttemptCount
  BY <1>8
<1>13. \A i, j \in 1..n : i # j => f[i] # f[j]
  BY <1>2, <1>3, <1>5, <1>7
<1>14. /\ b # <<>>
       /\ \A i \in 1..Len(b) : b[i].ID \in DOMAIN jobs
                               /\ b[i].AttemptCount = jobs[b[i].ID].AttemptCount
       /\ \A i, j \in 1..Len(b) : i # j => b[i].ID # b[j].ID
  BY <1>2, <1>5, <1>9, <1>11, <1>12, <1>13
<1>15. QED
  BY <1>11, <1>14 DEF b, f

\* Policies have a number of retries.
LEMMA RetriesNat == \A id \in JobID : Len(Delays[id]) \in Nat
BY DelaysAssumption

\* The types the steps below use, in one place.
LEMMA Types ==
  ASSUME IInv
  PROVE  /\ IsJobTable(jobs) /\ DOMAIN jobs \subseteq JobID
         /\ \A id \in DOMAIN jobs : jobs[id].AttemptCount \in Nat
         /\ batch \in Seq(Copy) /\ Len(batch) \in Nat
         /\ \A i \in 1..Len(batch) : batch[i].ID \in JobID /\ batch[i].AttemptCount \in Nat
         /\ attempts \in [JobID -> Nat] /\ deadLetters \in [JobID -> Nat]
         /\ last \in [JobID -> Results \cup {"none"}]
         /\ enqueued \subseteq JobID /\ withdrawn \subseteq JobID
         /\ faults \in Nat /\ crashes \in Nat /\ clock \in Nat
         /\ installs = 0 /\ request = <<>>
<1>1. /\ IsJobTable(jobs) /\ batch \in Seq(Copy)
      /\ attempts \in [JobID -> Nat] /\ deadLetters \in [JobID -> Nat]
      /\ last \in [JobID -> Results \cup {"none"}]
      /\ enqueued \subseteq JobID /\ withdrawn \subseteq JobID
      /\ faults \in Nat /\ crashes \in Nat /\ clock \in Nat
  BY BoundsAssumption DEF IInv, TypeOK, Copy
<1>2. DOMAIN jobs \subseteq JobID /\ \A id \in DOMAIN jobs : jobs[id].AttemptCount \in Nat
  BY <1>1, TableFacts DEF JobRecord
<1>3. Len(batch) \in Nat /\ \A i \in 1..Len(batch) : batch[i] \in Copy
  BY <1>1
<1>4. \A i \in 1..Len(batch) : batch[i].ID \in JobID /\ batch[i].AttemptCount \in Nat
  BY <1>3 DEF Copy
<1>5. QED
  BY <1>1, <1>2, <1>3, <1>4 DEF IInv, SqliteOnly

-----------------------------------------------------------------------------
(***************************************************************************)
(* Requests.                                                               *)
(***************************************************************************)
\* Enqueueing a job keeps the invariant: no copy is of a new job.
LEMMA EnqueueStep ==
  ASSUME StoreKind = "sqlite", IInv, NEW id \in JobID, Enqueue(id)
  PROVE  IInv'
<1>1. /\ id \notin enqueued
      /\ jobs' = Put(jobs, id, NewJob)
      /\ enqueued' = enqueued \cup {id}
      /\ request' = request /\ installs' = installs
      /\ UNCHANGED <<clock, pc, batch, clone, attempts, last, delivered, deadLetters,
                     withdrawn, cut, faults, crashes>>
  BY DEF Enqueue, EndRequest, RequestBase, IInv, SqliteOnly, worker
<1>2. NewJob \in JobRecord /\ NewJob.AttemptCount = 0
  BY Types DEF NewJob, JobRecord
<1>3. IsJobTable(jobs')
  BY <1>1, <1>2, PutTable, Types
<1>4. /\ DOMAIN jobs' = DOMAIN jobs \cup {id}
      /\ \A x \in DOMAIN jobs : x # id /\ jobs'[x] = jobs[x]
      /\ jobs'[id].AttemptCount = 0
  BY <1>1, <1>2 DEF Put, IInv, RowsKnown
<1>5. TypeOK'
  BY <1>1, <1>3 DEF IInv, TypeOK, Current
<1>6. SqliteOnly'
  BY <1>1 DEF IInv, SqliteOnly
<1>7. RowsKnown'
  <2>1. IsFiniteSet(DOMAIN jobs')
    BY <1>4, FS_AddElement DEF IInv, RowsKnown
  <2>2. QED
    BY <1>1, <1>4, <2>1 DEF IInv, RowsKnown, WithdrawnStaysGone
<1>8. RowCounts'
  BY <1>1, <1>4, Types, RetriesNat DEF IInv, RowCounts, RowsKnown, Current
<1>9. CopiesDiffer' /\ CopiesKnown'
  BY <1>1, <1>4 DEF IInv, CopiesDiffer, CopiesKnown
<1>10. CopiesFresh' /\ CopyCounts'
  BY <1>1, <1>4, Types DEF IInv, CopiesFresh, CopyCounts, CopiesKnown
<1>11. Decided' /\ AttemptsBounded'
  BY <1>1 DEF IInv, Decided, AttemptsBounded, Exhausted, Current
<1>12. NeverAbandoned' /\ DeadLettered'
  BY <1>1, <1>4 DEF IInv, NeverAbandoned, DeadLettered, Current
<1>13. QED
  BY <1>5, <1>6, <1>7, <1>8, <1>9, <1>10, <1>11, <1>12 DEF IInv

\* DeleteTopic withdraws rows, the current copy's too.
LEMMA DeleteTopicStep ==
  ASSUME StoreKind = "sqlite", IInv, NEW t, DeleteTopicJobs(t)
  PROVE  IInv'
<1> DEFINE gone == { id \in DOMAIN jobs : TopicOf[id] = t }
<1>1. /\ jobs' = Drop(jobs, gone)
      /\ withdrawn' = withdrawn \cup gone
      /\ request' = request /\ installs' = installs
      /\ UNCHANGED <<clock, pc, batch, clone, enqueued, attempts, last, delivered,
                     deadLetters, cut, faults, crashes>>
  BY DEF DeleteTopicJobs, EndRequest, RequestBase, IInv, SqliteOnly, worker
<1>2. gone \subseteq DOMAIN jobs
  OBVIOUS
<1> HIDE DEF gone
<1>3. IsJobTable(jobs')
  BY <1>1, DropTable, Types
<1>4. /\ DOMAIN jobs' = DOMAIN jobs \ gone
      /\ \A x \in DOMAIN jobs' : jobs'[x] = jobs[x]
  BY <1>1 DEF Drop, Restrict
<1>5. TypeOK'
  BY <1>1, <1>2, <1>3, Types DEF IInv, TypeOK, Current
<1>6. SqliteOnly'
  BY <1>1 DEF IInv, SqliteOnly
<1>7. RowsKnown'
  <2>1. IsFiniteSet(DOMAIN jobs')
    BY <1>4, FS_Subset DEF IInv, RowsKnown
  <2>2. QED
    BY <1>1, <1>2, <1>4, <2>1 DEF IInv, RowsKnown, WithdrawnStaysGone
<1>8. RowCounts'
  BY <1>1, <1>4 DEF IInv, RowCounts, Current
<1>9. CopiesDiffer' /\ CopiesKnown'
  BY <1>1, <1>4 DEF IInv, CopiesDiffer, CopiesKnown
<1>10. CopiesFresh' /\ CopyCounts'
  BY <1>1, <1>4 DEF IInv, CopiesFresh, CopyCounts
<1>11. Decided' /\ AttemptsBounded'
  BY <1>1 DEF IInv, Decided, AttemptsBounded, Exhausted, Current
<1>12. NeverAbandoned' /\ DeadLettered'
  BY <1>1, <1>2, <1>4 DEF IInv, NeverAbandoned, DeadLettered, Current
<1>13. QED
  BY <1>5, <1>6, <1>7, <1>8, <1>9, <1>10, <1>11, <1>12 DEF IInv

-----------------------------------------------------------------------------
(***************************************************************************)
(* The worker.                                                             *)
(***************************************************************************)
\* A poll finds the attempt counts of the rows.
LEMMA PollStep ==
  ASSUME StoreKind = "sqlite", IInv, Poll
  PROVE  IInv'
<1>1. PICK s \in SetToSeqs(Ready) : batch' = Copies(FirstOf(s))
  BY DEF Poll
<1>2. /\ pc = "poll" /\ pc' = "deliver" /\ Ready # {}
      /\ UNCHANGED <<jobs, clock, clone, request, enqueued, attempts, last, delivered,
                     deadLetters, withdrawn, cut, faults, crashes, installs>>
  BY DEF Poll, history
<1>3. IsJobTable(jobs) /\ IsFiniteSet(DOMAIN jobs)
  BY Types DEF IInv, RowsKnown
<1>4. /\ batch' \in Seq(Copy)
      /\ batch' # <<>>
      /\ \A i \in 1..Len(batch') : /\ batch'[i].ID \in DOMAIN jobs
                                   /\ batch'[i].AttemptCount = jobs[batch'[i].ID].AttemptCount
      /\ \A i, j \in 1..Len(batch') : i # j => batch'[i].ID # batch'[j].ID
  BY <1>1, <1>2, <1>3, PollFacts
<1>5. TypeOK'
  BY <1>2, <1>4 DEF IInv, TypeOK, Copy
<1>6. SqliteOnly' /\ RowsKnown'
  BY <1>2 DEF IInv, SqliteOnly, RowsKnown, WithdrawnStaysGone
<1>7. RowCounts'
  BY <1>2 DEF IInv, RowCounts
<1>8. CopiesDiffer'
  BY <1>4 DEF CopiesDiffer
<1>9. CopiesKnown' /\ CopiesFresh'
  BY <1>2, <1>4 DEF IInv, CopiesKnown, CopiesFresh, RowsKnown, RowCounts
<1>10. CopyCounts'
  BY <1>2, <1>4, Types DEF IInv, CopyCounts, RowCounts
<1>11. Decided' /\ AttemptsBounded'
  BY <1>2 DEF IInv, Decided, AttemptsBounded
<1>12. NeverAbandoned' /\ DeadLettered'
  BY <1>2 DEF IInv, NeverAbandoned, DeadLettered
<1>13. QED
  BY <1>5, <1>6, <1>7, <1>8, <1>9, <1>10, <1>11, <1>12 DEF IInv

\* A post is counted once for the current job, which is not abandoned: its
\* row is there, or was withdrawn.
LEMMA DeliverStep ==
  ASSUME StoreKind = "sqlite", IInv, NEW result \in Results, Deliver(result)
  PROVE  IInv'
<1> DEFINE id == Current.ID
           n == Current.AttemptCount
<1>1. /\ pc = "deliver"
      /\ attempts' = [attempts EXCEPT ![id] = @ + 1]
      /\ last' = [last EXCEPT ![id] = result]
      /\ delivered' = IF result = "success" THEN delivered \cup {id} ELSE delivered
      /\ pc' = IF result = "retryable" /\ ~Exhausted(Current) THEN "reschedule" ELSE "delete"
      /\ UNCHANGED <<jobs, clock, batch, clone, request, enqueued, deadLetters,
                     withdrawn, cut, faults, crashes, installs>>
  BY DEF Deliver
<1>2. batch \in Seq(Copy) /\ batch # <<>>
  BY <1>1, Types DEF IInv, TypeOK
<1>3. 1 \in 1..Len(batch) /\ batch[1] = Current /\ id \in JobID /\ n \in Nat
  BY <1>2, CurrentCopy DEF Current, Copy
<1>4. \A i \in 1..Len(batch) : i # 1 => batch[i].ID # id
  BY <1>3 DEF IInv, CopiesDiffer
<1>5. /\ attempts'[id] = attempts[id] + 1 /\ last'[id] = result
      /\ \A x \in JobID : x # id => attempts'[x] = attempts[x] /\ last'[x] = last[x]
  BY <1>1, <1>3, Types
<1>6. Current' = Current
  BY <1>1 DEF Current
<1>7. /\ n <= attempts[id] /\ attempts[id] <= n + faults + crashes
      /\ n <= Len(Delays[id])
      /\ id \in enqueued /\ id \in DOMAIN jobs \cup withdrawn
      /\ id \in DOMAIN jobs => jobs[id].AttemptCount = n
  BY <1>1, <1>3, Types, SMTT(30) DEF IInv, CopyCounts, CopiesKnown, CopiesFresh
<1> HIDE DEF id, n
<1>8. TypeOK'
  <2>1. attempts' \in [JobID -> Nat] /\ last' \in [JobID -> Results \cup {"none"}]
    BY <1>1, <1>3, Types
  <2>2. delivered' \subseteq JobID
    BY <1>1, <1>3 DEF IInv, TypeOK
  <2>3. pc' = "reschedule" => n < Len(Delays[id])
    BY <1>1, <1>3, RetriesNat DEF Exhausted, id, n
  <2>4. pc' \in {"delete", "reschedule"}
    BY <1>1
  <2>5. (pc' = "poll") = (batch' = <<>>)
    BY <1>1, <1>2, <2>4
  <2>6. pc' = "reschedule" => Current'.AttemptCount < Len(Delays[Current'.ID])
    BY <1>6, <2>3 DEF id, n
  <2>7. QED
    BY <1>1, <2>1, <2>2, <2>4, <2>5, <2>6 DEF IInv, TypeOK
<1>9. SqliteOnly' /\ CopiesDiffer' /\ CopiesFresh'
  BY <1>1 DEF IInv, SqliteOnly, CopiesDiffer, CopiesFresh
<1>10. RowsKnown'
  BY <1>1, <1>5, <1>7 DEF IInv, RowsKnown, WithdrawnStaysGone
<1>11. RowCounts'
  <2> SUFFICES ASSUME NEW x \in DOMAIN jobs
               PROVE  /\ jobs[x].AttemptCount <= Len(Delays[x])
                      /\ jobs[x].AttemptCount <= attempts'[x]
                      /\ attempts'[x] <= jobs[x].AttemptCount + faults + crashes
                                           + (IF id = x THEN 1 ELSE 0)
    BY <1>1, <1>6 DEF RowCounts, id
  <2>1. /\ jobs[x].AttemptCount <= Len(Delays[x])
        /\ jobs[x].AttemptCount <= attempts[x]
        /\ attempts[x] <= jobs[x].AttemptCount + faults + crashes
    BY <1>1, Types DEF IInv, RowCounts
  <2>2. CASE x = id
    BY <1>3, <1>5, <2>1, <2>2, Types
  <2>3. CASE x # id
    BY <1>5, <2>1, <2>3, Types
  <2>4. QED
    BY <2>2, <2>3
<1>12. CopiesKnown'
  BY <1>1 DEF IInv, CopiesKnown
<1>13. CopyCounts'
  <2> SUFFICES ASSUME NEW i \in 1..Len(batch)
               PROVE  /\ batch[i].AttemptCount <= attempts'[batch[i].ID]
                      /\ i = 1 => batch[i].AttemptCount < attempts'[batch[i].ID]
                      /\ attempts'[batch[i].ID] <= batch[i].AttemptCount + faults + crashes
                                                     + (IF i = 1 THEN 1 ELSE 0)
    BY <1>1 DEF CopyCounts
  <2>1. CASE i = 1
    <3>1. batch[i].ID = id /\ batch[i].AttemptCount = n
      BY <1>3, <2>1 DEF id, n
    <3>2. attempts[id] \in Nat /\ faults \in Nat /\ crashes \in Nat
      BY <1>3, Types
    <3>3. QED
      BY <1>3, <1>5, <1>7, <2>1, <3>1, <3>2
  <2>2. CASE i # 1
    <3>1. attempts'[batch[i].ID] = attempts[batch[i].ID]
      BY <1>4, <1>5, <2>2, Types
    <3>2. /\ batch[i].AttemptCount <= attempts[batch[i].ID]
          /\ attempts[batch[i].ID] <= batch[i].AttemptCount + faults + crashes + 0
      BY <1>1, <2>2 DEF IInv, CopyCounts
    <3>3. QED
      BY <2>2, <3>1, <3>2
  <2>3. QED
    BY <2>1, <2>2
<1>14. Decided'
  <2>1. pc' = "delete" => last'[id] \in {"success", "refused"} \/ Exhausted(Current)
    BY <1>1, <1>5 DEF Results
  <2>2. \A x \in JobID : last'[x] = "success" => x \in delivered'
    BY <1>1, <1>5 DEF IInv, Decided
  <2>3. QED
    BY <1>6, <2>1, <2>2 DEF Decided, Exhausted, id
<1>15. AttemptsBounded'
  <2> SUFFICES ASSUME NEW x \in JobID
               PROVE  attempts'[x] <= (Len(Delays[x]) + 1) * (1 + installs) + faults + crashes
    BY <1>1 DEF AttemptsBounded
  <2>1. CASE x = id
    <3>1. attempts'[x] <= Len(Delays[x]) + 1 + faults + crashes
      BY <1>3, <1>5, <1>7, <2>1, Types, RetriesNat
    <3>2. (Len(Delays[x]) + 1) * (1 + installs) = Len(Delays[x]) + 1
      BY Types, RetriesNat
    <3>3. QED
      BY <3>1, <3>2
  <2>2. CASE x # id
    BY <1>5, <2>2 DEF IInv, AttemptsBounded
  <2>3. QED
    BY <2>1, <2>2
<1>16. NeverAbandoned'
  BY <1>1, <1>5, <1>7, Types DEF IInv, NeverAbandoned
<1>17. DeadLettered'
  BY <1>1 DEF IInv, DeadLettered
<1>18. QED
  BY <1>8, <1>9, <1>10, <1>11, <1>12, <1>13, <1>14, <1>15, <1>16, <1>17 DEF IInv

\* The copies behind the current one stay good when the worker goes on, as
\* long as it changed no row but the current job's.
LEMMA AdvancedCopies ==
  ASSUME IInv, batch # <<>>, Advance,
         UNCHANGED <<enqueued, attempts, withdrawn, crashes>>,
         faults' \in Nat, faults <= faults',
         \A x \in DOMAIN jobs \ {Current.ID} : x \in DOMAIN jobs' /\ jobs'[x] = jobs[x],
         DOMAIN jobs' \subseteq DOMAIN jobs
  PROVE  CopiesDiffer' /\ CopiesKnown' /\ CopiesFresh' /\ CopyCounts'
<1>1. /\ Len(batch') + 1 = Len(batch) /\ Len(batch') \in Nat
      /\ \A i \in 1..Len(batch') : batch'[i] = batch[i + 1] /\ i + 1 \in 1..Len(batch)
      /\ pc' \in {"poll", "deliver"} /\ (pc' = "poll") = (batch' = <<>>)
  BY Types, AdvanceFacts
<1>2. 1 \in 1..Len(batch) /\ batch[1] = Current
  BY Types, CurrentCopy DEF Current
<1>3. \A i \in 1..Len(batch') : i + 1 # 1 /\ batch'[i].ID # Current.ID
  BY <1>1, <1>2 DEF IInv, CopiesDiffer
<1>4. CopiesDiffer'
  <2> SUFFICES ASSUME NEW i \in 1..Len(batch'), NEW j \in 1..Len(batch'), i # j
               PROVE  batch'[i].ID # batch'[j].ID
    BY DEF CopiesDiffer
  <2>1. i + 1 \in 1..Len(batch) /\ j + 1 \in 1..Len(batch) /\ i + 1 # j + 1
    BY <1>1
  <2>2. QED
    BY <1>1, <2>1 DEF IInv, CopiesDiffer
<1>5. CopiesKnown'
  <2> SUFFICES ASSUME NEW i \in 1..Len(batch')
               PROVE  batch'[i].ID \in enqueued /\ batch'[i].ID \in DOMAIN jobs' \cup withdrawn
    BY DEF CopiesKnown
  <2>1. batch'[i].ID \in enqueued /\ batch'[i].ID \in DOMAIN jobs \cup withdrawn
    BY <1>1, <1>3 DEF IInv, CopiesKnown
  <2>2. QED
    BY <1>3, <2>1
<1>6. CopiesFresh'
  <2> SUFFICES ASSUME NEW i \in 1..Len(batch')
               PROVE  /\ batch'[i].ID \in DOMAIN jobs'
                           => jobs'[batch'[i].ID].AttemptCount = batch'[i].AttemptCount
                      /\ batch'[i].AttemptCount <= Len(Delays[batch'[i].ID])
    BY DEF CopiesFresh
  <2>1. /\ batch'[i].ID \in DOMAIN jobs
             => jobs[batch'[i].ID].AttemptCount = batch'[i].AttemptCount
        /\ batch'[i].AttemptCount <= Len(Delays[batch'[i].ID])
    BY <1>1 DEF IInv, CopiesFresh
  <2>2. QED
    BY <1>3, <2>1
<1>7. CopyCounts'
  <2>1. ASSUME NEW i \in 1..Len(batch')
        PROVE  /\ pc' = "deliver"
               /\ batch'[i].AttemptCount <= attempts[batch'[i].ID]
               /\ attempts[batch'[i].ID] <= batch'[i].AttemptCount + faults' + crashes + 0
    <3>1. batch' \in Seq(Copy)
      BY Types, AdvanceFacts
    <3>2. batch' # <<>>
      BY <1>1, <3>1, EmptySeq
    <3>3. /\ batch'[i].AttemptCount <= attempts[batch'[i].ID]
          /\ attempts[batch'[i].ID] <= batch'[i].AttemptCount + faults + crashes + 0
      BY <1>1, <1>3 DEF IInv, CopyCounts
    <3>4. batch'[i].AttemptCount \in Nat /\ attempts[batch'[i].ID] \in Nat
          /\ crashes \in Nat /\ faults \in Nat
      BY <1>1, Types
    <3>5. QED
      BY <1>1, <3>2, <3>3, <3>4
  <2>2. QED
    BY <2>1 DEF CopyCounts
<1>8. QED
  BY <1>4, <1>5, <1>6, <1>7

\* The current copy, in the form the steps that end with it use.
LEMMA CurrentFacts ==
  ASSUME IInv, pc # "poll"
  PROVE  /\ batch \in Seq(Copy) /\ batch # <<>>
         /\ Current.ID \in JobID /\ Current.AttemptCount \in Nat
         /\ Current.ID \in enqueued
         /\ pc # "redrive" => Current.ID \in DOMAIN jobs \cup withdrawn
         /\ Current.ID \in DOMAIN jobs => jobs[Current.ID].AttemptCount = Current.AttemptCount
         /\ pc # "deliver" => Current.AttemptCount < attempts[Current.ID]
         /\ pc # "deliver" => attempts[Current.ID] <= Current.AttemptCount + faults + crashes + 1
<1>1. batch \in Seq(Copy) /\ batch # <<>>
  BY Types DEF IInv, TypeOK
<1>2. 1 \in 1..Len(batch) /\ batch[1] = Current /\ Current \in Copy
  BY <1>1, CurrentCopy DEF Current
<1>3. QED
  BY <1>1, <1>2 DEF IInv, CopiesKnown, CopiesFresh, CopyCounts, Copy

\* A row keeps its counts when the worker goes on without changing it; the
\* failed operation, if there was one, accounts for the extra attempt.
LEMMA RestingCounts ==
  ASSUME IInv, NEW x \in DOMAIN jobs, faults' \in Nat,
         IF pc \in {"delete", "reschedule"} /\ Current.ID = x
         THEN faults' = faults + 1 ELSE faults <= faults'
  PROVE  /\ jobs[x].AttemptCount <= Len(Delays[x])
         /\ jobs[x].AttemptCount <= attempts[x]
         /\ attempts[x] <= jobs[x].AttemptCount + faults' + crashes + 0
<1>1. /\ jobs[x].AttemptCount \in Nat /\ attempts[x] \in Nat
      /\ faults \in Nat /\ crashes \in Nat
  BY Types
<1>2. /\ jobs[x].AttemptCount <= Len(Delays[x])
      /\ jobs[x].AttemptCount <= attempts[x]
      /\ attempts[x] <= jobs[x].AttemptCount + faults + crashes
                           + (IF pc \in {"delete", "reschedule"} /\ Current.ID = x
                              THEN 1 ELSE 0)
  BY DEF IInv, RowCounts
<1>3. QED
  BY <1>1, <1>2

\* The attempts stay bounded when none is made.
LEMMA RestingBound ==
  ASSUME IInv, UNCHANGED <<attempts, installs>>, faults' \in Nat, faults <= faults',
         crashes' \in Nat, crashes <= crashes'
  PROVE  AttemptsBounded'
<1> SUFFICES ASSUME NEW x \in JobID
             PROVE  attempts[x] <= (Len(Delays[x]) + 1) * (1 + installs) + faults' + crashes'
  BY DEF AttemptsBounded
<1>1. (Len(Delays[x]) + 1) * (1 + installs) = Len(Delays[x]) + 1
  BY Types, RetriesNat
<1>2. attempts[x] <= Len(Delays[x]) + 1 + faults + crashes
  BY <1>1 DEF IInv, AttemptsBounded
<1>3. QED
  BY <1>1, <1>2, Types, RetriesNat

\* The job that was being redriven has its dead letter.
LEMMA RedriveStep ==
  ASSUME StoreKind = "sqlite", IInv, Redrive
  PROVE  IInv'
<1>1. /\ pc = "redrive"
      /\ deadLetters' = [deadLetters EXCEPT ![Current.ID] = @ + 1]
      /\ Advance
      /\ UNCHANGED <<jobs, clock, clone, request, enqueued, attempts, last, delivered,
                     withdrawn, cut, faults, crashes, installs>>
  BY DEF Redrive
<1>2. batch \in Seq(Copy) /\ batch # <<>> /\ Current.ID \in JobID
  BY <1>1, CurrentFacts
<1>3. /\ batch' \in Seq(Copy) /\ pc' \in {"poll", "deliver"}
      /\ (pc' = "poll") = (batch' = <<>>)
  BY <1>1, <1>2, AdvanceFacts
<1>4. /\ deadLetters' \in [JobID -> Nat] /\ deadLetters'[Current.ID] > 0
      /\ \A x \in JobID : x # Current.ID => deadLetters'[x] = deadLetters[x]
  BY <1>1, <1>2, Types
<1>5. TypeOK'
  BY <1>1, <1>3, <1>4 DEF IInv, TypeOK, Copy
<1>6. SqliteOnly' /\ RowsKnown'
  BY <1>1, <1>3 DEF IInv, SqliteOnly, RowsKnown, WithdrawnStaysGone
<1>7. RowCounts'
  BY <1>1, <1>3, Types, RestingCounts DEF RowCounts
<1>8. CopiesDiffer' /\ CopiesKnown' /\ CopiesFresh' /\ CopyCounts'
  BY <1>1, <1>2, Types, AdvancedCopies
<1>9. Decided' /\ AttemptsBounded' /\ NeverAbandoned'
  BY <1>1, <1>3 DEF IInv, Decided, AttemptsBounded, NeverAbandoned
<1>10. DeadLettered'
  BY <1>1, <1>4, Types DEF IInv, DeadLettered
<1>11. QED
  BY <1>5, <1>6, <1>7, <1>8, <1>9, <1>10 DEF IInv

\* A row whose attempt is counted is a row.
LEMMA RowUpdate ==
  ASSUME NEW row \in JobRecord, NEW due \in Nat
  PROVE  LET row1 == [row EXCEPT !.AttemptCount = @ + 1, !.NextAttemptAt = due] IN
         row1 \in JobRecord /\ row1.AttemptCount = row.AttemptCount + 1
<1> DEFINE counted == [row EXCEPT !.AttemptCount = row.AttemptCount + 1]
           row1 == [row EXCEPT !.AttemptCount = @ + 1, !.NextAttemptAt = due]
<1>1. counted \in JobRecord /\ counted.AttemptCount = row.AttemptCount + 1
  BY DEF JobRecord
<1>2. row1 = [counted EXCEPT !.NextAttemptAt = due]
  BY Zenon
<1> HIDE DEF counted, row1
<1>3. row1 \in JobRecord /\ row1.AttemptCount = counted.AttemptCount
  BY <1>1, <1>2 DEF JobRecord
<1>4. QED
  BY <1>1, <1>3 DEF row1

\* Rescheduling counts the attempt in the row, if the row is still there, and
\* never brings it back.
LEMMA RescheduleStep ==
  ASSUME StoreKind = "sqlite", IInv, Reschedule
  PROVE  IInv'
<1> DEFINE id == Current.ID
           n == Current.AttemptCount
<1>1. /\ pc = "reschedule"
      /\ jobs' = IF id \in DOMAIN jobs THEN Put(jobs, id, Rescheduled(jobs[id])) ELSE jobs
      /\ Advance
      /\ UNCHANGED <<clock, clone, request, enqueued, attempts, last, delivered,
                     deadLetters, withdrawn, cut, faults, crashes, installs>>
  BY DEF Reschedule, history
<1>2. /\ batch \in Seq(Copy) /\ batch # <<>> /\ id \in JobID /\ n \in Nat
      /\ n < Len(Delays[id]) /\ n < attempts[id]
      /\ attempts[id] <= n + faults + crashes + 1
      /\ id \in DOMAIN jobs => jobs[id].AttemptCount = n
  BY <1>1, CurrentFacts DEF IInv, TypeOK
<1>3. /\ batch' \in Seq(Copy) /\ pc' \in {"poll", "deliver"}
      /\ (pc' = "poll") = (batch' = <<>>)
  BY <1>1, <1>2, AdvanceFacts
<1>4. ASSUME id \in DOMAIN jobs
      PROVE  /\ Rescheduled(jobs[id]) \in JobRecord
             /\ Rescheduled(jobs[id]).AttemptCount = n + 1
  <2>1. jobs[id] \in JobRecord
    BY <1>4, Types, TableFacts
  <2>2. Delays[id][n + 1] \in Nat
    BY <1>2, DelaysAssumption
  <2>3. clock + Delays[id][n + 1] \in Nat
    BY <2>2, Types
  <2>4. Rescheduled(jobs[id]) = [jobs[id] EXCEPT !.AttemptCount = @ + 1,
                                   !.NextAttemptAt = clock + Delays[id][n + 1]]
    BY DEF Rescheduled
  <2>5. \A row \in JobRecord, due \in Nat :
          LET row1 == [row EXCEPT !.AttemptCount = @ + 1, !.NextAttemptAt = due] IN
          row1 \in JobRecord /\ row1.AttemptCount = row.AttemptCount + 1
    BY RowUpdate
  <2> HIDE DEF id, n
  <2>6. QED
    BY <1>2, <1>4, <2>1, <2>3, <2>4, <2>5
<1> HIDE DEF id, n
<1>5. /\ DOMAIN jobs' = DOMAIN jobs
      /\ \A x \in DOMAIN jobs \ {id} : x \in DOMAIN jobs' /\ jobs'[x] = jobs[x]
      /\ id \in DOMAIN jobs => jobs'[id].AttemptCount = n + 1
  BY <1>1, <1>4 DEF Put
<1>6. IsJobTable(jobs')
  BY <1>1, <1>2, <1>4, Types, PutTable
<1>7. TypeOK'
  BY <1>1, <1>3, <1>6 DEF IInv, TypeOK, Copy
<1>8. SqliteOnly' /\ RowsKnown'
  BY <1>1, <1>3, <1>5 DEF IInv, SqliteOnly, RowsKnown, WithdrawnStaysGone
<1>9. RowCounts'
  <2>1. ASSUME NEW x \in DOMAIN jobs
        PROVE  /\ jobs'[x].AttemptCount <= Len(Delays[x])
               /\ jobs'[x].AttemptCount <= attempts[x]
               /\ attempts[x] <= jobs'[x].AttemptCount + faults + crashes + 0
    <3>1. CASE x = id
      BY <1>2, <1>5, <3>1, Types, RetriesNat
    <3>2. CASE x # id
      BY <1>1, <1>5, <3>2, Types, RestingCounts DEF id
    <3>3. QED
      BY <3>1, <3>2
  <2>2. QED
    BY <1>1, <1>3, <1>5, <2>1 DEF RowCounts
<1>10. CopiesDiffer' /\ CopiesKnown' /\ CopiesFresh' /\ CopyCounts'
  BY <1>1, <1>2, <1>5, Types, AdvancedCopies DEF id
<1>11. Decided' /\ AttemptsBounded'
  BY <1>1, <1>3 DEF IInv, Decided, AttemptsBounded
<1>12. NeverAbandoned' /\ DeadLettered'
  BY <1>1, <1>5 DEF IInv, NeverAbandoned, DeadLettered
<1>13. QED
  BY <1>7, <1>8, <1>9, <1>10, <1>11, <1>12 DEF IInv

\* A failed update leaves an attempt that the row does not count.
LEMMA FailRescheduleStep ==
  ASSUME StoreKind = "sqlite", IInv, FailReschedule
  PROVE  IInv'
<1>1. /\ pc = "reschedule"
      /\ faults < MaxFaults /\ faults' = faults + 1
      /\ Advance
      /\ UNCHANGED <<jobs, clock, clone, request, enqueued, attempts, last, delivered,
                     deadLetters, withdrawn, cut, crashes, installs>>
  BY DEF FailReschedule, history
<1>2. batch # <<>>
  BY <1>1, CurrentFacts
<1>3. /\ batch' \in Seq(Copy) /\ pc' \in {"poll", "deliver"}
      /\ (pc' = "poll") = (batch' = <<>>)
  BY <1>1, <1>2, Types, AdvanceFacts
<1>4. faults' \in Nat /\ faults <= faults' /\ faults' \in 0..MaxFaults
  BY <1>1, Types, BoundsAssumption
<1>5. TypeOK'
  BY <1>1, <1>3, <1>4 DEF IInv, TypeOK, Copy
<1>6. SqliteOnly' /\ RowsKnown'
  BY <1>1, <1>3 DEF IInv, SqliteOnly, RowsKnown, WithdrawnStaysGone
<1>7. RowCounts'
  <2>1. ASSUME NEW x \in DOMAIN jobs
        PROVE  /\ jobs[x].AttemptCount <= Len(Delays[x])
               /\ jobs[x].AttemptCount <= attempts[x]
               /\ attempts[x] <= jobs[x].AttemptCount + faults' + crashes + 0
    BY <1>1, <1>4, RestingCounts
  <2>2. QED
    BY <1>1, <1>3, <2>1 DEF RowCounts
<1>8. CopiesDiffer' /\ CopiesKnown' /\ CopiesFresh' /\ CopyCounts'
  BY <1>1, <1>2, <1>4, AdvancedCopies
<1>9. Decided' /\ NeverAbandoned' /\ DeadLettered'
  BY <1>1, <1>3 DEF IInv, Decided, NeverAbandoned, DeadLettered
<1>10. AttemptsBounded'
  BY <1>1, <1>4, Types, RestingBound
<1>11. QED
  BY <1>5, <1>6, <1>7, <1>8, <1>9, <1>10 DEF IInv

\* Deleting a job, or failing to: what leaves the table was settled, and what
\* was not delivered is redriven next.
LEMMA DeleteStep ==
  ASSUME StoreKind = "sqlite", IInv, Delete
  PROVE  IInv'
<1> DEFINE id == Current.ID
<1>1. /\ pc = "delete"
      /\ \/ jobs' = Drop(jobs, {id}) /\ faults' = faults
         \/ jobs' = jobs /\ faults < MaxFaults /\ faults' = faults + 1
      /\ IF MustRedrive(id) THEN pc' = "redrive" /\ batch' = batch ELSE Advance
      /\ UNCHANGED <<clock, clone, request, enqueued, attempts, last, delivered,
                     deadLetters, withdrawn, cut, crashes, installs>>
  BY DEF Delete, history
<1>2. /\ batch \in Seq(Copy) /\ batch # <<>> /\ id \in JobID
      /\ Current.AttemptCount \in Nat
      /\ Current.AttemptCount < attempts[id]
      /\ attempts[id] <= Current.AttemptCount + faults + crashes + 1
  BY <1>1, CurrentFacts
<1>3. last[id] \in {"success", "refused"} \/ attempts[id] > Len(Delays[id])
  BY <1>1, <1>2, Types, RetriesNat DEF IInv, Decided, Exhausted
<1>4. /\ DOMAIN jobs' \subseteq DOMAIN jobs
      /\ \A x \in DOMAIN jobs \ {id} : x \in DOMAIN jobs'
      /\ \A x \in DOMAIN jobs' : jobs'[x] = jobs[x]
      /\ id \in DOMAIN jobs' => faults' = faults + 1
  BY <1>1 DEF Drop, Restrict
<1>5. IsJobTable(jobs')
  BY <1>1, Types, DropTable
<1>6. faults' \in Nat /\ faults <= faults' /\ faults' \in 0..MaxFaults
  BY <1>1, Types, BoundsAssumption DEF IInv, TypeOK
<1>7. /\ batch' \in Seq(Copy) /\ pc' \in {"poll", "deliver", "redrive"}
      /\ (pc' = "poll") = (batch' = <<>>)
  BY <1>1, <1>2, AdvanceFacts
<1> HIDE DEF id
<1>8. TypeOK'
  BY <1>1, <1>5, <1>6, <1>7 DEF IInv, TypeOK, Copy
<1>9. SqliteOnly'
  BY <1>1, <1>7 DEF IInv, SqliteOnly
<1>10. RowsKnown'
  <2>1. IsFiniteSet(DOMAIN jobs')
    BY <1>4, FS_Subset DEF IInv, RowsKnown
  <2>2. QED
    BY <1>1, <1>4, <2>1 DEF IInv, RowsKnown, WithdrawnStaysGone
<1>11. RowCounts'
  <2>1. ASSUME NEW x \in DOMAIN jobs'
        PROVE  /\ jobs[x].AttemptCount <= Len(Delays[x])
               /\ jobs[x].AttemptCount <= attempts[x]
               /\ attempts[x] <= jobs[x].AttemptCount + faults' + crashes + 0
    BY <1>1, <1>4, <1>6, RestingCounts DEF id
  <2>2. QED
    BY <1>1, <1>4, <1>7, <2>1 DEF RowCounts
<1>12. CopiesDiffer' /\ CopiesKnown' /\ CopiesFresh' /\ CopyCounts'
  <2>1. CASE ~MustRedrive(id)
    BY <1>1, <1>2, <1>4, <1>6, <2>1, AdvancedCopies DEF id
  <2>2. CASE MustRedrive(id)
    <3>1. pc' = "redrive" /\ batch' = batch
      BY <1>1, <2>2
    <3>2. 1 \in 1..Len(batch) /\ batch[1].ID = id
      BY <1>2, CurrentCopy DEF id, Current
    <3>3. CopiesDiffer'
      BY <3>1 DEF IInv, CopiesDiffer
    <3>4. \A i \in 1..Len(batch) : i # 1 => batch[i].ID # id
      BY <3>2 DEF IInv, CopiesDiffer
    <3>5. CopiesKnown'
      BY <1>1, <1>4, <3>1, <3>4 DEF IInv, CopiesKnown
    <3>6. CopiesFresh'
      BY <1>4, <3>1 DEF IInv, CopiesFresh
    <3>7. CopyCounts'
      <4>1. ASSUME NEW i \in 1..Len(batch)
            PROVE  /\ batch[i].AttemptCount <= attempts[batch[i].ID]
                   /\ i = 1 => batch[i].AttemptCount < attempts[batch[i].ID]
                   /\ attempts[batch[i].ID] <= batch[i].AttemptCount + faults' + crashes
                                                  + (IF i = 1 THEN 1 ELSE 0)
        <5>1. /\ batch[i].AttemptCount <= attempts[batch[i].ID]
              /\ i = 1 => batch[i].AttemptCount < attempts[batch[i].ID]
              /\ attempts[batch[i].ID] <= batch[i].AttemptCount + faults + crashes
                                             + (IF i = 1 THEN 1 ELSE 0)
          BY <1>1 DEF IInv, CopyCounts
        <5>2. /\ batch[i].AttemptCount \in Nat /\ attempts[batch[i].ID] \in Nat
              /\ faults \in Nat /\ crashes \in Nat
          BY Types
        <5>3. QED
          BY <1>6, <5>1, <5>2
      <4>2. QED
        BY <1>1, <3>1, <4>1 DEF CopyCounts
    <3>8. QED
      BY <3>3, <3>5, <3>6, <3>7
  <2>3. QED
    BY <2>1, <2>2
<1>13. Decided'
  BY <1>1, <1>7 DEF IInv, Decided
<1>14. AttemptsBounded'
  BY <1>1, <1>6, Types, RestingBound
<1>15. NeverAbandoned'
  BY <1>1, <1>3, <1>4 DEF IInv, NeverAbandoned
<1>16. DeadLettered'
  <2>1. ASSUME NEW x \in (enqueued \ (DOMAIN jobs' \cup withdrawn)) \cap Notification \cap Redriven
        PROVE  \/ x \in delivered \/ x \in cut \/ deadLetters[x] > 0
               \/ pc' = "redrive" /\ Current'.ID = x
    <3>1. CASE x # id
      BY <1>1, <1>4, <3>1 DEF IInv, DeadLettered
    <3>2. CASE x = id /\ MustRedrive(id)
      BY <1>1, <3>2 DEF id, Current
    <3>3. CASE x = id /\ ~MustRedrive(id)
      BY <1>2, <3>3 DEF MustRedrive, IInv, Decided
    <3>4. QED
      BY <3>1, <3>2, <3>3
  <2>2. QED
    BY <1>1, <2>1 DEF DeadLettered
<1>17. QED
  BY <1>8, <1>9, <1>10, <1>11, <1>12, <1>13, <1>14, <1>15, <1>16 DEF IInv

-----------------------------------------------------------------------------
(***************************************************************************)
(* Time, crashes, and the specification.                                   *)
(***************************************************************************)
\* The service starts with an empty table.
LEMMA InitInv ==
  ASSUME Init
  PROVE  IInv
<1>1. DOMAIN jobs = {} /\ IsJobTable(jobs) /\ IsJobTable(clone)
  BY EmptyTable DEF Init
<1>2. Len(batch) = 0 /\ Len(request) = 0 /\ Range(request) = {}
  BY DEF Init, Range
<1>3. batch \in Seq(Copy) /\ request = <<>> /\ batch = <<>>
  BY DEF Init
<1>4. TypeOK
  BY <1>1, <1>2, <1>3, BoundsAssumption DEF Init, TypeOK, Copy
<1>5. SqliteOnly
  BY DEF Init, SqliteOnly
<1>6. RowsKnown /\ RowCounts
  BY <1>1, FS_EmptySet DEF Init, RowsKnown, RowCounts, WithdrawnStaysGone
<1>7. CopiesDiffer /\ CopiesKnown /\ CopiesFresh /\ CopyCounts
  BY <1>2 DEF CopiesDiffer, CopiesKnown, CopiesFresh, CopyCounts
<1>8. Decided /\ NeverAbandoned /\ DeadLettered
  BY DEF Init, Decided, NeverAbandoned, DeadLettered
<1>9. AttemptsBounded
  <2> SUFFICES ASSUME NEW x \in JobID
               PROVE  0 <= (Len(Delays[x]) + 1) * (1 + 0) + 0 + 0
    BY DEF Init, AttemptsBounded
  <2>1. QED
    BY RetriesNat
<1>10. QED
  BY <1>4, <1>5, <1>6, <1>7, <1>8, <1>9 DEF IInv

\* Time changes no job.
LEMMA TickStep ==
  ASSUME IInv, Tick
  PROVE  IInv'
<1>1. /\ clock' \in Nat
      /\ UNCHANGED <<jobs, pc, batch, clone, request, enqueued, attempts, last, delivered,
                     deadLetters, withdrawn, cut, faults, crashes, installs>>
  BY Types DEF Tick, worker, history
<1>2. TypeOK' /\ SqliteOnly' /\ RowsKnown' /\ RowCounts'
  BY <1>1 DEF IInv, TypeOK, SqliteOnly, RowsKnown, RowCounts, WithdrawnStaysGone, Current
<1>3. CopiesDiffer' /\ CopiesKnown' /\ CopiesFresh' /\ CopyCounts'
  BY <1>1 DEF IInv, CopiesDiffer, CopiesKnown, CopiesFresh, CopyCounts
<1>4. Decided' /\ AttemptsBounded' /\ NeverAbandoned' /\ DeadLettered'
  BY <1>1 DEF IInv, Decided, AttemptsBounded, NeverAbandoned, DeadLettered, Exhausted, Current
<1>5. QED
  BY <1>2, <1>3, <1>4 DEF IInv

\* Steps that change nothing.
LEMMA StutterStep ==
  ASSUME IInv, UNCHANGED vars
  PROVE  IInv'
<1>1. UNCHANGED <<jobs, clock, pc, batch, clone, request, enqueued, attempts, last, delivered,
                  deadLetters, withdrawn, cut, faults, crashes, installs>>
  BY DEF vars, worker, history
<1>2. TypeOK' /\ SqliteOnly' /\ RowsKnown' /\ RowCounts'
  BY <1>1 DEF IInv, TypeOK, SqliteOnly, RowsKnown, RowCounts, WithdrawnStaysGone, Current
<1>3. CopiesDiffer' /\ CopiesKnown' /\ CopiesFresh' /\ CopyCounts'
  BY <1>1 DEF IInv, CopiesDiffer, CopiesKnown, CopiesFresh, CopyCounts
<1>4. Decided' /\ AttemptsBounded' /\ NeverAbandoned' /\ DeadLettered'
  BY <1>1 DEF IInv, Decided, AttemptsBounded, NeverAbandoned, DeadLettered, Exhausted, Current
<1>5. QED
  BY <1>2, <1>3, <1>4 DEF IInv

\* A crash loses the copies, an attempt that was not yet counted, and a
\* redrive that was due.
LEMMA CrashStep ==
  ASSUME StoreKind = "sqlite", IInv, Crash
  PROVE  IInv'
<1>1. /\ crashes < MaxCrashes /\ crashes' = crashes + 1
      /\ pc' = "poll" /\ batch' = <<>> /\ clone' = EmptyMap /\ request' = <<>>
      /\ cut' = IF pc = "redrive" THEN cut \cup {Current.ID} ELSE cut
      /\ UNCHANGED <<jobs, clock, enqueued, attempts, last, delivered, deadLetters,
                     withdrawn, faults, installs>>
  BY DEF Crash
<1>2. crashes' \in Nat /\ crashes <= crashes' /\ crashes' \in 0..MaxCrashes
  BY <1>1, Types, BoundsAssumption
<1>3. cut' \subseteq JobID
  BY <1>1, CurrentFacts DEF IInv, TypeOK
<1>4. Len(batch') = 0 /\ batch' \in Seq(Copy)
  BY <1>1
<1>5. TypeOK'
  <2>1. IsJobTable(clone') /\ Len(request') <= 1 /\ Range(request') = {}
    BY <1>1, EmptyTable DEF Range
  <2>2. QED
    BY <1>1, <1>2, <1>3, <1>4, <2>1 DEF IInv, TypeOK, Copy
<1>6. SqliteOnly' /\ RowsKnown'
  BY <1>1 DEF IInv, SqliteOnly, RowsKnown, WithdrawnStaysGone
<1>7. RowCounts'
  <2>1. ASSUME NEW x \in DOMAIN jobs
        PROVE  /\ jobs[x].AttemptCount <= Len(Delays[x])
               /\ jobs[x].AttemptCount <= attempts[x]
               /\ attempts[x] <= jobs[x].AttemptCount + faults + crashes' + 0
    <3>1. /\ jobs[x].AttemptCount <= Len(Delays[x])
          /\ jobs[x].AttemptCount <= attempts[x]
          /\ attempts[x] <= jobs[x].AttemptCount + faults + crashes
                               + (IF pc \in {"delete", "reschedule"} /\ Current.ID = x
                                  THEN 1 ELSE 0)
      BY DEF IInv, RowCounts
    <3>2. jobs[x].AttemptCount \in Nat /\ attempts[x] \in Nat
          /\ faults \in Nat /\ crashes \in Nat
      BY Types
    <3>3. QED
      BY <1>1, <3>1, <3>2
  <2>2. QED
    BY <1>1, <2>1 DEF RowCounts
<1>8. CopiesDiffer' /\ CopiesKnown' /\ CopiesFresh' /\ CopyCounts'
  BY <1>4 DEF CopiesDiffer, CopiesKnown, CopiesFresh, CopyCounts
<1>9. Decided' /\ NeverAbandoned'
  BY <1>1 DEF IInv, Decided, NeverAbandoned
<1>10. AttemptsBounded'
  BY <1>1, <1>2, Types, RestingBound
<1>11. DeadLettered'
  BY <1>1 DEF IInv, DeadLettered
<1>12. QED
  BY <1>5, <1>6, <1>7, <1>8, <1>9, <1>10, <1>11 DEF IInv

\* Every step keeps the invariant.
LEMMA NextInv ==
  ASSUME StoreKind = "sqlite", IInv, [Next]_vars
  PROVE  IInv'
<1>1. ASSUME NEW id \in JobID, Enqueue(id)
      PROVE  IInv'
  BY <1>1, EnqueueStep
<1>2. ASSUME NEW t \in Range(TopicOf), DeleteTopicJobs(t)
      PROVE  IInv'
  BY <1>2, DeleteTopicStep
<1>3. ASSUME NEW result \in Results, Deliver(result)
      PROVE  IInv'
  BY <1>3, DeliverStep
<1>4. ~BeginRequest /\ ~CommitOther /\ ~BeginReschedule /\ ~InstallReschedule
  BY DEF BeginRequest, CommitOther, BeginReschedule, InstallReschedule, IInv, SqliteOnly
<1>5. CASE WorkerStep
  BY <1>3, <1>4, <1>5, PollStep, DeleteStep, RedriveStep, RescheduleStep, FailRescheduleStep
     DEF WorkerStep, Results
<1>6. QED
  BY <1>1, <1>2, <1>4, <1>5, TickStep, CrashStep, StutterStep DEF Next

\* The invariant holds throughout, over SQLite.
LEMMA WorkerInvariant ==
  ASSUME StoreKind = "sqlite"
  PROVE  Spec => []IInv
<1>1. Init => IInv
  BY InitInv
<1>2. IInv /\ [Next]_vars => IInv'
  BY NextInv
<1>3. QED
  BY <1>1, <1>2, PTL DEF Spec

\* A committed job leaves the table only when it was accepted, refused for
\* good or tried as often as its policy says, or its topic was deleted.
THEOREM JobsNeverAbandoned ==
  ASSUME StoreKind = "sqlite"
  PROVE  Spec => []NeverAbandoned
<1>1. IInv => NeverAbandoned
  BY DEF IInv
<1>2. QED
  BY <1>1, WorkerInvariant, PTL

\* An undelivered notification with a redrive policy is sent to the dead
\* letter queue, unless a crash separates the deletion from the redrive.
THEOREM DeadLettersSent ==
  ASSUME StoreKind = "sqlite"
  PROVE  Spec => []DeadLettered
<1>1. IInv => DeadLettered
  BY DEF IInv
<1>2. QED
  BY <1>1, WorkerInvariant, PTL

\* The jobs of a deleted topic never come back.
THEOREM WithdrawnJobsStayGone ==
  ASSUME StoreKind = "sqlite"
  PROVE  Spec => []WithdrawnStaysGone
<1>1. IInv => WithdrawnStaysGone
  BY DEF IInv, RowsKnown
<1>2. QED
  BY <1>1, WorkerInvariant, PTL

-----------------------------------------------------------------------------
(***************************************************************************)
(* Dead letters.  The worker may still send one for the jobs that are open *)
(* to it: those with a row, and those it holds a copy of.                  *)
(***************************************************************************)
Copied == { batch[i].ID : i \in 1..Len(batch) }
Open == DOMAIN jobs \cup Copied
Redriving(id) == pc = "redrive" /\ Current.ID = id

\* A job that is open has a dead letter only for deletions that failed; one
\* under redrive that has kept its row has just seen one of them fail.
Letters ==
  \A id \in JobID :
    /\ deadLetters[id] <= 1 + faults
    /\ deadLetters[id] > 0 => id \in enqueued /\ id \in Notification \cap Redriven
    /\ id \in Open => deadLetters[id] <= faults
    /\ Redriving(id) => id \in Notification \cap Redriven
    /\ Redriving(id) /\ id \in DOMAIN jobs => deadLetters[id] < faults

\* Without a failure a job that was delivered is deleted next, and is closed.
Served ==
  /\ delivered \subseteq enqueued
  /\ faults + crashes = 0 =>
       \A id \in delivered :
         /\ deadLetters[id] = 0
         /\ \/ pc = "delete" /\ Current.ID = id /\ last[id] = "success"
            \/ id \notin Open

\* The copies the worker has left are open, its current one too.
LEMMA CurrentOpen ==
  ASSUME IInv, pc # "poll"
  PROVE  Current.ID \in Copied /\ Current.ID \in Open /\ Current.ID \in JobID
<1>1. batch \in Seq(Copy) /\ batch # <<>> /\ Current.ID \in JobID
  BY CurrentFacts
<1>2. 1 \in 1..Len(batch) /\ batch[1].ID = Current.ID
  BY <1>1, CurrentCopy DEF Current
<1>3. QED
  BY <1>1, <1>2 DEF Copied, Open

\* Going on to the next copy closes the current one, but for its row.
LEMMA AdvancedOpen ==
  ASSUME IInv, pc # "poll", Advance
  PROVE  Copied' \subseteq Copied \ {Current.ID}
<1>1. batch \in Seq(Copy) /\ batch # <<>>
  BY CurrentFacts
<1>2. \A i \in 1..Len(batch') : batch'[i] = batch[i + 1] /\ i + 1 \in 1..Len(batch) /\ i + 1 # 1
  BY <1>1, AdvanceFacts
<1>3. 1 \in 1..Len(batch) /\ batch[1].ID = Current.ID
  BY <1>1, CurrentCopy DEF Current
<1>4. \A i \in 1..Len(batch') : batch'[i].ID \in Copied /\ batch'[i].ID # Current.ID
  BY <1>2, <1>3 DEF IInv, CopiesDiffer, Copied
<1>5. QED
  BY <1>4 DEF Copied

\* Jobs the worker does not know of were never posted nor redriven.
LEMMA OpenEnqueued ==
  ASSUME IInv
  PROVE  Open \subseteq enqueued /\ enqueued \subseteq JobID
BY DEF IInv, TypeOK, RowsKnown, CopiesKnown, Open, Copied

\* Failures and crashes are never taken back.
LEMMA FailuresCount ==
  ASSUME NEW f \in Nat, NEW k \in Nat, NEW g \in Nat, NEW l \in Nat, f <= g, k <= l
  PROVE  /\ g + l = 0 => f + k = 0 /\ ~(g + l > 0)
         /\ g = f + 1 => g + l > 0
OBVIOUS

\* Steps that send nothing, deliver nothing and open no job.
LEMMA QuietStep ==
  ASSUME IInv, Letters, Served, Open' \subseteq Open,
         UNCHANGED <<deadLetters, delivered, last>>, enqueued \subseteq enqueued',
         faults' \in Nat, crashes' \in Nat, faults <= faults', crashes <= crashes',
         \A id \in JobID :
           Redriving(id)' => Redriving(id) /\ (id \in DOMAIN jobs' => id \in DOMAIN jobs),
         pc # "delete" \/ (pc' = "delete" /\ Current' = Current)
           \/ faults' + crashes' > 0 \/ Current.ID \notin Open'
  PROVE  Letters' /\ Served'
<1>1. faults \in Nat /\ crashes \in Nat /\ deadLetters \in [JobID -> Nat]
      /\ delivered \subseteq JobID
  BY Types DEF IInv, TypeOK
<1>2. Letters'
  BY <1>1 DEF Letters
<1>3. ASSUME faults' + crashes' = 0, NEW id \in delivered
      PROVE  /\ deadLetters'[id] = 0
             /\ \/ pc' = "delete" /\ Current'.ID = id /\ last'[id] = "success"
                \/ id \notin Open'
  <2>1. faults + crashes = 0 /\ ~(faults' + crashes' > 0)
    BY <1>1, <1>3, FailuresCount
  <2>2. /\ deadLetters[id] = 0
        /\ \/ pc = "delete" /\ Current.ID = id /\ last[id] = "success"
           \/ id \notin Open
    BY <2>1 DEF Served
  <2>3. QED
    BY <2>1, <2>2
<1>4. Served'
  BY <1>3 DEF Served
<1>5. QED
  BY <1>2, <1>4

\* A dead letter is sent for the current copy, which is then closed unless its
\* deletion failed.
LEMMA RedriveLetters ==
  ASSUME IInv, Letters, Served, Redrive
  PROVE  Letters' /\ Served'
<1> DEFINE c == Current.ID
<1>1. /\ pc = "redrive"
      /\ deadLetters' = [deadLetters EXCEPT ![c] = @ + 1]
      /\ Advance
      /\ UNCHANGED <<jobs, enqueued, last, delivered, faults, crashes>>
  BY DEF Redrive
<1>2. /\ c \in JobID /\ c \in Open /\ c \in enqueued
      /\ Copied' \subseteq Copied \ {c}
      /\ pc' \in {"poll", "deliver"}
  BY <1>1, CurrentOpen, OpenEnqueued, AdvancedOpen, CurrentFacts, AdvanceFacts
<1>3. faults \in Nat /\ crashes \in Nat /\ deadLetters \in [JobID -> Nat]
      /\ delivered \subseteq JobID
  BY Types DEF IInv, TypeOK
<1>4. /\ deadLetters[c] <= faults /\ c \in Notification \cap Redriven
      /\ c \in DOMAIN jobs => deadLetters[c] < faults
  BY <1>1, <1>2 DEF Letters, Redriving
<1>5. Open' \subseteq Open /\ (c \in Open' => c \in DOMAIN jobs)
  BY <1>1, <1>2 DEF Open
<1>6. \A id \in JobID : ~Redriving(id)'
  BY <1>2 DEF Redriving
<1>7. c \in delivered => faults + crashes > 0
  BY <1>1, <1>2, <1>3 DEF Served
<1> HIDE DEF c
<1>8. /\ deadLetters'[c] = deadLetters[c] + 1
      /\ \A id \in JobID : id # c => deadLetters'[id] = deadLetters[id]
  BY <1>1, <1>2, <1>3
<1>9. Letters'
  <2> SUFFICES ASSUME NEW id \in JobID
               PROVE  /\ deadLetters'[id] <= 1 + faults
                      /\ deadLetters'[id] > 0
                           => id \in enqueued /\ id \in Notification \cap Redriven
                      /\ id \in Open' => deadLetters'[id] <= faults
    BY <1>1, <1>6 DEF Letters
  <2>1. CASE id = c
    BY <1>2, <1>3, <1>4, <1>5, <1>8, <2>1
  <2>2. CASE id # c
    BY <1>5, <1>8, <2>2 DEF Letters
  <2>3. QED
    BY <2>1, <2>2
<1>10. Served'
  <2>1. ASSUME faults + crashes = 0, NEW id \in delivered
        PROVE  deadLetters'[id] = 0 /\ id \notin Open'
    BY <1>1, <1>3, <1>5, <1>7, <1>8, <2>1 DEF Served
  <2>2. QED
    BY <1>1, <2>1 DEF Served
<1>11. QED
  BY <1>9, <1>10

\* A deletion that fails is what a later, second dead letter is charged to.
LEMMA DeleteLetters ==
  ASSUME IInv, Letters, Served, Delete
  PROVE  Letters' /\ Served'
<1> DEFINE c == Current.ID
<1>1. /\ pc = "delete"
      /\ \/ jobs' = Drop(jobs, {c}) /\ faults' = faults
         \/ jobs' = jobs /\ faults' = faults + 1
      /\ IF MustRedrive(c) THEN pc' = "redrive" /\ batch' = batch ELSE Advance
      /\ UNCHANGED <<enqueued, last, delivered, deadLetters, crashes>>
  BY DEF Delete, history
<1>2. c \in JobID /\ c \in Open
  BY <1>1, CurrentOpen
<1>3. faults \in Nat /\ crashes \in Nat /\ deadLetters \in [JobID -> Nat]
      /\ delivered \subseteq JobID
  BY Types DEF IInv, TypeOK
<1>4. /\ DOMAIN jobs' \subseteq DOMAIN jobs
      /\ c \in DOMAIN jobs' => faults' = faults + 1
      /\ faults' \in Nat /\ faults <= faults'
  BY <1>1, <1>3 DEF Drop, Restrict
<1>5. CASE MustRedrive(c)
  <2>1. pc' = "redrive" /\ Current' = Current /\ Copied' = Copied
    BY <1>1, <1>5 DEF Current, Copied
  <2>2. Open' \subseteq Open
    BY <1>4, <2>1 DEF Open
  <2>3. c \in Notification \cap Redriven /\ last[c] # "success"
    BY <1>5 DEF MustRedrive
  <2>4. \A id \in JobID : Redriving(id)' => id = c
    BY <2>1 DEF Redriving
  <2> HIDE DEF c
  <2>5. Letters'
    <3> SUFFICES ASSUME NEW id \in JobID
                 PROVE  /\ deadLetters[id] <= 1 + faults'
                        /\ deadLetters[id] > 0
                             => id \in enqueued /\ id \in Notification \cap Redriven
                        /\ id \in Open' => deadLetters[id] <= faults'
                        /\ id = c => id \in Notification \cap Redriven
                        /\ id = c /\ id \in DOMAIN jobs' => deadLetters[id] < faults'
      BY <1>1, <2>4 DEF Letters
    <3>1. /\ deadLetters[id] <= 1 + faults
          /\ deadLetters[id] > 0
               => id \in enqueued /\ id \in Notification \cap Redriven
          /\ id \in Open => deadLetters[id] <= faults
      BY DEF Letters
    <3>2. QED
      BY <1>2, <1>3, <1>4, <2>2, <2>3, <3>1
  <2>6. Served'
    <3>1. ASSUME faults' + crashes = 0, NEW id \in delivered
          PROVE  deadLetters[id] = 0 /\ id \notin Open'
      <4>1. faults + crashes = 0
        <5>1. /\ faults \in Nat /\ crashes \in Nat /\ faults' \in Nat /\ faults <= faults'
              /\ crashes <= crashes
          BY <1>3, <1>4
        <5>2. faults' + crashes = 0 => faults + crashes = 0
          BY <5>1, FailuresCount
        <5>3. QED
          BY <3>1, <5>2
      <4>2. QED
        BY <1>2, <2>2, <2>3, <4>1 DEF Served, c
    <3>2. QED
      BY <1>1, <3>1 DEF Served
  <2>7. QED
    BY <2>5, <2>6
<1>6. CASE ~MustRedrive(c)
  <2>1. Advance /\ batch \in Seq(Copy) /\ batch # <<>>
    BY <1>1, <1>6, CurrentFacts
  <2>2. Copied' \subseteq Copied \ {c} /\ pc' \in {"poll", "deliver"}
    BY <1>1, <2>1, AdvancedOpen, AdvanceFacts
  <2>3. Open' \subseteq Open /\ (c \in Open' => c \in DOMAIN jobs')
    BY <1>4, <2>2 DEF Open
  <2>4. faults' = faults + 1 => faults' + crashes > 0
    <3>1. crashes <= crashes
      BY <1>3
    <3>2. QED
      BY <1>3, <1>4, <3>1, FailuresCount
  <2>5. \A id \in JobID : ~Redriving(id)'
    BY <2>2 DEF Redriving
  <2>6. faults' + crashes' > 0 \/ Current.ID \notin Open'
    BY <1>1, <1>4, <2>3, <2>4
  <2>7. crashes' \in Nat /\ crashes <= crashes' /\ enqueued \subseteq enqueued'
    BY <1>1, <1>3
  <2>8. QED
    BY <1>1, <1>4, <2>3, <2>5, <2>6, <2>7, QuietStep
<1>7. QED
  BY <1>5, <1>6

\* A job that is delivered has no dead letter, and is deleted next.
LEMMA DeliverLetters ==
  ASSUME IInv, Letters, Served, NEW result \in Results, Deliver(result)
  PROVE  Letters' /\ Served'
<1> DEFINE c == Current.ID
<1>1. /\ pc = "deliver"
      /\ last' = [last EXCEPT ![c] = result]
      /\ delivered' = IF result = "success" THEN delivered \cup {c} ELSE delivered
      /\ pc' \in {"reschedule", "delete"}
      /\ result = "success" => pc' = "delete"
      /\ UNCHANGED <<jobs, batch, enqueued, deadLetters, faults, crashes>>
  BY DEF Deliver
<1>2. c \in JobID /\ c \in Open /\ c \in enqueued
  BY <1>1, CurrentOpen, OpenEnqueued
<1>3. Open' = Open /\ Current' = Current
  BY <1>1 DEF Open, Copied, Current
<1>4. faults \in Nat /\ crashes \in Nat /\ deadLetters \in [JobID -> Nat]
      /\ delivered \subseteq JobID /\ last \in [JobID -> Results \cup {"none"}]
  BY Types DEF IInv, TypeOK
<1>5. \A id \in JobID : ~Redriving(id)'
  BY <1>1 DEF Redriving
<1>6. Letters'
  BY <1>1, <1>3, <1>5 DEF Letters
<1>7. delivered' \subseteq enqueued'
  BY <1>1, <1>2 DEF Served
<1>8. ASSUME faults + crashes = 0, NEW id \in delivered'
      PROVE  /\ deadLetters[id] = 0
             /\ \/ pc' = "delete" /\ Current'.ID = id /\ last'[id] = "success"
                \/ id \notin Open'
  <2>1. CASE id \in delivered
    BY <1>1, <1>3, <1>8, <2>1 DEF Served
  <2>2. CASE id \notin delivered
    <3>1. id = c /\ result = "success"
      BY <1>1, <2>2
    <3>2. deadLetters[c] <= faults
      BY <1>2 DEF Letters
    <3>3. deadLetters[c] = 0
      BY <1>2, <1>4, <1>8, <3>2
    <3>4. last'[c] = "success"
      BY <1>1, <1>2, <1>4, <3>1
    <3>5. QED
      BY <1>1, <1>3, <3>1, <3>3, <3>4
  <2>3. QED
    BY <2>1, <2>2
<1>9. Served'
  BY <1>1, <1>7, <1>8 DEF Served
<1>10. QED
  BY <1>6, <1>9

\* A new job has no dead letter and was not delivered.
LEMMA EnqueueLetters ==
  ASSUME StoreKind = "sqlite", IInv, Letters, Served, NEW id \in JobID, Enqueue(id)
  PROVE  Letters' /\ Served'
<1>1. /\ id \notin enqueued
      /\ jobs' = Put(jobs, id, NewJob)
      /\ enqueued' = enqueued \cup {id}
      /\ UNCHANGED <<pc, batch, last, delivered, deadLetters, faults, crashes>>
  BY DEF Enqueue, EndRequest, RequestBase, worker
<1>2. DOMAIN jobs' = DOMAIN jobs \cup {id} /\ Current' = Current /\ Copied' = Copied
  BY <1>1 DEF Put, Current, Copied
<1>3. Open' = Open \cup {id} /\ id \notin Open
  BY <1>1, <1>2, OpenEnqueued DEF Open
<1>4. \A x \in JobID : (Redriving(x)' <=> Redriving(x)) /\ (Redriving(x) => x # id)
  BY <1>1, <1>2, <1>3, CurrentOpen DEF Redriving
<1>5. faults \in Nat /\ deadLetters \in [JobID -> Nat]
  BY Types DEF IInv, TypeOK
<1>6. deadLetters[id] = 0
  BY <1>1, <1>5 DEF Letters
<1>7. id \notin delivered
  BY <1>1 DEF Served
<1>8. Letters'
  <2> SUFFICES ASSUME NEW x \in JobID
               PROVE  /\ deadLetters[x] <= 1 + faults
                      /\ deadLetters[x] > 0
                           => x \in enqueued' /\ x \in Notification \cap Redriven
                      /\ x \in Open' => deadLetters[x] <= faults
                      /\ Redriving(x) => x \in Notification \cap Redriven
                      /\ Redriving(x) /\ x \in DOMAIN jobs' => deadLetters[x] < faults
    BY <1>1, <1>4 DEF Letters
  <2>1. /\ deadLetters[x] <= 1 + faults
        /\ deadLetters[x] > 0 => x \in enqueued /\ x \in Notification \cap Redriven
        /\ x \in Open => deadLetters[x] <= faults
        /\ Redriving(x) => x \in Notification \cap Redriven
        /\ Redriving(x) /\ x \in DOMAIN jobs => deadLetters[x] < faults
    BY DEF Letters
  <2>2. x = id => deadLetters[x] <= faults
    BY <1>5, <1>6
  <2>3. QED
    BY <1>1, <1>2, <1>3, <1>4, <2>1, <2>2
<1>9. Served'
  BY <1>1, <1>2, <1>3, <1>7 DEF Served
<1>10. QED
  BY <1>8, <1>9

\* The other steps neither send nor deliver, and open nothing.
LEMMA OtherLetters ==
  ASSUME StoreKind = "sqlite", IInv, Letters, Served,
         \/ \E t \in Range(TopicOf) : DeleteTopicJobs(t)
         \/ Poll \/ Reschedule \/ FailReschedule \/ Tick \/ Crash \/ UNCHANGED vars
  PROVE  Letters' /\ Served'
<1>1. /\ faults \in Nat /\ crashes \in Nat /\ faults <= faults /\ crashes <= crashes
      /\ faults + 1 \in Nat /\ crashes + 1 \in Nat
      /\ faults <= faults + 1 /\ crashes <= crashes + 1
      /\ faults + (crashes + 1) > 0
  BY Types
<1>2. ASSUME NEW t, DeleteTopicJobs(t)
      PROVE  Letters' /\ Served'
  <2>1. /\ jobs' = Drop(jobs, { id \in DOMAIN jobs : TopicOf[id] = t })
        /\ UNCHANGED <<pc, batch, enqueued, last, delivered, deadLetters, faults, crashes>>
    BY <1>2 DEF DeleteTopicJobs, EndRequest, RequestBase, worker
  <2>2. DOMAIN jobs' \subseteq DOMAIN jobs /\ Current' = Current /\ Copied' = Copied
    BY <2>1 DEF Drop, Restrict, Current, Copied
  <2>3. /\ Open' \subseteq Open
        /\ \A id \in JobID :
             Redriving(id)' => Redriving(id) /\ (id \in DOMAIN jobs' => id \in DOMAIN jobs)
    BY <2>1, <2>2 DEF Open, Redriving
  <2>4. QED
    BY <1>1, <2>1, <2>2, <2>3, QuietStep
<1>3. CASE Poll
  <2>1. PICK s \in SetToSeqs(Ready) : batch' = Copies(FirstOf(s))
    BY <1>3 DEF Poll
  <2>2. /\ pc = "poll" /\ pc' = "deliver" /\ Ready # {}
        /\ UNCHANGED <<jobs, enqueued, last, delivered, deadLetters, faults, crashes>>
    BY <1>3 DEF Poll, history
  <2>3. IsJobTable(jobs) /\ IsFiniteSet(DOMAIN jobs)
    BY Types DEF IInv, RowsKnown
  <2>4. \A i \in 1..Len(batch') : batch'[i].ID \in DOMAIN jobs
    BY <2>1, <2>2, <2>3, PollFacts
  <2>5. Open' \subseteq Open /\ \A id \in JobID : ~Redriving(id)'
    BY <2>2, <2>4 DEF Open, Copied, Redriving
  <2>6. QED
    BY <1>1, <2>2, <2>5, QuietStep
<1>4. CASE Reschedule \/ FailReschedule
  <2>1. /\ pc = "reschedule" /\ Advance /\ DOMAIN jobs' = DOMAIN jobs
        /\ faults' \in {faults, faults + 1}
        /\ UNCHANGED <<enqueued, last, delivered, deadLetters, crashes>>
    BY <1>4 DEF Reschedule, FailReschedule, history, Put
  <2>2. Copied' \subseteq Copied /\ pc' \in {"poll", "deliver"}
    BY <2>1, AdvancedOpen, CurrentFacts, AdvanceFacts
  <2>3. Open' \subseteq Open /\ \A id \in JobID : ~Redriving(id)'
    BY <2>1, <2>2 DEF Open, Redriving
  <2>4. QED
    BY <1>1, <2>1, <2>3, QuietStep
<1>5. CASE Tick \/ UNCHANGED vars
  <2>1. UNCHANGED <<jobs, pc, batch, enqueued, last, delivered, deadLetters, faults, crashes>>
    BY <1>5 DEF Tick, vars, worker, history
  <2>2. /\ Open' \subseteq Open /\ Current' = Current
        /\ \A id \in JobID :
             Redriving(id)' => Redriving(id) /\ (id \in DOMAIN jobs' => id \in DOMAIN jobs)
    BY <2>1 DEF Open, Copied, Current, Redriving
  <2>3. QED
    BY <1>1, <2>1, <2>2, QuietStep
<1>6. CASE Crash
  <2>1. /\ crashes' = crashes + 1 /\ jobs' = jobs /\ pc' = "poll" /\ batch' = <<>>
        /\ UNCHANGED <<enqueued, last, delivered, deadLetters, faults>>
    BY <1>6 DEF Crash
  <2>2. Open' \subseteq Open /\ \A id \in JobID : ~Redriving(id)'
    BY <2>1 DEF Open, Copied, Redriving
  <2>3. QED
    BY <1>1, <2>1, <2>2, QuietStep
<1>7. QED
  BY <1>2, <1>3, <1>4, <1>5, <1>6

\* Letters and Served hold throughout, over SQLite.
LEMMA LettersInvariant ==
  ASSUME StoreKind = "sqlite"
  PROVE  Spec => [](IInv /\ Letters /\ Served)
<1>1. Init => Letters /\ Served
  <2> SUFFICES ASSUME Init
               PROVE  Letters /\ Served
    OBVIOUS
  <2>1. /\ deadLetters = [id \in JobID |-> 0] /\ delivered = {} /\ faults = 0
        /\ pc = "poll"
    BY DEF Init
  <2>2. QED
    BY <2>1 DEF Letters, Served, Redriving
<1>2. IInv /\ Letters /\ Served /\ [Next]_vars => Letters' /\ Served'
  <2> SUFFICES ASSUME IInv, Letters, Served, [Next]_vars
               PROVE  Letters' /\ Served'
    OBVIOUS
  <2>1. ~BeginRequest /\ ~CommitOther /\ ~BeginReschedule /\ ~InstallReschedule
    BY DEF BeginRequest, CommitOther, BeginReschedule, InstallReschedule, IInv, SqliteOnly
  <2>2. CASE WorkerStep
    BY <2>1, <2>2, OtherLetters, DeliverLetters, DeleteLetters, RedriveLetters
       DEF WorkerStep, Results
  <2>3. QED
    BY <2>1, <2>2, EnqueueLetters, OtherLetters DEF Next
<1>3. QED
  BY <1>1, <1>2, WorkerInvariant, PTL DEF Spec

\* Only notifications with a redrive policy are redriven; each at most once
\* plus once for every failed store operation, however often the process
\* crashes; and without failure or crash never one that was delivered.
THEOREM DeadLettersOnce ==
  ASSUME StoreKind = "sqlite"
  PROVE  Spec => []DeadLetterOnce
<1>1. IInv /\ Letters /\ Served => DeadLetterOnce
  <2> SUFFICES ASSUME IInv, Letters, Served, NEW id \in JobID
               PROVE  /\ deadLetters[id] <= 1 + faults
                      /\ id \in delivered /\ deadLetters[id] > 0 => faults + crashes > 0
                      /\ deadLetters[id] > 0 => id \in Notification \cap Redriven
    BY DEF DeadLetterOnce
  <2>1. faults \in Nat /\ crashes \in Nat /\ deadLetters[id] \in Nat
    BY Types DEF IInv, TypeOK
  <2>2. faults + crashes = 0 \/ faults + crashes > 0
    BY <2>1
  <2>3. id \in delivered /\ faults + crashes = 0 => deadLetters[id] = 0
    BY DEF Served
  <2>4. QED
    BY <2>1, <2>2, <2>3 DEF Letters
<1>2. QED
  BY <1>1, LettersInvariant, PTL
-----------------------------------------------------------------------------
(***************************************************************************)
(* The worker over the in-memory store.  A clone that a request installs   *)
(* may bring back any row it once saw, so a row's count no longer says how *)
(* often its job was posted.  But no clone is ahead of the table it was    *)
(* made from, and every installation is worth one more round of attempts:  *)
(* what a row or a copy counts, and the rounds that installations granted, *)
(* pay for the posts that were made.                                       *)
(***************************************************************************)
Granted(id) == (Len(Delays[id]) + 1) * installs
Paid(id, n) == attempts[id] <= n + Granted(id)

Sound(m) ==
  /\ IsJobTable(m) /\ IsFiniteSet(DOMAIN m)
  /\ \A id \in DOMAIN m : m[id].AttemptCount <= Len(Delays[id])

\* m counts no more attempts of any job than n does.
NotAhead(m, n) ==
  \A id \in DOMAIN m \cap DOMAIN n : m[id].AttemptCount <= n[id].AttemptCount

Tables ==
  /\ Sound(jobs) /\ Sound(clone) /\ \A m \in Range(request) : Sound(m)
  /\ request # <<>> => installs < MaxInstalls

\* The worker has posted the job and not yet recorded it in the table.
Unrecorded(id) == pc \in {"delete", "reschedule", "install"} /\ Current.ID = id

RowsPaid ==
  \A id \in DOMAIN jobs : Paid(id, jobs[id].AttemptCount + IF Unrecorded(id) THEN 1 ELSE 0)
ClonePaid == pc = "install" => \A id \in DOMAIN clone : Paid(id, clone[id].AttemptCount)
CopiesPaid ==
  \A i \in 1..Len(batch) : i > 1 \/ pc = "deliver" => Paid(batch[i].ID, batch[i].AttemptCount)
RoundsPaid == \A id \in JobID : Paid(id, Len(Delays[id]) + 1)

\* No row is ahead of the worker's copy, so that a rescheduled row still has
\* a delay left.
RowsBehind ==
  \A i \in 1..Len(batch) :
    /\ batch[i].AttemptCount <= Len(Delays[batch[i].ID])
    /\ \A m \in {jobs} \cup Range(request) :
         batch[i].ID \in DOMAIN m => m[batch[i].ID].AttemptCount <= batch[i].AttemptCount
    /\ pc = "install" /\ i > 1 /\ batch[i].ID \in DOMAIN clone =>
         clone[batch[i].ID].AttemptCount <= batch[i].AttemptCount

ClonesBehind ==
  /\ \A m \in Range(request) : NotAhead(m, jobs)
  /\ pc = "install" => \A m \in {jobs} \cup Range(request) : NotAhead(m, clone)

MemoryInv ==
  /\ TypeOK /\ Tables /\ CopiesDiffer
  /\ RowsPaid /\ ClonePaid /\ CopiesPaid /\ RoundsPaid
  /\ RowsBehind /\ ClonesBehind

\* The types the steps below use, in one place.
LEMMA MemoryTypes ==
  ASSUME MemoryInv
  PROVE  /\ IsJobTable(jobs) /\ DOMAIN jobs \subseteq JobID
         /\ \A id \in DOMAIN jobs : jobs[id].AttemptCount \in Nat
         /\ IsJobTable(clone) /\ DOMAIN clone \subseteq JobID
         /\ \A id \in DOMAIN clone : clone[id].AttemptCount \in Nat
         /\ \A m \in Range(request) :
              /\ IsJobTable(m) /\ DOMAIN m \subseteq JobID
              /\ \A id \in DOMAIN m : m[id].AttemptCount \in Nat
         /\ batch \in Seq(Copy) /\ Len(batch) \in Nat
         /\ \A i \in 1..Len(batch) : batch[i].ID \in JobID /\ batch[i].AttemptCount \in Nat
         /\ attempts \in [JobID -> Nat] /\ last \in [JobID -> Results \cup {"none"}]
         /\ installs \in Nat /\ clock \in Nat
<1>1. /\ IsJobTable(jobs) /\ IsJobTable(clone) /\ \A m \in Range(request) : IsJobTable(m)
      /\ batch \in Seq(Copy)
      /\ attempts \in [JobID -> Nat] /\ last \in [JobID -> Results \cup {"none"}]
      /\ installs \in Nat /\ clock \in Nat
  BY BoundsAssumption DEF MemoryInv, TypeOK, Copy
<1>2. ASSUME NEW m, IsJobTable(m)
      PROVE  DOMAIN m \subseteq JobID /\ \A id \in DOMAIN m : m[id].AttemptCount \in Nat
  BY <1>2, TableFacts DEF JobRecord
<1>3. Len(batch) \in Nat /\ \A i \in 1..Len(batch) : batch[i] \in Copy
  BY <1>1
<1>4. \A i \in 1..Len(batch) : batch[i].ID \in JobID /\ batch[i].AttemptCount \in Nat
  BY <1>3 DEF Copy
<1>5. QED
  BY <1>1, <1>2, <1>3, <1>4

\* What installations grant: one round more for one more of them.
LEMMA GrantedFacts ==
  ASSUME installs \in Nat, NEW id \in JobID
  PROVE  /\ Len(Delays[id]) \in Nat /\ Granted(id) \in Nat
         /\ installs' = installs => Granted(id)' = Granted(id)
         /\ installs' = installs + 1 => Granted(id)' = Granted(id) + Len(Delays[id]) + 1
<1> DEFINE n == Len(Delays[id])
<1>1. n \in Nat
  BY RetriesNat
<1>2. Granted(id) = (n + 1) * installs /\ Granted(id)' = (n + 1) * installs'
  BY DEF Granted
<1> HIDE DEF n
<1>3. (n + 1) * installs \in Nat /\ (n + 1) * (installs + 1) = (n + 1) * installs + n + 1
  BY <1>1
<1>4. QED
  BY <1>1, <1>2, <1>3 DEF n

\* What was paid stays paid while nothing is posted.
LEMMA StillPaid ==
  ASSUME MemoryInv, attempts' = attempts, installs' \in {installs, installs + 1},
         NEW id \in JobID, NEW n \in Nat, Paid(id, n)
  PROVE  attempts'[id] <= n + Granted(id)'
<1>1. installs \in Nat /\ attempts[id] \in Nat
  BY MemoryTypes
<1>2. Granted(id) \in Nat /\ Granted(id)' \in Nat /\ Granted(id) <= Granted(id)'
  BY <1>1, GrantedFacts
<1>3. QED
  BY <1>1, <1>2 DEF Paid

\* An installation pays for whatever row it brings back.
LEMMA InstallPays ==
  ASSUME MemoryInv, attempts' = attempts, installs' = installs + 1,
         NEW id \in JobID, NEW n \in Nat
  PROVE  attempts'[id] <= n + Granted(id)'
<1>1. installs \in Nat /\ attempts[id] \in Nat
  BY MemoryTypes
<1>2. /\ Granted(id) \in Nat /\ Len(Delays[id]) \in Nat
      /\ Granted(id)' = Granted(id) + Len(Delays[id]) + 1
  BY <1>1, GrantedFacts
<1>3. attempts[id] <= Len(Delays[id]) + 1 + Granted(id)
  BY DEF MemoryInv, RoundsPaid, Paid
<1>4. QED
  BY <1>1, <1>2, <1>3 DEF Paid

\* A request ends: it installs rows of its clone, or new ones.
LEMMA RequestEnds ==
  ASSUME MemoryInv, TypeOK', Sound(jobs'), NEW base \in Range(request),
         \A id \in DOMAIN jobs' : \/ jobs'[id].AttemptCount = 0
                                  \/ id \in DOMAIN base /\ jobs'[id] = base[id],
         request' = <<>>, installs' = installs + 1,
         UNCHANGED <<pc, batch, clone, attempts>>
  PROVE  MemoryInv'
<1>1. Range(request') = {}
  BY DEF Range
<1>2. Current' = Current
  BY DEF Current
<1>3. DOMAIN jobs' \subseteq JobID /\ \A id \in DOMAIN jobs' : jobs'[id].AttemptCount \in Nat
  BY TableFacts DEF Sound, JobRecord
<1>4. Tables'
  BY <1>1 DEF MemoryInv, Tables, Sound
<1>5. CopiesDiffer'
  BY DEF MemoryInv, CopiesDiffer
<1>6. RowsPaid'
  BY <1>2, <1>3, InstallPays DEF RowsPaid, Paid
<1>7. ClonePaid'
  BY MemoryTypes, InstallPays DEF ClonePaid, Paid
<1>8. CopiesPaid'
  BY MemoryTypes, InstallPays DEF CopiesPaid, Paid
<1>9. RoundsPaid'
  BY RetriesNat, InstallPays DEF RoundsPaid, Paid
<1>10. ASSUME NEW i \in 1..Len(batch), batch[i].ID \in DOMAIN jobs'
       PROVE  jobs'[batch[i].ID].AttemptCount <= batch[i].AttemptCount
  <2>1. batch[i].AttemptCount \in Nat
    BY MemoryTypes
  <2>2. batch[i].ID \in DOMAIN base => base[batch[i].ID].AttemptCount <= batch[i].AttemptCount
    BY DEF MemoryInv, RowsBehind
  <2>3. QED
    BY <1>10, <2>1, <2>2
<1>11. RowsBehind'
  BY <1>1, <1>10 DEF MemoryInv, RowsBehind
<1>12. pc = "install" => NotAhead(jobs', clone)
  BY MemoryTypes DEF MemoryInv, ClonesBehind, NotAhead
<1>13. ClonesBehind'
  BY <1>1, <1>12 DEF ClonesBehind, NotAhead
<1>14. QED
  BY <1>4, <1>5, <1>6, <1>7, <1>8, <1>9, <1>11, <1>13 DEF MemoryInv

\* The worker goes on to the next copy, whatever it did to the table.
LEMMA WorkerAdvances ==
  ASSUME MemoryInv, TypeOK', batch # <<>>, Advance, Sound(jobs'), Sound(clone'),
         UNCHANGED <<request, attempts, installs>>,
         \A id \in DOMAIN jobs' : Paid(id, jobs'[id].AttemptCount),
         \A i \in 2..Len(batch) : batch[i].ID \in DOMAIN jobs' =>
            jobs'[batch[i].ID].AttemptCount <= batch[i].AttemptCount,
         \A m \in Range(request) : NotAhead(m, jobs')
  PROVE  MemoryInv'
<1>1. /\ Len(batch') + 1 = Len(batch) /\ Len(batch') \in Nat
      /\ \A i \in 1..Len(batch') :
           batch'[i] = batch[i + 1] /\ i + 1 \in 1..Len(batch) /\ i + 1 \in 2..Len(batch)
      /\ pc' \in {"poll", "deliver"}
  BY MemoryTypes, AdvanceFacts
<1>2. DOMAIN jobs' \subseteq JobID /\ \A id \in DOMAIN jobs' : jobs'[id].AttemptCount \in Nat
  BY TableFacts DEF Sound, JobRecord
<1>3. Tables'
  BY DEF MemoryInv, Tables, Sound
<1>4. CopiesDiffer'
  <2> SUFFICES ASSUME NEW i \in 1..Len(batch'), NEW j \in 1..Len(batch'), i # j
               PROVE  batch'[i].ID # batch'[j].ID
    BY DEF CopiesDiffer
  <2>1. i + 1 \in 1..Len(batch) /\ j + 1 \in 1..Len(batch) /\ i + 1 # j + 1
    BY <1>1
  <2>2. QED
    BY <1>1, <2>1 DEF MemoryInv, CopiesDiffer
<1>5. RowsPaid'
  <2>1. \A id \in DOMAIN jobs' : ~Unrecorded(id)'
    BY <1>1 DEF Unrecorded
  <2>2. \A id \in DOMAIN jobs' : attempts[id] <= jobs'[id].AttemptCount + 0 + Granted(id)
    BY <1>2 DEF Paid
  <2>3. QED
    BY <2>1, <2>2 DEF RowsPaid, Paid, Granted
<1>6. ClonePaid'
  BY <1>1 DEF ClonePaid
<1>7. CopiesPaid'
  <2> SUFFICES ASSUME NEW i \in 1..Len(batch')
               PROVE  Paid(batch'[i].ID, batch'[i].AttemptCount)
    BY DEF CopiesPaid, Paid, Granted
  <2> DEFINE c == batch[i + 1]
  <2>1. c.ID \in JobID /\ c.AttemptCount \in Nat /\ batch'[i] = c /\ i + 1 > 1
    BY <1>1, MemoryTypes
  <2>2. Paid(c.ID, c.AttemptCount)
    BY <1>1, <2>1 DEF MemoryInv, CopiesPaid
  <2>3. QED
    BY <2>1, <2>2
<1>8. RoundsPaid'
  BY StillPaid, RetriesNat DEF MemoryInv, RoundsPaid, Paid
<1>9. RowsBehind'
  <2> SUFFICES ASSUME NEW i \in 1..Len(batch')
               PROVE  /\ batch'[i].AttemptCount <= Len(Delays[batch'[i].ID])
                      /\ \A m \in {jobs'} \cup Range(request) : batch'[i].ID \in DOMAIN m =>
                           m[batch'[i].ID].AttemptCount <= batch'[i].AttemptCount
    BY <1>1 DEF RowsBehind
  <2>1. i + 1 \in 1..Len(batch) /\ i + 1 \in 2..Len(batch) /\ batch'[i] = batch[i + 1]
    BY <1>1
  <2>2. QED
    BY <2>1 DEF MemoryInv, RowsBehind
<1>10. ClonesBehind'
  BY <1>1 DEF ClonesBehind, NotAhead
<1>11. QED
  BY <1>3, <1>4, <1>5, <1>6, <1>7, <1>8, <1>9, <1>10 DEF MemoryInv

\* A request clones the table.
LEMMA BeginRequestKeeps ==
  ASSUME MemoryInv, BeginRequest
  PROVE  MemoryInv'
<1>1. /\ installs < MaxInstalls /\ request' = <<jobs>>
      /\ UNCHANGED <<jobs, clock, pc, batch, clone, enqueued, attempts, last, delivered,
                     deadLetters, withdrawn, cut, faults, crashes, installs>>
  BY DEF BeginRequest, worker, history
<1>2. Range(request') = {jobs} /\ Len(request') = 1
  BY <1>1 DEF Range
<1>3. TypeOK'
  <2>1. Len(request') <= 1 /\ \A m \in Range(request') : IsJobTable(m)
    BY <1>2, MemoryTypes
  <2>2. QED
    BY <1>1, <2>1 DEF MemoryInv, TypeOK, Current
<1>4. Tables'
  BY <1>1, <1>2 DEF MemoryInv, Tables, Sound
<1>5. CopiesDiffer' /\ RowsPaid' /\ ClonePaid' /\ CopiesPaid' /\ RoundsPaid'
  BY <1>1 DEF MemoryInv, CopiesDiffer, RowsPaid, ClonePaid, CopiesPaid, RoundsPaid, Paid,
              Granted, Unrecorded, Current
<1>6. RowsBehind'
  BY <1>1, <1>2 DEF MemoryInv, RowsBehind
<1>7. NotAhead(jobs, jobs)
  BY MemoryTypes DEF NotAhead
<1>8. ClonesBehind'
  BY <1>1, <1>2, <1>7 DEF MemoryInv, ClonesBehind, NotAhead
<1>9. QED
  BY <1>3, <1>4, <1>5, <1>6, <1>8 DEF MemoryInv

\* A request with a clone may install it.
LEMMA InstallCounted ==
  ASSUME StoreKind = "memory", MemoryInv, NEW base \in Range(request), EndRequest
  PROVE  /\ request' = <<>> /\ installs' = installs + 1 /\ installs' \in 0..MaxInstalls
         /\ Len(request') <= 1 /\ Range(request') = {} /\ Sound(base)
<1>1. request # <<>>
  BY DEF Range
<1>2. QED
  BY <1>1, MemoryTypes, BoundsAssumption DEF MemoryInv, Tables, EndRequest, Range

\* Enqueueing a job brings back the rows of the clone, and a new one.
LEMMA EnqueueKeeps ==
  ASSUME StoreKind = "memory", MemoryInv, NEW id \in JobID, Enqueue(id)
  PROVE  MemoryInv'
<1>1. PICK base \in Range(request) : jobs' = Put(base, id, NewJob)
  BY DEF Enqueue, RequestBase
<1>2. /\ enqueued' = enqueued \cup {id} /\ EndRequest
      /\ UNCHANGED <<clock, pc, batch, clone, attempts, last, delivered, deadLetters,
                     withdrawn, cut, faults, crashes>>
  BY DEF Enqueue, worker
<1>3. /\ request' = <<>> /\ installs' = installs + 1 /\ installs' \in 0..MaxInstalls
      /\ Len(request') <= 1 /\ Range(request') = {} /\ Sound(base)
  BY <1>2, InstallCounted
<1>4. NewJob \in JobRecord /\ NewJob.AttemptCount = 0
  BY MemoryTypes DEF NewJob, JobRecord
<1>5. IsJobTable(jobs')
  BY <1>1, <1>3, <1>4, PutTable DEF Sound
<1>6. /\ DOMAIN jobs' = DOMAIN base \cup {id} /\ jobs'[id] = NewJob
      /\ \A x \in DOMAIN base : x # id => jobs'[x] = base[x]
  BY <1>1 DEF Put
<1>7. Sound(jobs')
  <2>1. IsFiniteSet(DOMAIN jobs')
    BY <1>3, <1>6, FS_AddElement DEF Sound
  <2>2. QED
    BY <1>3, <1>4, <1>5, <1>6, <2>1, RetriesNat DEF Sound
<1>8. TypeOK'
  BY <1>2, <1>3, <1>5 DEF MemoryInv, TypeOK, Current
<1>9. \A x \in DOMAIN jobs' : jobs'[x].AttemptCount = 0 \/ (x \in DOMAIN base /\ jobs'[x] = base[x])
  BY <1>4, <1>6
<1>10. QED
  BY <1>2, <1>3, <1>7, <1>8, <1>9, RequestEnds

\* DeleteTopic brings back the rows of the clone that are not the topic's.
LEMMA DeleteTopicKeeps ==
  ASSUME StoreKind = "memory", MemoryInv, NEW t, DeleteTopicJobs(t)
  PROVE  MemoryInv'
<1>1. PICK base \in Range(request) :
        LET gone == { id \in DOMAIN base : TopicOf[id] = t } IN
        jobs' = Drop(base, gone) /\ withdrawn' = withdrawn \cup gone
  BY DEF DeleteTopicJobs, RequestBase
<1> DEFINE gone == { id \in DOMAIN base : TopicOf[id] = t }
<1>2. /\ EndRequest
      /\ UNCHANGED <<clock, pc, batch, clone, enqueued, attempts, last, delivered, deadLetters,
                     cut, faults, crashes>>
  BY DEF DeleteTopicJobs, worker
<1>3. /\ request' = <<>> /\ installs' = installs + 1 /\ installs' \in 0..MaxInstalls
      /\ Len(request') <= 1 /\ Range(request') = {} /\ Sound(base)
  BY <1>2, InstallCounted
<1>4. gone \subseteq JobID
  BY <1>3, TableFacts DEF Sound
<1>5. jobs' = Drop(base, gone) /\ withdrawn' = withdrawn \cup gone
  BY <1>1
<1> HIDE DEF gone
<1>6. IsJobTable(jobs')
  BY <1>3, <1>5, DropTable DEF Sound
<1>7. DOMAIN jobs' = DOMAIN base \ gone /\ \A x \in DOMAIN jobs' : jobs'[x] = base[x]
  BY <1>5 DEF Drop, Restrict
<1>8. Sound(jobs')
  <2>1. IsFiniteSet(DOMAIN jobs')
    BY <1>3, <1>7, FS_Subset DEF Sound
  <2>2. QED
    BY <1>3, <1>6, <1>7, <2>1 DEF Sound
<1>9. TypeOK'
  BY <1>2, <1>3, <1>4, <1>5, <1>6 DEF MemoryInv, TypeOK, Current
<1>10. QED
  BY <1>2, <1>3, <1>7, <1>8, <1>9, RequestEnds

\* Any other request brings back its whole clone.
LEMMA CommitOtherKeeps ==
  ASSUME StoreKind = "memory", MemoryInv, CommitOther
  PROVE  MemoryInv'
<1>1. /\ jobs' \in Range(request) /\ EndRequest
      /\ UNCHANGED <<clock, pc, batch, clone, enqueued, attempts, last, delivered, deadLetters,
                     withdrawn, cut, faults, crashes>>
  BY DEF CommitOther, RequestBase, worker, history
<1>2. PICK base \in Range(request) : jobs' = base
  BY <1>1
<1>3. /\ request' = <<>> /\ installs' = installs + 1 /\ installs' \in 0..MaxInstalls
      /\ Len(request') <= 1 /\ Range(request') = {} /\ Sound(base)
  BY <1>1, InstallCounted
<1>4. TypeOK'
  BY <1>1, <1>2, <1>3 DEF MemoryInv, TypeOK, Current, Sound
<1>5. QED
  BY <1>1, <1>2, <1>3, <1>4, RequestEnds

\* A poll copies rows that are paid for.
LEMMA PollKeeps ==
  ASSUME MemoryInv, Poll
  PROVE  MemoryInv'
<1>1. PICK s \in SetToSeqs(Ready) : batch' = Copies(FirstOf(s))
  BY DEF Poll
<1>2. /\ pc = "poll" /\ pc' = "deliver" /\ Ready # {}
      /\ UNCHANGED <<jobs, clock, clone, request, enqueued, attempts, last, delivered,
                     deadLetters, withdrawn, cut, faults, crashes, installs>>
  BY DEF Poll, history
<1>3. IsJobTable(jobs) /\ IsFiniteSet(DOMAIN jobs)
  BY DEF MemoryInv, Tables, Sound
<1>4. /\ batch' \in Seq(Copy) /\ batch' # <<>>
      /\ \A i \in 1..Len(batch') :
           /\ batch'[i].ID \in DOMAIN jobs
           /\ batch'[i].AttemptCount = jobs[batch'[i].ID].AttemptCount
      /\ \A i, j \in 1..Len(batch') : i # j => batch'[i].ID # batch'[j].ID
  BY <1>1, <1>2, <1>3, PollFacts
<1>5. TypeOK'
  BY <1>2, <1>4 DEF MemoryInv, TypeOK, Copy
<1>6. Tables' /\ CopiesDiffer' /\ ClonePaid' /\ RoundsPaid'
  BY <1>2, <1>4 DEF MemoryInv, Tables, CopiesDiffer, ClonePaid, RoundsPaid, Paid, Granted
<1>7. \A id \in DOMAIN jobs : ~Unrecorded(id) /\ ~Unrecorded(id)'
  BY <1>2 DEF Unrecorded
<1>8. \A id \in DOMAIN jobs : attempts[id] <= jobs[id].AttemptCount + Granted(id)
  BY <1>7, MemoryTypes DEF MemoryInv, RowsPaid, Paid
<1>9. RowsPaid'
  BY <1>2, <1>7, <1>8, MemoryTypes DEF RowsPaid, Paid, Granted
<1>10. CopiesPaid'
  BY <1>2, <1>4, <1>8 DEF CopiesPaid, Paid, Granted
<1>11. RowsBehind'
  <2> SUFFICES ASSUME NEW i \in 1..Len(batch')
               PROVE  /\ batch'[i].AttemptCount <= Len(Delays[batch'[i].ID])
                      /\ \A m \in {jobs} \cup Range(request) : batch'[i].ID \in DOMAIN m =>
                           m[batch'[i].ID].AttemptCount <= batch'[i].AttemptCount
    BY <1>2 DEF RowsBehind
  <2> DEFINE id == batch'[i].ID
  <2>1. id \in DOMAIN jobs /\ batch'[i].AttemptCount = jobs[id].AttemptCount
        /\ jobs[id].AttemptCount \in Nat
    BY <1>4, MemoryTypes
  <2>2. jobs[id].AttemptCount <= Len(Delays[id])
    BY <2>1 DEF MemoryInv, Tables, Sound
  <2>3. \A m \in Range(request) : id \in DOMAIN m => m[id].AttemptCount <= jobs[id].AttemptCount
    BY <2>1 DEF MemoryInv, ClonesBehind, NotAhead
  <2>4. QED
    BY <2>1, <2>2, <2>3
<1>12. ClonesBehind'
  BY <1>2 DEF MemoryInv, ClonesBehind, NotAhead
<1>13. QED
  BY <1>5, <1>6, <1>9, <1>10, <1>11, <1>12 DEF MemoryInv

\* A post is paid for by the copy it was made from.
LEMMA DeliverKeeps ==
  ASSUME MemoryInv, NEW result \in Results, Deliver(result)
  PROVE  MemoryInv'
<1> DEFINE id == Current.ID
           n == Current.AttemptCount
<1>1. /\ pc = "deliver"
      /\ attempts' = [attempts EXCEPT ![id] = @ + 1]
      /\ last' = [last EXCEPT ![id] = result]
      /\ delivered' = IF result = "success" THEN delivered \cup {id} ELSE delivered
      /\ pc' = IF result = "retryable" /\ ~Exhausted(Current) THEN "reschedule" ELSE "delete"
      /\ UNCHANGED <<jobs, clock, batch, clone, request, enqueued, deadLetters,
                     withdrawn, cut, faults, crashes, installs>>
  BY DEF Deliver
<1>2. batch \in Seq(Copy) /\ batch # <<>>
  BY <1>1, MemoryTypes DEF MemoryInv, TypeOK
<1>3. 1 \in 1..Len(batch) /\ batch[1] = Current /\ id \in JobID /\ n \in Nat
  BY <1>2, CurrentCopy DEF Current, Copy
<1>4. \A i \in 1..Len(batch) : i # 1 => batch[i].ID # id
  BY <1>3 DEF MemoryInv, CopiesDiffer
<1>5. /\ attempts'[id] = attempts[id] + 1
      /\ \A x \in JobID : x # id => attempts'[x] = attempts[x]
      /\ attempts[id] \in Nat
  BY <1>1, <1>3, MemoryTypes
<1>6. Current' = Current /\ pc' \in {"delete", "reschedule"}
  BY <1>1 DEF Current
<1>7. attempts[id] <= n + Granted(id) /\ n <= Len(Delays[id])
  BY <1>1, <1>3 DEF MemoryInv, CopiesPaid, RowsBehind, Paid
<1> HIDE DEF id, n
<1>8. TypeOK'
  <2>1. attempts' \in [JobID -> Nat] /\ last' \in [JobID -> Results \cup {"none"}]
    BY <1>1, <1>3, MemoryTypes
  <2>2. delivered' \subseteq JobID
    BY <1>1, <1>3 DEF MemoryInv, TypeOK
  <2>3. pc' = "reschedule" => Current'.AttemptCount < Len(Delays[Current'.ID])
    BY <1>1, <1>3, <1>6, RetriesNat DEF Exhausted, id, n
  <2>4. (pc' = "poll") = (batch' = <<>>)
    BY <1>1, <1>2, <1>6
  <2>5. QED
    BY <1>1, <1>6, <2>1, <2>2, <2>3, <2>4 DEF MemoryInv, TypeOK
<1>9. Tables' /\ CopiesDiffer' /\ ClonePaid'
  BY <1>1, <1>6 DEF MemoryInv, Tables, CopiesDiffer, ClonePaid
<1>10. \A x \in JobID : Granted(x)' = Granted(x) /\ Granted(x) \in Nat
  BY <1>1, MemoryTypes, GrantedFacts
<1>11. RowsPaid'
  <2> SUFFICES ASSUME NEW x \in DOMAIN jobs
               PROVE  attempts'[x] <= jobs[x].AttemptCount + (IF x = id THEN 1 ELSE 0) + Granted(x)
    BY <1>1, <1>6 DEF RowsPaid, Paid, Granted, Unrecorded, id
  <2>1. ~Unrecorded(x)
    BY <1>1 DEF Unrecorded
  <2>2. attempts[x] <= jobs[x].AttemptCount + 0 + Granted(x)
    BY <2>1 DEF MemoryInv, RowsPaid, Paid
  <2>3. x \in JobID /\ jobs[x].AttemptCount \in Nat /\ attempts[x] \in Nat
    BY MemoryTypes
  <2>4. QED
    BY <1>5, <1>10, <2>2, <2>3
<1>12. CopiesPaid'
  <2> SUFFICES ASSUME NEW i \in 1..Len(batch), i > 1
               PROVE  attempts'[batch[i].ID] <= batch[i].AttemptCount + Granted(batch[i].ID)
    BY <1>1, <1>6 DEF CopiesPaid, Paid, Granted
  <2>1. attempts'[batch[i].ID] = attempts[batch[i].ID]
    BY <1>4, <1>5, MemoryTypes
  <2>2. QED
    BY <2>1 DEF MemoryInv, CopiesPaid, Paid
<1>13. RoundsPaid'
  <2> SUFFICES ASSUME NEW x \in JobID
               PROVE  attempts'[x] <= Len(Delays[x]) + 1 + Granted(x)
    BY <1>1 DEF RoundsPaid, Paid, Granted
  <2>1. attempts[x] <= Len(Delays[x]) + 1 + Granted(x)
    BY DEF MemoryInv, RoundsPaid, Paid
  <2>2. QED
    BY <1>3, <1>5, <1>7, <1>10, <2>1, RetriesNat
<1>14. RowsBehind' /\ ClonesBehind'
  BY <1>1, <1>6 DEF MemoryInv, RowsBehind, ClonesBehind, NotAhead
<1>15. QED
  BY <1>8, <1>9, <1>11, <1>12, <1>13, <1>14 DEF MemoryInv

\* The current copy, in the form the steps that end with it use.
LEMMA CurrentInMemory ==
  ASSUME MemoryInv, pc # "poll"
  PROVE  /\ batch \in Seq(Copy) /\ batch # <<>>
         /\ Current.ID \in JobID /\ Current.AttemptCount \in Nat
         /\ Current.ID \in DOMAIN jobs => jobs[Current.ID].AttemptCount <= Current.AttemptCount
         /\ \A i \in 2..Len(batch) : i \in 1..Len(batch) /\ batch[i].ID # Current.ID
<1>1. batch \in Seq(Copy) /\ batch # <<>>
  BY MemoryTypes DEF MemoryInv, TypeOK
<1>2. 1 \in 1..Len(batch) /\ batch[1] = Current /\ Current \in Copy
  BY <1>1, CurrentCopy DEF Current
<1>3. \A i \in 2..Len(batch) : i \in 1..Len(batch) /\ i # 1
  BY MemoryTypes
<1>4. \A i \in 2..Len(batch) : batch[i].ID # Current.ID
  BY <1>2, <1>3 DEF MemoryInv, CopiesDiffer
<1>5. QED
  BY <1>1, <1>2, <1>3, <1>4 DEF MemoryInv, RowsBehind, Copy

\* The worker goes on without the current row, or without having changed it.
LEMMA RowsRest ==
  ASSUME MemoryInv, TypeOK', pc # "poll", Advance, clone' = clone,
         UNCHANGED <<request, attempts, installs>>,
         DOMAIN jobs' \subseteq DOMAIN jobs, Sound(jobs'),
         \A id \in DOMAIN jobs' : jobs'[id] = jobs[id] /\ ~Unrecorded(id)
  PROVE  MemoryInv'
<1>1. batch # <<>> /\ Sound(clone')
  BY CurrentInMemory DEF MemoryInv, Tables, Sound
<1>2. ASSUME NEW id \in DOMAIN jobs' PROVE Paid(id, jobs'[id].AttemptCount)
  <2>1. Paid(id, jobs[id].AttemptCount + 0)
    BY DEF MemoryInv, RowsPaid
  <2>2. QED
    BY <2>1, MemoryTypes
<1>3. \A i \in 2..Len(batch) : batch[i].ID \in DOMAIN jobs' =>
        jobs'[batch[i].ID].AttemptCount <= batch[i].AttemptCount
  BY CurrentInMemory DEF MemoryInv, RowsBehind
<1>4. \A m \in Range(request) : NotAhead(m, jobs')
  BY DEF MemoryInv, ClonesBehind, NotAhead
<1>5. QED
  BY <1>1, <1>2, <1>3, <1>4, WorkerAdvances

\* What the worker's advance does to the types.
LEMMA AdvanceTyped ==
  ASSUME MemoryInv, pc # "poll", Advance,
         IsJobTable(jobs'), IsJobTable(clone'), clock' = clock,
         deadLetters' \in [JobID -> Nat], faults' \in 0..MaxFaults,
         UNCHANGED <<request, enqueued, attempts, last, delivered, withdrawn, cut, crashes,
                     installs>>
  PROVE  TypeOK'
<1>1. batch' \in Seq(Copy) /\ pc' \in {"poll", "deliver"} /\ (pc' = "poll") = (batch' = <<>>)
  BY CurrentInMemory, AdvanceFacts
<1>2. QED
  BY <1>1 DEF MemoryInv, TypeOK, Copy

\* DeleteDeliveryJob drops the row in place.
LEMMA DeleteKeeps ==
  ASSUME StoreKind = "memory", MemoryInv, Delete
  PROVE  MemoryInv'
<1>1. /\ pc = "delete" /\ jobs' = Drop(jobs, {Current.ID})
      /\ UNCHANGED <<faults, clock, clone, request, enqueued, attempts, last, delivered,
                     deadLetters, withdrawn, cut, crashes, installs>>
      /\ \/ pc' = "redrive" /\ batch' = batch
         \/ Advance
  BY DEF Delete, history
<1>2. DOMAIN jobs' = DOMAIN jobs \ {Current.ID} /\ \A x \in DOMAIN jobs' : jobs'[x] = jobs[x]
  BY <1>1 DEF Drop, Restrict
<1>3. IsJobTable(jobs')
  BY <1>1, MemoryTypes, DropTable
<1>4. Sound(jobs')
  <2>1. IsFiniteSet(DOMAIN jobs')
    BY <1>2, FS_Subset DEF MemoryInv, Tables, Sound
  <2>2. QED
    BY <1>2, <1>3, <2>1 DEF MemoryInv, Tables, Sound
<1>5. \A id \in DOMAIN jobs' : jobs'[id] = jobs[id] /\ ~Unrecorded(id)
  BY <1>2 DEF Unrecorded
<1>6. CASE Advance
  <2>1. TypeOK'
    <3>1. deadLetters' \in [JobID -> Nat] /\ faults' \in 0..MaxFaults /\ IsJobTable(clone')
      BY <1>1 DEF MemoryInv, TypeOK
    <3>2. QED
      BY <1>1, <1>3, <1>6, <3>1, AdvanceTyped
  <2>2. QED
    BY <1>1, <1>2, <1>4, <1>5, <1>6, <2>1, RowsRest
<1>7. CASE pc' = "redrive" /\ batch' = batch
  <2>1. batch # <<>>
    BY <1>1, CurrentInMemory
  <2>2. TypeOK'
    BY <1>1, <1>3, <1>7, <2>1 DEF MemoryInv, TypeOK
  <2>3. Tables' /\ CopiesDiffer' /\ ClonePaid' /\ CopiesPaid' /\ RoundsPaid'
    BY <1>1, <1>4, <1>7 DEF MemoryInv, Tables, CopiesDiffer, ClonePaid, CopiesPaid, RoundsPaid,
                            Paid, Granted, Sound
  <2>4. RowsPaid'
    <3>1. \A id \in DOMAIN jobs' : ~Unrecorded(id)'
      BY <1>7 DEF Unrecorded
    <3>2. \A id \in DOMAIN jobs' : attempts[id] <= jobs'[id].AttemptCount + 0 + Granted(id)
      BY <1>2, <1>5 DEF MemoryInv, RowsPaid, Paid
    <3>3. QED
      BY <1>1, <3>1, <3>2 DEF RowsPaid, Paid, Granted
  <2>5. RowsBehind'
    <3> SUFFICES ASSUME NEW i \in 1..Len(batch)
                 PROVE  /\ batch[i].AttemptCount <= Len(Delays[batch[i].ID])
                        /\ \A m \in {jobs'} \cup Range(request) : batch[i].ID \in DOMAIN m =>
                             m[batch[i].ID].AttemptCount <= batch[i].AttemptCount
      BY <1>1, <1>7 DEF RowsBehind
    <3>1. QED
      BY <1>2 DEF MemoryInv, RowsBehind
  <2>6. \A m \in Range(request) : NotAhead(m, jobs')
    BY <1>2 DEF MemoryInv, ClonesBehind, NotAhead
  <2>7. ClonesBehind'
    BY <1>1, <1>7, <2>6 DEF ClonesBehind, NotAhead
  <2>8. QED
    BY <2>2, <2>3, <2>4, <2>5, <2>7 DEF MemoryInv
<1>8. QED
  BY <1>1, <1>6, <1>7

\* The dead letter changes no table.
LEMMA RedriveKeeps ==
  ASSUME MemoryInv, Redrive
  PROVE  MemoryInv'
<1>1. /\ pc = "redrive" /\ Advance
      /\ deadLetters' = [deadLetters EXCEPT ![Current.ID] = @ + 1]
      /\ UNCHANGED <<jobs, clock, clone, request, enqueued, attempts, last, delivered,
                     withdrawn, cut, faults, crashes, installs>>
  BY DEF Redrive
<1>2. /\ deadLetters' \in [JobID -> Nat] /\ faults' \in 0..MaxFaults
      /\ IsJobTable(jobs') /\ IsJobTable(clone')
  <2>1. deadLetters \in [JobID -> Nat] /\ Current.ID \in JobID
    BY <1>1, CurrentInMemory DEF MemoryInv, TypeOK
  <2>2. deadLetters' \in [JobID -> Nat]
    BY <1>1, <2>1
  <2>3. QED
    BY <1>1, <2>2 DEF MemoryInv, TypeOK
<1>3. TypeOK'
  BY <1>1, <1>2, AdvanceTyped
<1>4. Sound(jobs') /\ \A id \in DOMAIN jobs' : jobs'[id] = jobs[id] /\ ~Unrecorded(id)
  BY <1>1 DEF MemoryInv, Tables, Sound, Unrecorded
<1>5. QED
  BY <1>1, <1>3, <1>4, RowsRest

\* UpdateDeliveryJob finds no row.
LEMMA RescheduleKeeps ==
  ASSUME StoreKind = "memory", MemoryInv, Reschedule
  PROVE  MemoryInv'
<1>1. /\ pc = "reschedule" /\ Advance /\ Current.ID \notin DOMAIN jobs
      /\ UNCHANGED <<jobs, clock, clone, request, enqueued, attempts, last, delivered,
                     deadLetters, withdrawn, cut, faults, crashes, installs>>
  BY DEF Reschedule, history
<1>2. /\ deadLetters' \in [JobID -> Nat] /\ faults' \in 0..MaxFaults
      /\ IsJobTable(jobs') /\ IsJobTable(clone')
  BY <1>1 DEF MemoryInv, TypeOK
<1>3. TypeOK'
  BY <1>1, <1>2, AdvanceTyped
<1>4. Sound(jobs') /\ \A id \in DOMAIN jobs' : jobs'[id] = jobs[id] /\ ~Unrecorded(id)
  BY <1>1 DEF MemoryInv, Tables, Sound, Unrecorded
<1>5. QED
  BY <1>1, <1>3, <1>4, RowsRest

\* The clone of the worker counts the attempt; no other table does yet.
LEMMA BeginRescheduleKeeps ==
  ASSUME MemoryInv, BeginReschedule
  PROVE  MemoryInv'
<1> DEFINE id == Current.ID
           row == Rescheduled(jobs[id])
<1>1. /\ pc = "reschedule" /\ pc' = "install" /\ id \in DOMAIN jobs
      /\ clone' = Put(jobs, id, row)
      /\ UNCHANGED <<jobs, clock, batch, request, enqueued, attempts, last, delivered,
                     deadLetters, withdrawn, cut, faults, crashes, installs>>
  BY DEF BeginReschedule, history
<1>2. /\ batch # <<>> /\ id \in JobID /\ Current.AttemptCount \in Nat
      /\ jobs[id] \in JobRecord /\ jobs[id].AttemptCount \in Nat
      /\ jobs[id].AttemptCount <= Current.AttemptCount
      /\ Current.AttemptCount < Len(Delays[id])
  BY <1>1, CurrentInMemory, MemoryTypes, TableFacts DEF MemoryInv, TypeOK
<1>3. row \in JobRecord /\ row.AttemptCount = jobs[id].AttemptCount + 1
  <2>1. Delays[id] \in Seq(Nat) /\ Current.AttemptCount + 1 \in 1..Len(Delays[id])
    BY <1>2, DelaysAssumption
  <2>2. Delays[id][Current.AttemptCount + 1] \in Nat
    BY <2>1
  <2>3. clock + Delays[id][Current.AttemptCount + 1] \in Nat
    BY <2>2, MemoryTypes
  <2>4. row = [jobs[id] EXCEPT !.AttemptCount = @ + 1,
                               !.NextAttemptAt = clock + Delays[id][Current.AttemptCount + 1]]
    BY DEF Rescheduled
  <2>5. \A r \in JobRecord, due \in Nat :
          LET row1 == [r EXCEPT !.AttemptCount = @ + 1, !.NextAttemptAt = due] IN
          row1 \in JobRecord /\ row1.AttemptCount = r.AttemptCount + 1
    BY RowUpdate
  <2> HIDE DEF row, id
  <2>6. QED
    BY <1>2, <2>3, <2>4, <2>5
<1> HIDE DEF row, id
<1>4. IsJobTable(clone')
  BY <1>1, <1>2, <1>3, PutTable, MemoryTypes
<1>5. /\ DOMAIN clone' = DOMAIN jobs /\ clone'[id] = row
      /\ \A x \in DOMAIN jobs : x # id => clone'[x] = jobs[x]
  BY <1>1 DEF Put
<1>6. Sound(clone')
  <2>1. row.AttemptCount <= Len(Delays[id])
    BY <1>2, <1>3, RetriesNat
  <2>2. QED
    BY <1>4, <1>5, <2>1 DEF MemoryInv, Tables, Sound
<1>7. TypeOK'
  BY <1>1, <1>2, <1>4 DEF MemoryInv, TypeOK
<1>8. Tables' /\ CopiesDiffer' /\ RoundsPaid'
  BY <1>1, <1>6 DEF MemoryInv, Tables, CopiesDiffer, RoundsPaid, Paid, Granted, Sound
<1>9. \A x \in DOMAIN jobs : Unrecorded(x)' = Unrecorded(x) /\ (Unrecorded(x) <=> x = id)
  BY <1>1 DEF Unrecorded, Current, id
<1>10. RowsPaid'
  BY <1>1, <1>9 DEF MemoryInv, RowsPaid, Paid, Granted
<1>11. ClonePaid'
  <2> SUFFICES ASSUME NEW x \in DOMAIN jobs
               PROVE  attempts[x] <= clone'[x].AttemptCount + Granted(x)
    BY <1>1, <1>5 DEF ClonePaid, Paid, Granted
  <2>1. attempts[x] <= jobs[x].AttemptCount + (IF x = id THEN 1 ELSE 0) + Granted(x)
    BY <1>9 DEF MemoryInv, RowsPaid, Paid
  <2>2. clone'[x].AttemptCount = jobs[x].AttemptCount + (IF x = id THEN 1 ELSE 0)
    BY <1>3, <1>5, MemoryTypes
  <2>3. QED
    BY <2>1, <2>2
<1>12. CopiesPaid'
  BY <1>1 DEF MemoryInv, CopiesPaid, Paid, Granted
<1>13. RowsBehind'
  <2>1. \A i \in 1..Len(batch) : i > 1 => i \in 2..Len(batch)
    BY MemoryTypes
  <2>2. \A i \in 1..Len(batch) : i > 1 => batch[i].ID # id
    BY <1>1, <2>1, CurrentInMemory DEF id
  <2>3. QED
    BY <1>1, <1>5, <2>2 DEF MemoryInv, RowsBehind
<1>14. NotAhead(jobs, clone')
  BY <1>3, <1>5, MemoryTypes DEF NotAhead
<1>15. \A m \in Range(request) : NotAhead(m, clone')
  <2> SUFFICES ASSUME NEW m \in Range(request), NEW x \in DOMAIN m \cap DOMAIN jobs
               PROVE  m[x].AttemptCount <= clone'[x].AttemptCount
    BY <1>5 DEF NotAhead
  <2>1. m[x].AttemptCount <= jobs[x].AttemptCount
    BY DEF MemoryInv, ClonesBehind, NotAhead
  <2>2. jobs[x].AttemptCount <= clone'[x].AttemptCount
    BY <1>5, <1>14 DEF NotAhead
  <2>3. m[x].AttemptCount \in Nat /\ jobs[x].AttemptCount \in Nat
        /\ clone'[x].AttemptCount \in Nat
    BY <1>3, <1>5, MemoryTypes
  <2>4. QED
    BY <2>1, <2>2, <2>3
<1>16. ClonesBehind'
  BY <1>1, <1>14, <1>15 DEF MemoryInv, ClonesBehind, NotAhead
<1>17. QED
  BY <1>7, <1>8, <1>10, <1>11, <1>12, <1>13, <1>16 DEF MemoryInv

\* The installation of the worker's clone may undo what requests did since,
\* but no count.
LEMMA InstallRescheduleKeeps ==
  ASSUME MemoryInv, InstallReschedule
  PROVE  MemoryInv'
<1>1. /\ pc = "install" /\ jobs' = clone /\ clone' = EmptyMap /\ Advance
      /\ UNCHANGED <<clock, request, enqueued, attempts, last, delivered,
                     deadLetters, withdrawn, cut, faults, crashes, installs>>
  BY DEF InstallReschedule, history
<1>2. /\ deadLetters' \in [JobID -> Nat] /\ faults' \in 0..MaxFaults
      /\ IsJobTable(jobs') /\ IsJobTable(clone')
  BY <1>1, EmptyTable DEF MemoryInv, TypeOK
<1>3. TypeOK'
  BY <1>1, <1>2, AdvanceTyped
<1>4. Sound(jobs') /\ Sound(clone')
  BY <1>1, EmptyTable, FS_EmptySet DEF MemoryInv, Tables, Sound
<1>5. \A id \in DOMAIN jobs' : Paid(id, jobs'[id].AttemptCount)
  BY <1>1 DEF MemoryInv, ClonePaid
<1>6. \A i \in 2..Len(batch) : i \in 1..Len(batch) /\ i > 1
  BY MemoryTypes
<1>7. \A i \in 2..Len(batch) : batch[i].ID \in DOMAIN jobs' =>
        jobs'[batch[i].ID].AttemptCount <= batch[i].AttemptCount
  BY <1>1, <1>6 DEF MemoryInv, RowsBehind
<1>8. \A m \in Range(request) : NotAhead(m, jobs')
  BY <1>1 DEF MemoryInv, ClonesBehind
<1>9. QED
  BY <1>1, <1>3, <1>4, <1>5, <1>7, <1>8, CurrentInMemory, WorkerAdvances

\* Time changes no job, and a stuttering step nothing.
LEMMA TickKeeps ==
  ASSUME MemoryInv, clock' \in Nat,
         UNCHANGED <<jobs, pc, batch, clone, request, enqueued, attempts, last, delivered,
                     deadLetters, withdrawn, cut, faults, crashes, installs>>
  PROVE  MemoryInv'
<1>1. TypeOK' /\ Tables' /\ CopiesDiffer'
  BY DEF MemoryInv, TypeOK, Tables, Sound, CopiesDiffer, Current
<1>2. RowsPaid' /\ ClonePaid' /\ CopiesPaid' /\ RoundsPaid'
  BY DEF MemoryInv, RowsPaid, ClonePaid, CopiesPaid, RoundsPaid, Paid, Granted, Unrecorded, Current
<1>3. RowsBehind' /\ ClonesBehind'
  BY DEF MemoryInv, RowsBehind, ClonesBehind, NotAhead
<1>4. QED
  BY <1>1, <1>2, <1>3 DEF MemoryInv

\* After a crash every table is empty.
LEMMA CrashKeeps ==
  ASSUME StoreKind = "memory", MemoryInv, Crash
  PROVE  MemoryInv'
<1>1. /\ crashes < MaxCrashes /\ crashes' = crashes + 1
      /\ jobs' = EmptyMap /\ pc' = "poll" /\ batch' = <<>> /\ clone' = EmptyMap /\ request' = <<>>
      /\ cut' = IF pc = "redrive" THEN cut \cup {Current.ID} ELSE cut
      /\ UNCHANGED <<clock, enqueued, attempts, last, delivered, deadLetters,
                     withdrawn, faults, installs>>
  BY DEF Crash
<1>2. crashes' \in 0..MaxCrashes
  BY <1>1, BoundsAssumption DEF MemoryInv, TypeOK
<1>3. cut' \subseteq JobID
  BY <1>1, CurrentInMemory DEF MemoryInv, TypeOK
<1>4. Len(batch') = 0 /\ batch' \in Seq(Copy) /\ Len(request') <= 1 /\ Range(request') = {}
  BY <1>1 DEF Range
<1>5. TypeOK'
  BY <1>1, <1>2, <1>3, <1>4, EmptyTable DEF MemoryInv, TypeOK, Copy
<1>6. Tables'
  BY <1>1, <1>4, EmptyTable, FS_EmptySet DEF Tables, Sound
<1>7. CopiesDiffer' /\ CopiesPaid' /\ RowsBehind' /\ ClonesBehind' /\ ClonePaid'
  BY <1>1, <1>4 DEF CopiesDiffer, CopiesPaid, RowsBehind, ClonesBehind, ClonePaid
<1>8. RowsPaid' /\ RoundsPaid'
  BY <1>1, EmptyTable DEF MemoryInv, RowsPaid, RoundsPaid, Paid, Granted
<1>9. QED
  BY <1>5, <1>6, <1>7, <1>8 DEF MemoryInv

\* The service starts with empty tables.
LEMMA InitKeeps ==
  ASSUME Init
  PROVE  MemoryInv
<1>1. IInv
  BY InitInv
<1>2. /\ jobs = EmptyMap /\ clone = EmptyMap /\ request = <<>> /\ Range(request) = {}
      /\ pc = "poll" /\ Len(batch) = 0 /\ installs = 0 /\ attempts = [id \in JobID |-> 0]
  BY DEF Init, Range
<1>3. Tables
  BY <1>2, EmptyTable, FS_EmptySet DEF Tables, Sound
<1>4. RowsPaid /\ ClonePaid /\ CopiesPaid /\ RowsBehind /\ ClonesBehind
  BY <1>2, EmptyTable DEF RowsPaid, ClonePaid, CopiesPaid, RowsBehind, ClonesBehind
<1>5. RoundsPaid
  <2> SUFFICES ASSUME NEW id \in JobID
               PROVE  0 <= Len(Delays[id]) + 1 + Granted(id)
    BY <1>2 DEF RoundsPaid, Paid
  <2>1. QED
    BY <1>2, GrantedFacts
<1>6. QED
  BY <1>1, <1>3, <1>4, <1>5 DEF IInv, MemoryInv

\* Every step keeps the invariant.
LEMMA MemoryNext ==
  ASSUME StoreKind = "memory", MemoryInv, [Next]_vars
  PROVE  MemoryInv'
<1>1. ASSUME NEW id \in JobID, Enqueue(id) PROVE MemoryInv'
  BY <1>1, EnqueueKeeps
<1>2. ASSUME NEW t \in Range(TopicOf), DeleteTopicJobs(t) PROVE MemoryInv'
  BY <1>2, DeleteTopicKeeps
<1>3. ASSUME NEW result \in Results, Deliver(result) PROVE MemoryInv'
  BY <1>3, DeliverKeeps
<1>4. CASE WorkerStep
  BY <1>3, <1>4, PollKeeps, DeleteKeeps, RedriveKeeps, RescheduleKeeps, BeginRescheduleKeeps,
     InstallRescheduleKeeps DEF WorkerStep, Results, FailReschedule
<1>5. CASE Tick \/ UNCHANGED vars
  BY <1>5, MemoryTypes, TickKeeps DEF Tick, vars, worker, history
<1>6. QED
  BY <1>1, <1>2, <1>4, <1>5, BeginRequestKeeps, CommitOtherKeeps, CrashKeeps DEF Next

\* The invariant holds throughout, over the in-memory store.
LEMMA MemoryInvariant ==
  ASSUME StoreKind = "memory"
  PROVE  Spec => []MemoryInv
<1>1. Init => MemoryInv
  BY InitKeeps
<1>2. MemoryInv /\ [Next]_vars => MemoryInv'
  BY MemoryNext
<1>3. QED
  BY <1>1, <1>2, PTL DEF Spec

\* Over either store, the worker is type correct: in particular the delay it
\* takes for a retry, delays[job.AttemptCount], always exists.
THEOREM WorkerTypeCorrect == Spec => []TypeOK
<1>1. IInv => TypeOK
  BY DEF IInv
<1>2. MemoryInv => TypeOK
  BY DEF MemoryInv
<1>3. CASE StoreKind = "sqlite"
  BY <1>1, <1>3, WorkerInvariant, PTL
<1>4. CASE StoreKind = "memory"
  BY <1>2, <1>4, MemoryInvariant, PTL
<1>5. QED
  BY <1>3, <1>4, StoreKindAssumption

\* A job is posted at most once more than its policy has retries, plus once
\* for every failed store operation and every crash; over the in-memory store
\* every clone that a request installs may start the count again, but the
\* clones the worker installs never do.
THEOREM AttemptsStayBounded == Spec => []AttemptsBounded
<1>1. IInv => AttemptsBounded
  BY DEF IInv
<1>2. MemoryInv => AttemptsBounded
  <2> SUFFICES ASSUME MemoryInv, NEW id \in JobID
               PROVE  attempts[id] <= (Len(Delays[id]) + 1) * (1 + installs) + faults + crashes
    BY DEF AttemptsBounded
  <2> DEFINE n == Len(Delays[id])
  <2>1. n \in Nat /\ installs \in Nat /\ faults \in Nat /\ crashes \in Nat /\ attempts[id] \in Nat
    BY RetriesNat, MemoryTypes, BoundsAssumption DEF MemoryInv, TypeOK
  <2>2. attempts[id] <= n + 1 + (n + 1) * installs
    BY DEF MemoryInv, RoundsPaid, Paid, Granted
  <2> HIDE DEF n
  <2>3. (n + 1) * (1 + installs) = n + 1 + (n + 1) * installs /\ (n + 1) * installs \in Nat
    BY <2>1
  <2> DEFINE k == (n + 1) * installs
             l == (n + 1) * (1 + installs)
  <2>4. l = n + 1 + k /\ k \in Nat /\ attempts[id] <= n + 1 + k
    BY <2>2, <2>3
  <2> HIDE DEF k, l
  <2>5. attempts[id] <= l + faults + crashes
    BY <2>1, <2>4
  <2>6. QED
    BY <2>5 DEF l, n
<1>3. CASE StoreKind = "sqlite"
  BY <1>1, <1>3, WorkerInvariant, PTL
<1>4. CASE StoreKind = "memory"
  BY <1>2, <1>4, MemoryInvariant, PTL
<1>5. QED
  BY <1>3, <1>4, StoreKindAssumption
=============================================================================
