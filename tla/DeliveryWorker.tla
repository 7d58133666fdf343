--------------------------- MODULE DeliveryWorker ---------------------------
(***************************************************************************)
(* The delivery worker of the service (runDeliveryWorker): one goroutine   *)
(* that polls the store for jobs that are due, posts each to its endpoint, *)
(* and deletes, redrives or reschedules it, ignoring what the store        *)
(* answers.  Requests enqueue jobs at the same time, and the process may   *)
(* crash and start again.                                                  *)
(*                                                                         *)
(* With the in-memory store, enqueueing, rescheduling and every unrelated  *)
(* request are transactions that install a clone which may be stale;       *)
(* deletion is in place.  With SQLite each is atomic but may fail.         *)
(***************************************************************************)
EXTENDS StoreState, Naturals, SequencesExt

CONSTANTS
  JobID,          \* identifiers of jobs (util.UUID)
  TopicOf,        \* TopicOf[id]: the topic in the job's payload
  Notification,   \* the jobs of kind "notification"; the others confirm
  Redriven,       \* the jobs whose RedrivePolicy names a dead letter queue
  Delays,         \* Delays[id]: RetryDelays of the job's delivery policy
  Limit,          \* jobs taken in one poll, 32 in the code
  StoreKind,      \* "memory" or "sqlite"
  MaxFaults,      \* bound: store operations that fail
  MaxCrashes,     \* bound: crashes of the process
  MaxInstalls        \* bound: clones that requests install (memory)

ASSUME JobsAssumption ==
  Notification \subseteq JobID /\ Redriven \subseteq JobID /\ DOMAIN TopicOf = JobID
ASSUME DelaysAssumption == Delays \in [JobID -> Seq(Nat)]
ASSUME LimitAssumption == Limit \in Nat \ {0}
ASSUME StoreKindAssumption == StoreKind \in {"memory", "sqlite"}
ASSUME BoundsAssumption ==
  MaxFaults \in Nat /\ MaxCrashes \in Nat /\ MaxInstalls \in Nat

VARIABLES
  jobs,         \* the delivery_jobs table
  clock,        \* wall clock
  pc,           \* where the worker is
  batch,        \* the copies it still has to process, the current one first
  clone,        \* the worker's clone in UpdateDeliveryJob (memory)
  request,      \* <<clone>> while a request is in Tx (memory)
  enqueued,     \* history: jobs whose transaction committed
  attempts,     \* history: posts of each job
  last,         \* history: result of the last post
  delivered,    \* history: jobs an endpoint answered with 2xx
  deadLetters,  \* history: sends to the dead letter queue
  withdrawn,    \* history: jobs that went with their topic
  cut,          \* history: jobs whose redrive a crash prevented
  faults,       \* store operations that failed
  crashes,      \* crashes of the process
  installs      \* clones that requests installed over the table (memory)

worker == <<pc, batch, clone>>
history == <<enqueued, attempts, last, delivered, deadLetters, withdrawn, cut>>
vars == <<jobs, clock, worker, request, history, faults, crashes, installs>>

Init ==
  /\ jobs = EmptyMap
  /\ clock = 0
  /\ pc = "poll"
  /\ batch = <<>>
  /\ clone = EmptyMap
  /\ request = <<>>
  /\ enqueued = {}
  /\ attempts = [id \in JobID |-> 0]
  /\ last = [id \in JobID |-> "none"]
  /\ delivered = {}
  /\ deadLetters = [id \in JobID |-> 0]
  /\ withdrawn = {}
  /\ cut = {}
  /\ faults = 0 /\ crashes = 0 /\ installs = 0

-----------------------------------------------------------------------------
(***************************************************************************)
(* Requests.                                                               *)
(***************************************************************************)
\* prepareDeliveryJob.
NewJob == [AttemptCount |-> 0, NextAttemptAt |-> clock, CreatedAt |-> clock]

BeginRequest ==
  /\ StoreKind = "memory"
  /\ request = <<>>
  /\ installs < MaxInstalls
  /\ request' = <<jobs>>
  /\ UNCHANGED <<jobs, clock, worker, history, faults, crashes, installs>>

\* Tx ends: in memory a clone was installed.
EndRequest ==
  /\ request' = <<>>
  /\ installs' = IF StoreKind = "memory" THEN installs + 1 ELSE installs

RequestBase == IF StoreKind = "memory" THEN Range(request) ELSE {jobs}

\* dispatchPublish, Subscribe or Unsubscribe commits a new job.
Enqueue(id) ==
  /\ id \notin enqueued
  /\ \E base \in RequestBase : jobs' = Put(base, id, NewJob)
  /\ enqueued' = enqueued \cup {id}
  /\ EndRequest
  /\ UNCHANGED <<clock, worker, attempts, last, delivered, deadLetters, withdrawn,
                 cut, faults, crashes>>

\* tx.DeleteTopic deletes the jobs of the topic, the worker's current one too.
DeleteTopicJobs(t) ==
  /\ \E base \in RequestBase :
       LET gone == { id \in DOMAIN base : TopicOf[id] = t } IN
       /\ gone # {}
       /\ jobs' = Drop(base, gone)
       /\ withdrawn' = withdrawn \cup gone
  /\ EndRequest
  /\ UNCHANGED <<clock, worker, enqueued, attempts, last, delivered, deadLetters,
                 cut, faults, crashes>>

\* Any other request of the in-memory store: it changes no job, but it
\* installs the jobs of its clone.
CommitOther ==
  /\ StoreKind = "memory"
  /\ jobs' \in RequestBase
  /\ EndRequest
  /\ UNCHANGED <<clock, worker, history, faults, crashes>>

-----------------------------------------------------------------------------
(***************************************************************************)
(* The worker.                                                             *)
(***************************************************************************)
\* Mutant: a job on its last attempt is taken for finished.
ReadyToRetry ==
  { id \in DOMAIN jobs : /\ jobs[id].NextAttemptAt <= clock
                         /\ jobs[id].AttemptCount < Len(Delays[id]) }
Ready == { id \in DOMAIN jobs : jobs[id].NextAttemptAt <= clock }

\* ORDER BY next_attempt_at, created_at.
InOrder(s) ==
  \A i, j \in DOMAIN s : i < j =>
    \/ jobs[s[i]].NextAttemptAt < jobs[s[j]].NextAttemptAt
    \/ /\ jobs[s[i]].NextAttemptAt = jobs[s[j]].NextAttemptAt
       /\ jobs[s[i]].CreatedAt <= jobs[s[j]].CreatedAt

Copies(s) ==
  [i \in 1..Len(s) |-> [ID |-> s[i], AttemptCount |-> jobs[s[i]].AttemptCount]]
FirstOf(s) == SubSeq(s, 1, IF Len(s) < Limit THEN Len(s) ELSE Limit)

\* processReadyDeliveryJobs: ListReadyDeliveryJobs with the limit.
Poll ==
  /\ pc = "poll"
  /\ Ready # {}
  /\ \E s \in SetToSeqs(Ready) : InOrder(s) /\ batch' = Copies(FirstOf(s))
  /\ pc' = "deliver"
  /\ UNCHANGED <<jobs, clock, clone, request, history, faults, crashes, installs>>

Current == batch[1]

\* The loop goes to the next job, or the worker waits for the next poll.
Advance ==
  /\ batch' = Tail(batch)
  /\ pc' = IF Len(batch) = 1 THEN "poll" ELSE "deliver"

\* Mutants: one attempt too many, one too few.
ExhaustedLate(job) == job.AttemptCount > Len(Delays[job.ID])
ExhaustedEarly(job) == job.AttemptCount + 1 >= Len(Delays[job.ID])
Exhausted(job) == job.AttemptCount >= Len(Delays[job.ID])

\* adapter.Deliver and what processDeliveryJob decides from its result.
Deliver(result) ==
  /\ pc = "deliver"
  /\ attempts' = [attempts EXCEPT ![Current.ID] = @ + 1]
  /\ last' = [last EXCEPT ![Current.ID] = result]
  /\ delivered' = IF result = "success" THEN delivered \cup {Current.ID} ELSE delivered
  /\ pc' = IF result = "retryable" /\ ~Exhausted(Current) THEN "reschedule" ELSE "delete"
  /\ UNCHANGED <<jobs, clock, batch, clone, request, enqueued, deadLetters,
                 withdrawn, cut, faults, crashes, installs>>

\* Mutants: only refused jobs are redriven; delivered ones are too.
MustRedriveRefused(id) == last[id] = "refused" /\ id \in Notification \cap Redriven
MustRedriveAlways(id) == id \in Notification \cap Redriven

\* redrivePayload is called after DeleteDeliveryJob.
MustRedrive(id) == last[id] # "success" /\ id \in Notification \cap Redriven

\* DeleteDeliveryJob; its error is ignored.
Delete ==
  /\ pc = "delete"
  /\ \/ /\ jobs' = Drop(jobs, {Current.ID})
        /\ UNCHANGED faults
     \/ /\ StoreKind = "sqlite" /\ faults < MaxFaults
        /\ faults' = faults + 1
        /\ UNCHANGED jobs
  /\ IF MustRedrive(Current.ID)
     THEN pc' = "redrive" /\ UNCHANGED batch
     ELSE Advance
  /\ UNCHANGED <<clock, clone, request, history, crashes, installs>>

\* SendMessage to the dead letter queue; its error is ignored.
Redrive ==
  /\ pc = "redrive"
  /\ deadLetters' = [deadLetters EXCEPT ![Current.ID] = @ + 1]
  /\ Advance
  /\ UNCHANGED <<jobs, clock, clone, request, enqueued, attempts, last,
                 delivered, withdrawn, cut, faults, crashes, installs>>

\* Mutant: the attempt is not counted.
RescheduledUncounted(job) ==
  [job EXCEPT !.NextAttemptAt = clock + Delays[Current.ID][Current.AttemptCount + 1]]

\* The callback of rescheduleDeliveryJob, with the delay chosen from the copy.
Rescheduled(job) ==
  [job EXCEPT !.AttemptCount = @ + 1,
              !.NextAttemptAt = clock + Delays[Current.ID][Current.AttemptCount + 1]]

\* Mutant: the worker's copy is saved (INSERT OR UPDATE) without a lookup.
RescheduleUpsert ==
  /\ pc = "reschedule"
  /\ StoreKind = "sqlite"
  /\ jobs' = Put(jobs, Current.ID,
                 [AttemptCount |-> Current.AttemptCount + 1,
                  NextAttemptAt |-> clock, CreatedAt |-> clock])
  /\ Advance
  /\ UNCHANGED <<clock, clone, request, history, faults, crashes, installs>>

\* UpdateDeliveryJob on SQLite, or on either store when the job is gone:
\* ErrNotFound is ignored.
Reschedule ==
  /\ pc = "reschedule"
  /\ StoreKind = "sqlite" \/ Current.ID \notin DOMAIN jobs
  /\ jobs' = IF Current.ID \in DOMAIN jobs
             THEN Put(jobs, Current.ID, Rescheduled(jobs[Current.ID])) ELSE jobs
  /\ Advance
  /\ UNCHANGED <<clock, clone, request, history, faults, crashes, installs>>

FailReschedule ==
  /\ pc = "reschedule"
  /\ StoreKind = "sqlite" /\ faults < MaxFaults
  /\ faults' = faults + 1
  /\ Advance
  /\ UNCHANGED <<jobs, clock, clone, request, history, crashes, installs>>

\* UpdateDeliveryJob in memory: clone and callback, then the installation.
BeginReschedule ==
  /\ pc = "reschedule"
  /\ StoreKind = "memory"
  /\ Current.ID \in DOMAIN jobs
  /\ clone' = Put(jobs, Current.ID, Rescheduled(jobs[Current.ID]))
  /\ pc' = "install"
  /\ UNCHANGED <<jobs, clock, batch, request, history, faults, crashes, installs>>

InstallReschedule ==
  /\ pc = "install"
  /\ jobs' = clone
  /\ clone' = EmptyMap
  /\ Advance
  /\ UNCHANGED <<clock, request, history, faults, crashes, installs>>

WorkerStep ==
  \/ Poll
  \/ \E result \in {"success", "retryable", "refused"} : Deliver(result)
  \/ Delete \/ Redrive
  \/ Reschedule \/ FailReschedule \/ BeginReschedule \/ InstallReschedule

-----------------------------------------------------------------------------
\* Time matters only to jobs that wait: it passes while there is one.
Tick ==
  /\ \E id \in DOMAIN jobs : jobs[id].NextAttemptAt > clock
  /\ clock' = clock + 1
  /\ UNCHANGED <<jobs, worker, request, history, faults, crashes, installs>>

\* The process ends without Close and is started again.
Crash ==
  /\ crashes < MaxCrashes
  /\ crashes' = crashes + 1
  /\ jobs' = IF StoreKind = "memory" THEN EmptyMap ELSE jobs
  /\ pc' = "poll"
  /\ batch' = <<>>
  /\ clone' = EmptyMap
  /\ request' = <<>>
  /\ cut' = IF pc = "redrive" THEN cut \cup {Current.ID} ELSE cut
  /\ UNCHANGED <<clock, enqueued, attempts, last, delivered, deadLetters,
                 withdrawn, faults, installs>>

Next ==
  \/ BeginRequest \/ (\E id \in JobID : Enqueue(id)) \/ CommitOther
  \/ (\E t \in Range(TopicOf) : DeleteTopicJobs(t))
  \/ WorkerStep \/ Tick \/ Crash

\* The worker's goroutine runs until the process ends, and time passes.
Fairness == WF_vars(WorkerStep) /\ WF_vars(Tick)

Spec == Init /\ [][Next]_vars /\ Fairness

-----------------------------------------------------------------------------
JobRecord == [AttemptCount : Nat, NextAttemptAt : Nat, CreatedAt : Nat]
IsJobTable(m) == \E D \in SUBSET JobID : m \in [D -> JobRecord]
Results == {"success", "retryable", "refused"}

\* Tables hold jobs; the worker's current copy exists where it is needed and
\* a rescheduled one still has a delay to take (delays[job.AttemptCount]).
TypeOK ==
  /\ IsJobTable(jobs)
  /\ clock \in Nat
  /\ pc \in {"poll", "deliver", "delete", "redrive", "reschedule", "install"}
  /\ batch \in Seq([ID : JobID, AttemptCount : Nat])
  /\ (pc = "poll") = (batch = <<>>)
  /\ pc = "reschedule" => Current.AttemptCount < Len(Delays[Current.ID])
  /\ IsJobTable(clone)
  /\ Len(request) <= 1 /\ \A m \in Range(request) : IsJobTable(m)
  /\ \A ids \in {enqueued, delivered, withdrawn, cut} : ids \subseteq JobID
  /\ attempts \in [JobID -> Nat] /\ deadLetters \in [JobID -> Nat]
  /\ last \in [JobID -> Results \cup {"none"}]
  /\ faults \in 0..MaxFaults /\ crashes \in 0..MaxCrashes /\ installs \in 0..MaxInstalls

\* A job is posted at most once more than its policy has retries, plus once
\* for every store operation that failed unnoticed and every crash.  Each
\* stale clone the in-memory store installs may start the count again.
AttemptsBounded ==
  \A id \in JobID :
    attempts[id] <= (Len(Delays[id]) + 1) * (1 + installs) + faults + crashes

\* A job whose transaction committed leaves the store only when an endpoint
\* accepted it, refused it for good, or failed as often as the policy allows,
\* or its topic is deleted; whatever fails and wherever the process restarts.
NeverAbandoned ==
  \A id \in enqueued \ (DOMAIN jobs \cup withdrawn) :
    \/ last[id] \in {"success", "refused"}
    \/ attempts[id] > Len(Delays[id])

\* A notification with a redrive policy that has left the store undelivered
\* is sent to the dead letter queue, unless the process ended between
\* DeleteDeliveryJob and redrivePayload.
DeadLettered ==
  \A id \in (enqueued \ (DOMAIN jobs \cup withdrawn)) \cap Notification \cap Redriven :
    \/ id \in delivered \/ id \in cut
    \/ deadLetters[id] > 0
    \/ pc = "redrive" /\ Current.ID = id

\* A crash alone never repeats a dead letter (the job is deleted first), and
\* without a failure or a crash no message is both delivered and redriven;
\* confirmations and jobs without a policy are never redriven.
DeadLetterOnce ==
  \A id \in JobID :
    /\ deadLetters[id] <= 1 + faults
    /\ id \in delivered /\ deadLetters[id] > 0 => faults + crashes > 0
    /\ deadLetters[id] > 0 => id \in Notification \cap Redriven

\* The jobs of a deleted topic do not come back, although the worker may be
\* posting one of them and reschedules it after the deletion.
WithdrawnStaysGone == withdrawn \cap DOMAIN jobs = {}

\* Every job is settled in the end: neither the poll limit nor jobs that keep
\* failing starve it, once the store has stopped failing.
Drained == \A id \in JobID : id \in DOMAIN jobs ~> id \notin DOMAIN jobs
=============================================================================
