# A TLA+ model of the SNS emulator

This directory specifies the core of the emulator in TLA+, model-checks it with
TLC on small instances and proves its safety properties with TLAPS. Every
definition is translated from the Go source; `PROJECT.json` ("map") names the
lines each stands for.

## 1. The system

A single Go process (`cmd/snsd`) serves the SNS query API. Each request runs in
its own goroutine and calls the service; one more goroutine, the delivery
worker, posts messages to HTTP endpoints. All of them share one store.

| Part | State | Operations | Interacts with |
|---|---|---|---|
| query API (`internal/api`) | none | parse a form, call the service, format XML | service, request signatures |
| service (`internal/service/service.go`) | none of its own | topics, tags, permissions, subscriptions, `Publish`, `PublishBatch` | store, SQS client, delivery policies, filters, access policies |
| delivery worker (`internal/service/worker.go`) | the jobs it copied in one poll | poll, post, delete, redrive, reschedule | store, HTTP endpoints, SQS client |
| in-memory store (`internal/store/memory`) | maps of topics, subscriptions, tokens, jobs, and two indexes | one per `store.Tx` operation, `Tx`, in-place `DeleteDeliveryJob` | all goroutines |
| SQLite store (`internal/store/sqlite`) | the same as tables, kept over restarts | the same, each in a database transaction | all goroutines, a pool of connections |
| delivery policies (`internal/delivery`) | none | merge, parse, retry delays | service, worker |
| access policies (`internal/policy`) | none | add, remove, evaluate | service |
| filter policies (`internal/filter`) | none | match a message | `dispatchPublish` |
| SQS and HTTP clients (`internal/protocol`) | none | send, post | other services |
| signatures (`internal/auth`, `internal/signing`) | key material, written once | verify requests, sign messages | API, service |

What is hard about it:

* **`memory.Store.Tx` is not serializable.** It clones the state under a read
  lock, runs the callback without a lock, and installs the clone whatever
  happened meanwhile. Overlapping transactions undo each other.
* **The service decides in one transaction and acts in another**: subscribe
  (find, create), confirm (look up, use, delete the token), permissions and
  tags (read, then write a value computed from what was read), publish
  (record, dispatch, send).
* **Crashes**: `log.Fatal` never runs the deferred `Close`; SQLite keeps the
  tables, memory keeps nothing, SQS and HTTP endpoints keep what they got.
* **Errors are ignored** by the worker, by several store methods and, as status
  codes, by the SQS client; a request that is cancelled fails its own redrive.
* **Filter policies are walked in the random order of Go's maps**, with early
  ends on mismatches and errors.
* **Time**: deduplication windows, token expiry, retry delays.
* **SQLite settings per connection** behind a connection pool.

## 2. Modules

| Module | Models | Extends |
|---|---|---|
| `StoreState` | the data of the store, one operator per `store.Tx` operation | |
| `StoreTransactions` | the transactions the service runs, as sequences of operations | `StoreState` |
| `MemoryStore` | `memory.Store`: clients that clone, work and install | `StoreTransactions` |
| `SnapshotStore` | abstract: what `memory.Store.Tx` promises | `StoreTransactions` |
| `MemoryStoreProofs` | theorems about `MemoryStore` | `MemoryStore`, TLAPS |
| `FifoPublish` | `Service.Publish` on a FIFO topic, over either store | `StoreState` |
| `DeliveryWorker` | the delivery worker, over either store | `StoreState` |
| `DeliveryWorkerProofs` | theorems about `DeliveryWorker` | `DeliveryWorker`, TLAPS |
| `Subscriptions` | subscribe, confirm, unsubscribe, over SQLite | `StoreState` |
| `TopicAdmin` | access policy, permissions and tags of a topic, over SQLite | |
| `RetryPolicy` | delivery policies, retry delays, and the effective policy a subscription stores | |
| `FilterPolicy` | `internal/filter`: validation and evaluation of filter policies | |
| `SqsDelivery` | `deliverToSQS` and `redrivePayload` over the HTTP client of SQS | |
| `Dispatch` | the dispatch of one message: filters, SQS, jobs and their redrive | `FilterPolicy`, `SqsDelivery` |
| `Listing` | the three list operations, page by page, over either store | |
| `DispatchProofs` | theorems about `FilterPolicy`, `SqsDelivery` and their composition | `Dispatch`, TLAPS |
| `FifoPublishProofs`, `SubscriptionsProofs`, `TopicAdminProofs`, `RetryPolicyProofs`, `ListingProofs` | theorems about the module of the same name | that module, TLAPS |
| `MC*` | constants for TLC: input sets, symmetry | the module of the same name |

`StoreState` is the shared vocabulary. `MemoryStore` explains what the
in-memory store does to any sequence of transactions; `FifoPublish` and
`DeliveryWorker` repeat its clone/install steps for the part of the state they
look at (the topic, the job table), which is why they are told which store is
behind them. `Dispatch` composes two modules: `FilterPolicy` says where a message
goes, `SqsDelivery` how it gets there. Modules with several instances (`case`, a
variable that never changes) check them all in one run.

### State and actions against the code

*`MemoryStore`.* `state` is `Store.state`; `working[c]` and `todo[c]` are the
clone and the rest of the callback of goroutine `c`. `Begin` is the cloning,
`RunOp` one operation of the callback, `Rollback` an error, `Commit` the
installation, `DeleteJobInPlace` the one method that writes the live state.
Transactions are every single operation (the wrapper methods) and the composite
ones of `Subscribe`, `Unsubscribe` and `dispatchPublish`. Fields the store only
copies are one opaque `data`.

*`FifoPublish`.* A request goes through `update` (store call), `callback`,
`commit`, `dispatch`, `install`, `send`. The topic carries `GroupSequences` and
`DedupRecords` as in `domain.Topic`; a sequence number is
`Prefix * SequenceSpan + Counter`, where the code shifts by 64 bits.
`PublishBatch` leaves its entries in `batch[p]` and `PublishEntry` publishes them
one after the other; an entry that fails does not stop the next.
`SubscribeQueue` and `UnsubscribeQueue` change who gets a message while it is
under way; `dropped` remembers queues that were unsubscribed between acceptance and
listing. `SetFifoAttribute` changes deduplication and scope under way; a request keeps the
identifier it chose before its transaction and takes the scope from the topic
inside it, as the code does. On SQLite a
transaction whose snapshot is stale cannot commit (`MayCommit`: WAL mode refuses
to upgrade it, `SQLITE_BUSY`, and nothing retries). Any transaction may fail. A
send arrives, fails, or arrives with a lost answer. `accepted`, `replies`,
`sent` and `lost` are histories; `incarnation` tells topics apart that were
created one after the other under the same ARN.

*`DeliveryWorker`.* `jobs` is the table, `batch` the copies of one poll.
`Deliver` is `processDeliveryJob` up to its decision, then `Delete` (followed by
`Redrive` for notifications) or `Reschedule`. On memory, `BeginReschedule` and
`InstallReschedule` are its two halves and `BeginRequest` to `EndRequest` those
of any request; `CommitOther` is a request that has nothing to do with jobs and
still installs a stale table. The unconfigured-adapter branch is left out: `New`
registers the HTTP adapter for both protocols a job can have. The answer of an
endpoint is `success`, `retryable` or `refused` (`http.Adapter.Deliver`).

*`Subscriptions`.* Each store call is one step; between two calls of a request
anything may happen. `pool` is the set of `foreign_keys` settings of pooled
connections: `migrate` sets it on one connection, a connection opened later has
it off. `FindNothing` is `findExistingSubscription` with a query that fails: the
error is lost on the way and Subscribe goes on to create. `PutConfirmationToken` ignores the error of its statement; in the model
a failure fails the whole transaction.

*`TopicAdmin`.* A request prepares a change from the topic it read and a later
`UpdateTopic` applies it. A request brings a set of tags; what it is checked
against is the copy. A list in a statement that cannot be read is the empty set,
which matches nothing: the statement is skipped, as in the code. A policy is a sequence of statements; `Evaluate` is
the loop of the code, with the early return on `Deny`: a recursive function of
the number of statements read, as is `RemovePermission`.

*`RetryPolicy`.* Operators named as in `delivery/policy.go`. Numbers are machine
words of `HalfWord` (2^63 in the code): targets are seconds, delays nanoseconds
(`Second` units each), and `Wrap` is what overflow leaves. The quotient of the
linear backoff is rounded to `Precision`, as float64 does; the other products are
exact, which float64 is for targets that are Durations. Backoff functions are any
strings; unknown ones take the default branch. An empty `DeliveryPolicy` clears the
stored one. A request of
`SetSubscriptionAttribute` reads the topic (`ReadTopic`), updates the
subscription (`Apply`, with the effective policy) and stores the effective
policy a second time (`StoreEffective`, whose error is ignored);
`SetTopicPolicy` comes in between. A job is enqueued with the effective policy of
that moment, and the worker parses it again.

*`FilterPolicy`.* JSON values are records that name their kind; strings are
atoms, and what the libraries say about them (prefixes, wildcards, CIDR, number
syntax) are constants of the instance. An evaluation is the set of outcomes
(`match`, `nomatch`, `error`) that some order of the maps gives. The recursion of
the code is that of `validateObject` and `evalObject`, functions on the set
`JSON` of values the instance is made of; `Depth` is a measure that makes it end.
`Accepts` is the independent reading the evaluation is compared with: no order, no
errors, and none of the functions that evaluate conditions (`Alike` lists the pairs
of values that are taken for each other, where `equal` formats and compares). It
shares with them only the library's answers and `toFloat`. A malformed CIDR under
`anything-but` excludes nothing in the code and everything in the reading;
`KeepsErrors` singles such policies out. Objects inside the array of an `anything-but` are literals, as in the
code, not nested operators.

*`SqsDelivery`.* A sender is the `Publish` request or the worker. It is `for`
"check" (`QueueAllowsTopic`), "send" or "redrive", each a sequence of HTTP calls
that are `answered`, `refused` (an error document: the client reads no status
code, so a refused `SendMessage` succeeds) or `failed` (connection, timeout,
cancelled context; a send may have arrived). `ChangeQueue` is what others do to
queues; `NilClient` is what happens without `SQS_ENDPOINT`.

*`Dispatch`.* `SetFilterPolicy` stores what `Validate` accepts, `Publish` is the
transaction of `dispatchPublish` up to the list of deliveries, `FailPublish` one
that fails or whose listing is silently empty, `EndJob` the
worker's last step on a job (`DeliveryWorker` has the others).

*`Listing`.* ARNs are integers in sorting order; a page is a slice of the sorted
table at the offset the token encodes. `FailPage` is the query error that SQLite's
readers turn into an empty last page.

## 3. Runs

Bounds are chosen so that the interleavings the properties are about occur: two
actors, because the conflicts here are pairwise (one stale copy against one
commit); one or two objects of each kind.

| Run | Checks | Bounds |
|---|---|---|
| `memory_store` | `TypeOK`, `NoDanglingIndex`, and `AllOrNothing`: `MemoryStore` implements `SnapshotStore` | 2 clients, 1 identifier of each kind, all 30-odd transactions |
| `fifo` | `NoDuplicateInWindow`, `SequenceOrder`, `DuplicateNamesOriginal`, `SentAtMostOnce`, `QueueInSequenceOrder`, `AcceptedIsSent` | 2 publishers and seven instances. On SQLite: 3 messages of one group with 2 identifiers; a topic created twice; a malformed message and a change of the topic's attributes, 2 groups, content-based deduplication; batches of 2, one with an invalid entry. In memory: attribute changes, a topic created again after a crash, records that expire. Queues come and, where attributes change, go. A window of 2 and up to 3 clock values, so that a record of the first expires exactly at the third, any number of crashes |
| `worker_sqlite` | `AttemptsBounded`, `NeverAbandoned`, `DeadLettered`, `DeadLetterOnce`, `WithdrawnStaysGone`, `Drained` | 2 jobs with 2 and 1 retries, poll limit 1 (so that the limit bites), 2 failing store operations, 1 crash |
| `worker_memory` | `AttemptsBounded`, `Drained` | 2 jobs, 3 stale installations |
| `worker_memory_loss` | violated: `NeverAbandoned` | as above, poll limit 2 |
| `retry_policy` | `RoundTrip`, `DelaysOrdered`, `RetryCount`, `EffectiveIsCurrent` | absent, small, negative, inconsistent and overflowing values of each field, all backoff functions and an unknown one, words of 8 bits with a second of 4 units (so that 31 s is the longest Duration); 2 requests, which may clear the policy, and a change of the topic's |
| `subscriptions` | `NoDanglingToken`, `ConfirmedByEndpoint`, `PendingIsConfirmable`, `OnePerEndpoint` | 2 requests, 1 topic created twice, 1 HTTP and 1 SQS endpoint, 4 identifiers, 1 crash |
| `subscriptions_foreign_key` | violated: `SubscriptionHasTopic` | the same |
| `topic_admin` | `DenyOverrides`, `LabelsUnique`, `RevokedStaysRevoked`, `TagsBounded` | 2 requests, 2 accounts, 2 labels, a document with a denial that cannot be read, up to 2 tags per request of 7 keys, limit 2, topic created twice (the bound of 6 tags is reached) |
| `dispatch` | `FilterRespected`, `AllowedOnly`, `NothingLost`, `ArrivesOnce`, `PublishReturns` | up to 3 subscriptions and queues, one operator of each kind in the filters, nested and `$or` policies, unreadable operands also under `anything-but`, values that are written alike; a dispatch that fails or lists nothing; up to 2 failures and 2 changes of queues |
| `dispatch_unconfigured` | violated: `ProcessSurvives` | one HTTP subscription with a redrive policy, no `SQS_ENDPOINT` |
| `listing` | `ShiftsBounded` | both stores, all tables of up to 6 entries, pages of 1, 2 and (by default) 3, up to 2 insertions and 2 deletions at any point of any number of walks |

Most runs also check the module's `TypeOK`. Deadlock is not checked where the
bounds end all behaviour (every counter used up is a state without successor);
`memory_store` and `listing` have no such bound and check it.

### What the violated runs show

* `worker_memory_loss`: the worker reschedules a job on a clone taken before
  another request enqueued one; installing it erases the new job. What is
  shown here for jobs happens to every table: a request that clones the state before
  a message is published, and installs its clone afterwards, erases the
  deduplication record, and the message published again is accepted a second time.
  The `fifo` run therefore states `NoDuplicateInWindow`, `SequenceOrder`,
  `QueueInSequenceOrder` and `AcceptedIsSent` for SQLite only.
* `subscriptions_foreign_key`: two overlapping requests open a second
  connection, whose foreign keys are off. On it a subscription is inserted for a
  topic that was deleted meanwhile (the trace TLC prints), or a `DeleteTopic` leaves
  the subscriptions behind, against the schema's `ON DELETE CASCADE`.
* `dispatch_unconfigured`: `main` passes a nil `*HTTPClient` as an interface that
  is not nil, the checks for an unconfigured client never fire, and the worker's
  first redrive panics in a goroutine nobody recovers.

Some weaknesses are visible in how passing properties had to be stated. Messages
of one group published by overlapping requests may reach a queue out of sequence
order (`QueueInSequenceOrder` speaks of requests that follow each other), and
the limit of tags can be exceeded by one limit per request under way (`TagsBounded`).
An endpoint gets a second subscription when two requests overlap, a restore
follows a new one, or the query that looks for the first one fails
(`OnePerEndpoint` excepts these). A message whose dispatch is cut off after its
deduplication record was committed, or finds no subscriptions because the query
failed, is not sent again (`AcceptedIsSent` and `FilterRespected` except it).
Nothing bounds the delay targets of a policy; one that is no Duration gives delays
that wrap around (`DelaysOrdered` speaks of the others). A send that SQS refuses is
taken for a success, and a failed redrive is final (`NothingLost` excepts
both); a send whose answer is lost is in both queues (`ArrivesOnce`). A filter
policy with an unreadable operand is stored and may lose messages it should accept;
a malformed CIDR under `anything-but` lets everything through (`FilterRespected`
excepts exactly these). A page token is an offset (`ShiftsBounded`), and a failed list query looks like the end of the list.

### Fairness

`dispatch` assumes weak fairness of the steps of the `Publish` request: its
goroutine runs on, and every call to SQS ends (the client has a timeout of
10 s). It does not assume that any call succeeds. `AcceptedIsSent` needs no
fairness: it is about requests that have ended. `worker_*` assume weak fairness of the
worker, a loop that ends only with the process, and of the clock. Nothing is
assumed of clients, endpoints, the other requests, or of the absence of
failures; these are bounded instead. `Drained` is checked without assuming that
any attempt succeeds.

## 4. Proofs

The theorems have the form `Spec => []P` for a property `P` of section 3, for all
values of the constants; `TransactionsAllOrNothing` and `DispatchImplements` are
refinements, `EvaluateFacts` and `PolicyEvaluation` are about operators. The layout is the same in each proof module:
an inductive invariant `IInv`, a lemma per action that the action preserves it,
and the theorems at the end. Hardly any of the properties is inductive by itself,
mostly for one reason: requests and the worker act on copies of what they read in
an earlier transaction. An `IInv` says what such a
copy still tells of the state it was made from.

| Module | Theorems |
|---|---|
| `MemoryStoreProofs` | `TypeCorrect`, `IndexesNeverDangle`, `TransactionsAllOrNothing` |
| `FifoPublishProofs` | `TypeCorrect`, `Deduplication`, `NumbersIncrease`, `AnswersAreTrue`, `NoSecondSend`, `QueuesInOrder`, `NothingForgotten` |
| `DeliveryWorkerProofs` | `WorkerTypeCorrect`, `AttemptsStayBounded`, `JobsNeverAbandoned`, `DeadLettersSent`, `DeadLettersOnce`, `WithdrawnJobsStayGone` |
| `SubscriptionsProofs` | `TypeCorrect`, `TokensLeadToSubscriptions`, `EndpointsConsent`, `PendingHasToken`, `OneSubscription` |
| `TopicAdminProofs` | `EvaluateFacts`, `TypeCorrect`, `UniqueLabels`, `RevocationHolds`, `TagLimitHolds`, `DenyWins` |
| `RetryPolicyProofs` | `ParsedAsEnqueued`, `RetriesCounted`, `DelaysInOrder`, `EffectiveStaysCurrent` |
| `DispatchProofs` | `PolicyEvaluation`, `PoliciesRespected`, `DispatchTypeCorrect`, `DispatchImplements`, `DispatchDelivers`; of `SqsSpec`: `SentWhereAllowed`, `MessagesNotLost`, `ArrivesAtMostOnce` |
| `ListingProofs` | `WalksShiftBounded` |

"theorems" in `PROJECT.json` says which property each one states.

### The arguments

*`MemoryStore`.* `Install` may undo anything, so no property that relates the
committed state to the past survives; but a clone is a former committed state
changed by operations, so what every single operation preserves holds of all
clones and hence of all committed states. `NoDanglingIndex` is therefore stated
of the state *and* of every clone, which makes it inductive together with
`TypeOK`. The only fact used about identifiers is that the ARN of a topic
determines its name and the ARN of a subscription its topic (both are part of
the types). For the refinement, `SnapshotStore` fixes the outcome of a
transaction when the state is cloned, `MemoryStore` works it out one operation
at a time: the mapping is the outcome of the operations that are left on the
clone as it is. `OutcomeOfRest` shows that taking one operation does not change
it, so `RunOp` is a stutter, `Begin` computes, `Commit` installs and `Rollback`
discards. It assumes `NoStateAssumption` (the mark of a failed transaction is
no state).

*`FifoPublish`.* Whatever a copy of the topic missed, each of its deduplication
records names a committed message, and its counters count committed messages
only (`Copies`); that alone gives `AnswersAreTrue` and `NoSecondSend`, over both
stores. On SQLite a transaction commits only if its snapshot is current
(`MayCommit`), so the topic remembers every message of its incarnation
(`Remembered`) and numbers of a later incarnation have a later prefix (`Older`):
deduplication and increasing numbers. The order in queues needs which messages a
request had seen ended before it began (`Seen`), that a message some request
still owes a queue is not in it (`Unsent`), and that a request has listed every
queue that was subscribed and not dropped since (`Dispatched`).
Assumptions: the window and the span of a counter are not 0, instances are of
their types (`CasesAssumption`: batches of 1 to 10 entries, the clock not at 0,
which the code takes for "no prefix"), `NoTopic` is no topic.

*`DeliveryWorker`*, first over SQLite. The copies of one poll are of
different jobs (`CopiesDiffer`), each still has its row unless the topic was
deleted or the job is under redrive (`CopiesKnown`), and a row has the attempt
count of its copy (`CopiesFresh`), because nobody but the worker reschedules or
deletes single jobs. `RowCounts` and `CopyCounts` tie that count to the posts
really made: they differ by at most one for every failed operation and crash,
and by the one post not yet recorded. `Decided` keeps the reason of a deletion
until it happens. `DeadLettersOnce` adds `Letters` (a job that still has its row
or is about to be redriven has been redriven no more often than operations have
failed) and `Served` (without failures, a delivered job is deleted next and then
out of the worker's reach). Assumptions:
delays are sequences of naturals, the poll limit is not 0, bounds are numbers.

The same over the in-memory store, where `NeverAbandoned` is false
(`worker_memory_loss`) and the other properties are about SQLite only:
`WorkerTypeCorrect` and `AttemptsStayBounded`. Installing a stale table can bring
a job back with the attempt count it had long ago, so counts say nothing by
themselves. `MemoryInv` pays for every post instead: each installation by a
request grants every job one more round of attempts, and the count of a row, of a
row in the worker's clone and of a copy of the worker, together with the rounds
granted so far, cover the posts made (`RowsPaid`, `ClonePaid`, `CopiesPaid`). All
posts are covered by one full round more (`RoundsPaid`), so the round that an
installation grants pays for whatever row it brings back. `RowsBehind` and
`ClonesBehind` say that no row and no clone is ahead of what the worker holds: its
reschedules never push a count past the last delay.

*`Subscriptions`.* A row never changes its topic, and an identifier is never
issued again; so a copy that a request read speaks of the same row or of
none (`ConfirmCopies`, `DropCopies`, `UnsubscribeCopies`, `CreateCopies`).
`Overlaps` says that any two requests about to create the same subscription are
recorded as overlapping, which is what `OnePerEndpoint` excepts.

*`TopicAdmin`.* A change under way is the whole policy that will be written, so
`Labelled` and `Revocations` say of every prepared policy what the properties say
of the stored one; `TagCount` counts, beside the tags, one limit for each request
that has passed the check and not yet written (hence `RequestAssumption` and
`TagsAssumption`: finitely many requests and tags). `EvaluateFacts` is about the loop
itself, for policies of any length.

*`RetryPolicy`.* Merged policies are `Settled`: no field of theirs reads as absent
when they are parsed again. That is what makes parsing give back what was
enqueued. `Unharmed` says what a request still holds if nobody wrote between its
two steps. `DelaysInOrder` needs no invariant, but facts about the arithmetic: the
linear interpolation is monotone and, although its step is rounded up or down, stays
at or below the maximum (`InRange`: no more steps than the precision tells apart),
doubling is monotone, and a target that is a Duration does not wrap. Assumptions:
`WordAssumption` (the defaults fit a word), `FunctionsAssumption` (the default and the
absent backoff function are among the strings).

*`SqsDelivery`.* It is an open system: another module hands it deliveries. The
first theorems are about `SqsSpec`, which lets any sender that is idle be handed
any list of new deliveries with queues as their targets (`HandOver`).
The invariant follows what is under way: each delivery is in one place of one
list (`Distinct`), has a queue to go to (`Destined`), has not arrived unless its
answer was lost and it is being redriven (`Unsent`), and is sent only to a queue
that was seen to allow the topic (`Allowing`).

*`FilterPolicy`.* An outcome is `Right` when a match means that the policy accepts,
provided all its conditions are of the kind `KeepsErrors`, and, if all operands can be
read, the outcome is the verdict of the independent reading. That is shown operator by operator (`EqualRight`, `NestedRight`,
`CompareRight`, ..., `ConditionRight`), then for the two
ways outcomes are combined, the array that stops at its first match or error
(`FirstRight`) and the map in any order (`AllRight`), and last for objects by
induction on their depth (`PolicyRight`). Two facts of the code carry the
argument: `Validate` lets an object have one operator only, so the order in
which `evalOperator` looks for its keys does not matter; and an unreadable operand
gives an error instead of a match, also after earlier clauses that held, everywhere
but under `anything-but`.
Assumptions: `JSONAssumption` (values contain values, nested objects are less
deep), `RelatedAssumption` (no address is in a network that is none),
`ParseAssumption` (parsed numbers are numbers), `FormatAssumption` (no number is printed
like a constant) and, on the instance, `CasesAssumption` (an SQS subscription has a queue
as its endpoint, bodies and attributes are JSON).

*`Dispatch`.* `DispatchInv` adds to the invariant of the senders that stored
policies are valid, that what was handed over was selected and has no job any more
(`Bookkeeping`), and `FilterRespected` itself. With it every step is one of the
senders or a `HandOver` (`Composes`): `Publish` lists the selected SQS
subscriptions in their order, none twice (`InOrderFacts`), and a redriven job is one
that was not handed over before. So `Dispatch` implements `SqsSpec`, and
`DispatchDelivers` follows for the closed system.

*`Listing`.* While a walk is under way, `Missed` are the entries before its offset
that it has not returned, and `Repeated` those returned twice, or returned and
now at or after the offset. A deletion of k entries behind the offset moves at
most k entries over it (`DeleteMoves`: both tables have at most n entries before
position n, and the old one exactly n if any entry moves), an insertion at most
one (`InsertMovesOne`), and changes ahead of it none. `PageFacts` shows that both
ways of cutting a page, the slice and `LIMIT n+1`, leave no gap. Assumptions: ARNs
are ordered like integers, the default page size is not 0, tokens are not
confused with their absence (`TokenAssumption`); tables are finite.

### Induction over data

The library's induction theorems take a predicate as a parameter, which the
installed provers cannot instantiate. The inductions that are needed (over the
statements of a policy in `Evaluate` and `RemovePermission`, the operations of a
transaction in `Outcome`, the doublings in `Pow2`, positions in a table, the depth
of a filter policy, the subscriptions in `InOrder`) are done with *sets* in place of
predicates: a set without a least counterexample has none (`SetInduction`,
`LeastNat`, `DepthInduction`, from `WFMin` and `NatLessThanWellFounded`). These
definitions are recursive functions for that reason. That a recursive function
satisfies its equation is a fact too: `FixedPoint` proves it, with the body of the
definition as a function on functions, for every body that looks only at elements
of smaller depth.

### Only model-checked

Liveness, which the prover does not do: `Drained`, `PublishReturns`. Every other
property of a passing run is also a theorem.

## 5. Not modelled

* Request signatures and message signing: canonicalisation, HMAC, RSA; string
  and crypto work without state (the signing material is written once at start).
* The parsing of forms and the formatting of XML in the query API, and the
  readers `GetTopicAttributes` and `GetSubscriptionAttributes`. (The former
  counts the subscriptions of the first page only.)
* The encoding of rows and times in SQLite: times are compared as RFC 3339
  strings, which misplaces a job by less than a second; a statement that fails
  alone inside a transaction that commits.
* Attributes that requests validate and overwrite one at a time (display name,
  signature version, tracing and the like), `validateSQSSubscription`, which
  reads only, deduplication keys that collide because they contain the colon that
  joins their parts, and the 10 000 subscriptions after which the dispatch ignores the
  rest.
* Subscriptions and permissions over the in-memory store: what its transactions
  do to any state is the subject of `MemoryStore`.
* The test harness.

"components" in `PROJECT.json` gives the reasons; "hazards" lists what could go
wrong.

## 6. Plan

Done: the store, FIFO publishing with batches and attribute changes, the worker
over both stores, delivery and filter policies, the SQS client and the dispatch
that composes them, subscriptions, permissions and tags, listing; proofs of every
safety property of section 3.

Next: subscriptions and permissions over the in-memory store, and the two hazards
in `PROJECT.json` without a property (the order of time strings within a second, a
token whose statement fails alone).
