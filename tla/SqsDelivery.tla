---------------------------- MODULE SqsDelivery -----------------------------
(***************************************************************************)
(* Delivery to SQS: deliverToSQS and redrivePayload of the service over    *)
(* the HTTP client of internal/protocol/sqs.  A delivery asks whether the  *)
(* queue allows the topic (GetQueueUrl, GetQueueAttributes) and then sends *)
(* (GetQueueUrl, GetQueueAttributes, SendMessage); when it fails, the      *)
(* message is sent to the dead letter queue.  Queues change in between.    *)
(*                                                                         *)
(* Two senders use the client: the Publish request, for the subscriptions  *)
(* its dispatch selected, and the delivery worker, which redrives.  A call *)
(* is answered, refused with an error document, or fails (connection,      *)
(* timeout, cancelled context).  The client looks at no status code.       *)
(***************************************************************************)
EXTENDS Integers, Sequences, Functions

CONSTANTS
  Queue, NoQueue,
  ID            \* identifiers of deliveries

VARIABLES
  queues,      \* the queues of the SQS service
  configured,  \* SQS_ENDPOINT is set
  at,          \* at[p]: what sender p has to do, the current delivery first
  cancelled,   \* the client of the Publish request is gone
  alive,       \* the process runs
  faultsLeft, changesLeft,   \* bounds: spontaneous failures, changes of queues
  allowed,     \* history: queues that have allowed the topic so far
  arrived,     \* history: notifications in the subscribed queues
  dead,        \* history: messages in dead letter queues
  unanswered,  \* history: sends that arrived and whose answer was lost
  unnoticed,   \* history: sends that were refused and taken for successes
  gaveUp,      \* history: deliveries whose redrive failed or was cut off
  taken        \* history: deliveries handed to a sender

sqs == <<queues, configured, at, cancelled, alive, faultsLeft, changesLeft,
         allowed, arrived, dead, unanswered, unnoticed, gaveUp, taken>>

Sender == {"request", "worker"}
QueueState == [exists : BOOLEAN, allows : BOOLEAN]
Delivery == [id : ID, Endpoint : Queue \cup {NoQueue},
             DeadLetterTargetArn : Queue \cup {NoQueue}, fits : BOOLEAN]

Idle == [todo |-> <<>>, for |-> "check", call |-> "GetQueueUrl"]
Current(p) == Head(at[p].todo)
Target(p) ==
  IF at[p].for = "redrive" THEN Current(p).DeadLetterTargetArn ELSE Current(p).Endpoint

SqsInit ==
  /\ at = [p \in Sender |-> Idle]
  /\ cancelled = FALSE /\ alive = TRUE
  /\ allowed = { q \in Queue : queues[q].exists /\ queues[q].allows }
  /\ arrived = [d \in ID |-> 0] /\ dead = [d \in ID |-> 0]
  /\ unanswered = {} /\ unnoticed = {} /\ gaveUp = {} /\ taken = {}

\* deliveries are handed to a sender that has none.
Take(p, list, purpose) ==
  /\ at[p].todo = <<>>
  /\ at' = [at EXCEPT ![p] = [todo |-> list, for |-> purpose, call |-> "GetQueueUrl"]]
  /\ taken' = taken \cup Range(list)
  /\ UNCHANGED <<queues, configured, cancelled, alive, faultsLeft, changesLeft, allowed,
                 arrived, dead, unanswered, unnoticed, gaveUp>>

-----------------------------------------------------------------------------
(***************************************************************************)
(* One HTTP call of the client.                                            *)
(***************************************************************************)
\* A cancelled context fails every call; a missing queue is answered with an
\* error document.  The worker's context is never cancelled.
Expected(p) ==
  CASE p = "request" /\ cancelled -> "failed"
    [] ~(p = "request" /\ cancelled) /\ queues[Target(p)].exists -> "answered"
    [] OTHER -> "refused"

Answer(p, a) ==
  \/ a = Expected(p) /\ UNCHANGED faultsLeft
  \/ /\ a \in {"refused", "failed"} \ {Expected(p)}
     /\ Expected(p) # "failed"
     /\ faultsLeft > 0
     /\ faultsLeft' = faultsLeft - 1

Calling(p, call) ==
  /\ alive /\ configured
  /\ at[p].todo # <<>>
  /\ at[p].call = call

Goto(p, purpose, call) == at' = [at EXCEPT ![p].for = purpose, ![p].call = call]

\* The loop of dispatchPublish goes to the next delivery.
Finish(p) ==
  at' = [at EXCEPT ![p] = [todo |-> Tail(@.todo), for |-> "check", call |-> "GetQueueUrl"]]

\* Mutant: the next try comes at once, and for ever.
FailRetries(p) == Goto(p, at[p].for, "GetQueueUrl") /\ UNCHANGED gaveUp

\* Mutant: redriven without a redrive policy.
FailAlwaysRedrives(p) ==
  IF at[p].for # "redrive"
  THEN Goto(p, "redrive", "GetQueueUrl") /\ UNCHANGED gaveUp
  ELSE Finish(p) /\ gaveUp' = gaveUp \cup {Current(p).id}

\* deliverToSQS returns an error: redrivePayload, if there is a policy.  The
\* error of a redrive is ignored.
Fail(p) ==
  IF at[p].for # "redrive" /\ Current(p).DeadLetterTargetArn # NoQueue
  THEN Goto(p, "redrive", "GetQueueUrl") /\ UNCHANGED gaveUp
  ELSE /\ Finish(p)
       /\ gaveUp' = IF at[p].for = "redrive" THEN gaveUp \cup {Current(p).id} ELSE gaveUp

GetQueueUrl(p) ==
  /\ Calling(p, "GetQueueUrl")
  /\ \E a \in {"answered", "refused", "failed"} :
       /\ Answer(p, a)
       /\ IF a = "answered"
          THEN Goto(p, at[p].for, "GetQueueAttributes") /\ UNCHANGED gaveUp
          ELSE Fail(p)
  /\ UNCHANGED <<queues, configured, cancelled, alive, changesLeft, allowed, arrived,
                 dead, unanswered, unnoticed, taken>>

\* Mutant: a policy that could not be read allows everything.
PolicyAllowsUnread(p, a) == a = "answered" => queues[Target(p)].allows
\* QueueAllowsTopic: no attributes, no policy, not allowed.
PolicyAllows(p, a) == a = "answered" /\ queues[Target(p)].allows

\* fits: raw delivery carries at most ten message attributes.
GetQueueAttributes(p) ==
  /\ Calling(p, "GetQueueAttributes")
  /\ \E a \in {"answered", "refused", "failed"} :
       /\ Answer(p, a)
       /\ \/ /\ a # "failed" /\ at[p].for # "check"
             /\ Goto(p, at[p].for, "SendMessage")
             /\ UNCHANGED gaveUp
          \/ /\ a # "failed" /\ at[p].for = "check"
             /\ IF PolicyAllows(p, a) /\ Current(p).fits
                THEN Goto(p, "send", "GetQueueUrl") /\ UNCHANGED gaveUp
                ELSE Fail(p)
          \/ a = "failed" /\ Fail(p)
  /\ UNCHANGED <<queues, configured, cancelled, alive, changesLeft, allowed, arrived,
                 dead, unanswered, unnoticed, taken>>

Receive(p) ==
  IF at[p].for = "redrive"
  THEN dead' = [dead EXCEPT ![Current(p).id] = @ + 1] /\ UNCHANGED arrived
  ELSE arrived' = [arrived EXCEPT ![Current(p).id] = @ + 1] /\ UNCHANGED dead

\* Mutant: a send that fails is taken for a success.
AfterSendIgnores(p, a) == Finish(p) /\ UNCHANGED gaveUp
\* An error document is an answer like any other: SendMessage succeeds.
AfterSend(p, a) ==
  IF a = "failed" THEN Fail(p) ELSE Finish(p) /\ UNCHANGED gaveUp

SendMessage(p) ==
  /\ Calling(p, "SendMessage")
  /\ \E a \in {"answered", "refused", "failed"} :
       /\ Answer(p, a)
       /\ AfterSend(p, a)
       /\ \/ a = "answered" /\ Receive(p) /\ UNCHANGED <<unanswered, unnoticed>>
          \/ /\ a = "refused"
             /\ unnoticed' = unnoticed \cup {Current(p).id}
             /\ UNCHANGED <<arrived, dead, unanswered>>
          \/ a = "failed" /\ UNCHANGED <<arrived, dead, unanswered, unnoticed>>
          \/ /\ a = "failed" /\ Expected(p) = "answered"
             /\ Receive(p)
             /\ unanswered' = unanswered \cup {Current(p).id}
             /\ UNCHANGED unnoticed
  /\ UNCHANGED <<queues, configured, cancelled, alive, changesLeft, allowed, taken>>

\* Without SQS_ENDPOINT main passes a nil *HTTPClient, which is no nil
\* interface: the checks of the service do not see it, and the client's first
\* use of itself panics.  net/http recovers the panic of a request; in the
\* worker's goroutine it ends the process.
NilClient(p) ==
  /\ alive /\ ~configured
  /\ at[p].todo # <<>>
  /\ LET cut == IF p = "request" THEN {p} ELSE Sender IN
       /\ at' = [x \in Sender |-> IF x \in cut THEN Idle ELSE at[x]]
       /\ gaveUp' = gaveUp \cup { d.id : d \in UNION { Range(at[x].todo) : x \in cut } }
  /\ alive' = (p = "request")
  /\ UNCHANGED <<queues, configured, cancelled, faultsLeft, changesLeft, allowed, arrived,
                 dead, unanswered, unnoticed, taken>>

Step(p) == GetQueueUrl(p) \/ GetQueueAttributes(p) \/ SendMessage(p) \/ NilClient(p)

-----------------------------------------------------------------------------
(***************************************************************************)
(* The environment.                                                        *)
(***************************************************************************)
\* A queue is deleted or created, or its policy is changed.
ChangeQueue(q) ==
  /\ changesLeft > 0
  /\ \E s \in QueueState \ {queues[q]} :
       /\ queues' = [queues EXCEPT ![q] = s]
       /\ allowed' = IF s.exists /\ s.allows THEN allowed \cup {q} ELSE allowed
  /\ changesLeft' = changesLeft - 1
  /\ UNCHANGED <<configured, at, cancelled, alive, faultsLeft, arrived, dead, unanswered,
                 unnoticed, gaveUp, taken>>

\* The client of the Publish request closes its connection.
Cancel ==
  /\ faultsLeft > 0
  /\ at["request"].todo # <<>> /\ ~cancelled
  /\ cancelled' = TRUE
  /\ faultsLeft' = faultsLeft - 1
  /\ UNCHANGED <<queues, configured, at, alive, changesLeft, allowed, arrived, dead,
                 unanswered, unnoticed, gaveUp, taken>>

SqsNext == (\E p \in Sender : Step(p)) \/ (\E q \in Queue : ChangeQueue(q)) \/ Cancel

-----------------------------------------------------------------------------
SqsTypeOK ==
  /\ queues \in [Queue -> QueueState]
  /\ configured \in BOOLEAN /\ cancelled \in BOOLEAN /\ alive \in BOOLEAN
  /\ \A p \in Sender :
       /\ at[p].todo \in Seq(Delivery)
       /\ at[p].for \in {"check", "send", "redrive"}
       /\ at[p].call \in {"GetQueueUrl", "GetQueueAttributes", "SendMessage"}
       /\ at[p].todo # <<>> => Target(p) \in Queue
       /\ at[p].call = "SendMessage" => at[p].for # "check"
  /\ faultsLeft \in Nat /\ changesLeft \in Nat
  /\ allowed \subseteq Queue
  /\ arrived \in [ID -> Nat] /\ dead \in [ID -> Nat]
  /\ unanswered \subseteq ID /\ unnoticed \subseteq ID /\ gaveUp \subseteq ID
  /\ taken \subseteq Delivery

UnderWay == UNION { Range(at[p].todo) : p \in Sender }

\* A notification is in a queue only if the queue existed and allowed the
\* topic at some moment before the send: QueueAllowsTopic reads the policy two
\* calls before SendMessage, and queues are deleted, created and changed in
\* between.
AllowedOnly ==
  \A d \in taken : arrived[d.id] > 0 => d.Endpoint \in allowed

\* A delivery that is over has left the message in the queue or, if there is
\* a redrive policy, in the dead letter queue, unless the redrive failed as
\* well or SQS refused a send (the client takes that for a success).  A
\* failure of one delivery takes nothing from those after it.
NothingLost ==
  \A d \in taken \ UnderWay :
    \/ arrived[d.id] + dead[d.id] > 0
    \/ d.DeadLetterTargetArn = NoQueue
    \/ d.id \in unnoticed \cup gaveUp

\* No delivery is sent twice, and none is in both queues but one whose send
\* arrived without an answer.
ArrivesOnce ==
  \A d \in taken :
    /\ arrived[d.id] <= 1 /\ dead[d.id] <= 1
    /\ arrived[d.id] > 0 /\ dead[d.id] > 0 => d.id \in unanswered

\* Publish is answered: every call ends (the client has a timeout of ten
\* seconds) and every delivery makes a bounded number of them.
PublishReturns == at["request"].todo # <<>> ~> at["request"].todo = <<>>

\* A missing SQS_ENDPOINT is an error of the request or the redrive that
\* needed it, not the end of the process.
ProcessSurvives == alive
=============================================================================
