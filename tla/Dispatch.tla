------------------------------ MODULE Dispatch ------------------------------
(***************************************************************************)
(* The dispatch of one message: which subscriptions of the topic it goes   *)
(* to (FilterPolicy), and how it gets there: over SQS at once              *)
(* (SqsDelivery), over HTTP by a job of the delivery worker, which redrives *)
(* over SQS when it gives up.                                              *)
(***************************************************************************)
EXTENDS FilterPolicy, SqsDelivery

CONSTANTS
  Cases      \* what is subscribed and published, see CasesAssumption

\* raw: FilterPolicy as a client sends it.
SubscriptionRecord ==
  [Protocol : {"sqs", "http"}, Endpoint : Queue \cup {NoQueue}, Confirmed : BOOLEAN,
   DeadLetterTargetArn : Queue \cup {NoQueue}, RawMessageDelivery : BOOLEAN,
   FilterPolicyScope : {"", "MessageAttributes", "MessageBody"}]

ASSUME CasesAssumption ==
  \A c \in Cases :
    /\ {"subs", "raw", "body", "attrs", "tooMany", "configured", "queues", "faults", "changes"}
         = DOMAIN c
    /\ c.queues \in [Queue -> QueueState]
    /\ c.configured \in BOOLEAN /\ c.faults \in Nat /\ c.changes \in Nat
    /\ c.subs \in Seq(SubscriptionRecord)
    /\ \A i \in DOMAIN c.subs : c.subs[i].Protocol = "sqs" => c.subs[i].Endpoint \in Queue
    /\ c.raw \in [DOMAIN c.subs -> JSON \cup {Blank}] /\ DOMAIN c.subs \subseteq ID
    /\ c.body \in JSON \cup {Blank}
    /\ attributeRoot(c.attrs) \in JSONObject

VARIABLES
  case,      \* the instance
  filters,   \* FilterPolicy of the subscriptions, as stored
  phase,     \* of the Publish request: "before", then how dispatchPublish went
  jobs,      \* subscriptions with a delivery job
  selected   \* history: subscriptions the message goes to

vars == <<sqs, case, filters, phase, jobs, selected>>

Init ==
  /\ case \in Cases
  /\ configured = case.configured /\ queues = case.queues
  /\ faultsLeft = case.faults /\ changesLeft = case.changes
  /\ SqsInit
  /\ filters = [i \in DOMAIN case.subs |-> Blank]
  /\ phase = "before"
  /\ jobs = {} /\ selected = {}

-----------------------------------------------------------------------------
\* SetSubscriptionAttribute or Subscribe: the policy must be valid.
SetFilterPolicy(i) ==
  /\ phase = "before"
  /\ filters[i] # case.raw[i]
  /\ Validate(case.raw[i])
  /\ filters' = [filters EXCEPT ![i] = case.raw[i]]
  /\ UNCHANGED <<sqs, case, phase, jobs, selected>>

\* An error of the evaluation counts as no match.
GoesTo(outcome) == outcome = "match"

DeliveryOf(i) ==
  LET sub == case.subs[i] IN
  [id |-> i, Endpoint |-> sub.Endpoint, DeadLetterTargetArn |-> sub.DeadLetterTargetArn,
   fits |-> ~(sub.RawMessageDelivery /\ case.tooMany)]

InOrder(ids) ==
  LET upTo[n \in 0..Len(case.subs)] ==
        IF n = 0 THEN <<>> ELSE IF n \in ids THEN Append(upTo[n - 1], n) ELSE upTo[n - 1]
  IN upTo[Len(case.subs)]

\* The transaction of dispatchPublish, in the order of the subscriptions.
Publish ==
  /\ phase = "before"
  /\ phase' = "dispatched"
  /\ \E outcome \in [DOMAIN case.subs -> {"match", "nomatch", "error"}] :
       /\ \A i \in DOMAIN case.subs :
            outcome[i] \in Matches(filters[i], case.subs[i].FilterPolicyScope, case.body, case.attrs)
       /\ selected' = { i \in DOMAIN case.subs : case.subs[i].Confirmed /\ GoesTo(outcome[i]) }
  /\ jobs' = { i \in selected' : case.subs[i].Protocol = "http" }
  /\ LET direct == InOrder(selected' \ jobs') IN
     Take("request", [n \in DOMAIN direct |-> DeliveryOf(direct[n])], "check")
  /\ UNCHANGED <<case, filters>>

\* The transaction fails, and Publish with it; or only its query does, whose
\* error the listing drops: there seem to be no subscriptions, and Publish
\* succeeds without a delivery.
FailPublish ==
  /\ phase = "before"
  /\ phase' \in {"failed", "unlisted"}
  /\ UNCHANGED <<sqs, case, filters, jobs, selected>>

\* The worker is done with a job: delivered, or given up and redriven.
EndJob(i) ==
  /\ alive
  /\ i \in jobs
  /\ jobs' = jobs \ {i}
  /\ \/ UNCHANGED sqs
     \/ /\ case.subs[i].DeadLetterTargetArn # NoQueue
        /\ Take("worker", <<DeliveryOf(i)>>, "redrive")
  /\ at["worker"].todo = <<>>
  /\ UNCHANGED <<case, filters, phase, selected>>

Next ==
  \/ \E i \in DOMAIN case.subs : SetFilterPolicy(i) \/ EndJob(i)
  \/ Publish
  \/ FailPublish
  \/ SqsNext /\ UNCHANGED <<case, filters, phase, jobs, selected>>

\* The goroutine of the request runs on; the client's calls end.
RequestStep == Step("request") /\ UNCHANGED <<case, filters, phase, jobs, selected>>

Spec == Init /\ [][Next]_vars /\ WF_vars(RequestStep)

-----------------------------------------------------------------------------
\* The senders hold deliveries of confirmed subscriptions the dispatch
\* selected, at a call of the client that exists, and no sender is handed a
\* delivery that was handed over before.
TypeOK ==
  /\ SqsTypeOK
  /\ phase \in {"before", "dispatched", "failed", "unlisted"}
  /\ \A i \in DOMAIN filters : Validate(filters[i])
  /\ jobs \subseteq selected /\ selected \subseteq DOMAIN case.subs
  /\ { d.id : d \in taken } \subseteq selected \ jobs
  /\ phase # "dispatched" => taken = {}

\* Whether the policy of subscription i, read as a statement about the
\* message, accepts it.
Wanted(i) ==
  LET policy == filters[i]
      roots == Roots(case.subs[i].FilterPolicyScope, case.body, case.attrs)
  IN
  \/ Is("blank", policy)
  \/ \E root \in roots : Is("obj", policy) => Accepts[policy.obj][root]

\* The dispatch of a message reads the stored filter policies as statements
\* about it, in whatever order Go walks their maps.  It goes to no subscription
\* whose policy rejects it, unless the policy has a malformed CIDR under
\* "anything-but", whose error evalAnythingBut drops: that lets everything
\* through.  It goes to every confirmed subscription whose policy accepts it,
\* unless the policy has an operand that cannot be evaluated (Validate lets a
\* malformed CIDR or number pass), or the subscriptions could not be listed.
FilterRespected ==
  phase = "dispatched" =>
    \A i \in DOMAIN case.subs :
      LET conditions == ConditionsOf(filters[i]) IN
      /\ i \in selected /\ (\A c \in conditions : KeepsErrors(c)) => Wanted(i)
      /\ /\ Wanted(i) /\ case.subs[i].Confirmed
         /\ \A c \in conditions : Readable(c)
         => i \in selected
=============================================================================
