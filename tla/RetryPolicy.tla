---------------------------- MODULE RetryPolicy -----------------------------
(***************************************************************************)
(* internal/delivery: how the delivery policies of a topic and of a        *)
(* subscription make the policy of a delivery job, and which retry delays  *)
(* the worker takes from it.  A job carries the effective policy as JSON,  *)
(* which the worker parses, and completes with defaults, once more.        *)
(*                                                                         *)
(* A retry policy is a record of integers and the backoff function; 0 and  *)
(* "" are what JSON leaves in an absent field.  Targets are in seconds,    *)
(* delays in nanoseconds (time.Duration); both are machine words, and      *)
(* nothing bounds the targets, so that the conversion may overflow.        *)
(***************************************************************************)
EXTENDS Integers, Sequences

CONSTANTS
  Request,       \* SetSubscriptionAttributes requests
  Cases,         \* policies and requests, see CasesAssumption
  MaxRetries,    \* 100 in the code
  BackoffFunctions, \* the strings clients set; nothing checks them
  HalfWord,      \* 2^63: an int and a time.Duration are below it
  Second,        \* time.Second, 10^9 in the code
  Precision      \* what float64 rounds a quotient to, see Quotient

Words == -HalfWord..(HalfWord - 1)

RetryPolicies ==
  [MinDelayTarget : Words, MaxDelayTarget : Words, NumRetries : Words,
   NumNoDelayRetries : Words, NumMinDelayRetries : Words, NumMaxDelayRetries : Words,
   BackoffFunction : BackoffFunctions]

\* The "http" object of a topic's DeliveryPolicy.
TopicPolicies ==
  [DefaultHealthyRetryPolicy : RetryPolicies, DisableSubscriptionOverrides : BOOLEAN]

\* topic: the policy of the topic; later: what it is changed to; value: what
\* each request sets, and the policy when it is DeliveryPolicy (an empty
\* value clears it).
ASSUME CasesAssumption ==
  \A c \in Cases :
    /\ c.topic \in TopicPolicies /\ c.later \subseteq TopicPolicies
    /\ DOMAIN c.value \subseteq Request
    /\ \A r \in DOMAIN c.value :
         /\ c.value[r].attribute \in {"DeliveryPolicy", "other"}
         /\ c.value[r].policy \in Seq(RetryPolicies) /\ Len(c.value[r].policy) <= 1
ASSUME MaxRetriesAssumption == MaxRetries \in Nat
\* One of them is the default; an absent field is "".
ASSUME FunctionsAssumption == {"", "linear"} \subseteq BackoffFunctions
\* The defaults fit a word.
ASSUME WordAssumption ==
  HalfWord \in Nat /\ HalfWord > 20 /\ Second \in Nat \ {0} /\ Precision \in Nat \ {0}

\* The value that is stored for an integer: two's complement.
Wrap(n) == ((n + HalfWord) % (2 * HalfWord)) - HalfWord

\* time.Duration(n) * time.Second.
Seconds(n) == Wrap(n * Second)

\* The longest delay that is a Duration, some 292 years in the code.
MaxSeconds == (HalfWord - 1) \div Second

-----------------------------------------------------------------------------
DefaultPolicy ==
  [MinDelayTarget |-> 20, MaxDelayTarget |-> 20, NumRetries |-> 3,
   NumNoDelayRetries |-> 0, NumMinDelayRetries |-> 0, NumMaxDelayRetries |-> 0,
   BackoffFunction |-> "linear"]

Counts == {"NumRetries", "NumNoDelayRetries", "NumMinDelayRetries", "NumMaxDelayRetries"}

Or(value, fallback) == IF value = 0 THEN fallback ELSE value

\* The counts are taken from the override together, when one of them is set.
mergeRetryPolicy(base, override) ==
  LET counts == IF \E f \in Counts : override[f] # 0 THEN override ELSE base
      min == Or(Or(override.MinDelayTarget, base.MinDelayTarget), 20)
  IN
  [MinDelayTarget |-> min,
   MaxDelayTarget |-> Or(Or(override.MaxDelayTarget, base.MaxDelayTarget), min),
   NumRetries |-> counts.NumRetries,
   NumNoDelayRetries |-> counts.NumNoDelayRetries,
   NumMinDelayRetries |-> counts.NumMinDelayRetries,
   NumMaxDelayRetries |-> counts.NumMaxDelayRetries,
   BackoffFunction |->
     CASE override.BackoffFunction # "" -> override.BackoffFunction
       [] override.BackoffFunction = "" /\ base.BackoffFunction # "" -> base.BackoffFunction
       [] OTHER -> "linear"]

\* Mutant: base and override swapped.
ParseSubscriptionPolicySwapped(raw) == mergeRetryPolicy(raw, DefaultPolicy)

\* ParseSubscriptionPolicy with mergeDefaults.
ParseSubscriptionPolicy(raw) == mergeRetryPolicy(DefaultPolicy, raw)

\* sub is a sequence: empty when the subscription has no policy.
EffectivePolicy(topic, sub) ==
  LET base == mergeRetryPolicy(DefaultPolicy, topic.DefaultHealthyRetryPolicy) IN
  IF topic.DisableSubscriptionOverrides \/ sub = <<>> THEN base
  ELSE mergeRetryPolicy(base, ParseSubscriptionPolicy(sub[1]))

-----------------------------------------------------------------------------
Smaller(a, b) == IF a < b THEN a ELSE b
Larger(a, b) == IF a > b THEN a ELSE b

\* What the loop multiplies by: value *= 2, attempt times.
Pow2(attempt) ==
  LET p[n \in 0..attempt] == IF n = 0 THEN 1 ELSE 2 * p[n - 1] IN p[attempt]

\* d / n in float64: the nearest multiple of 1 / Precision, in such units.
Quotient(d, n) == (2 * d * Precision + n) \div (2 * n)

\* Mutant: the delay grows beyond the target.
backoffDelayUncapped(rp, attempt, total) == rp.MinDelayTarget * (attempt + 1)

\* attempt counts from 0.  The numbers are exact: a product that is no int64,
\* which Go converts to anything, comes only of targets that are no Durations.
backoffDelay(rp, attempt, total) ==
  IF total <= 1 THEN rp.MinDelayTarget
  ELSE CASE rp.BackoffFunction \in {"arithmetic", "linear"} ->
              rp.MinDelayTarget
                + (Quotient(rp.MaxDelayTarget - rp.MinDelayTarget, total - 1) * attempt)
                    \div Precision
         [] rp.BackoffFunction = "geometric" ->
              Smaller(rp.MinDelayTarget * (attempt + 1), rp.MaxDelayTarget)
         [] rp.BackoffFunction = "exponential" ->
              Smaller(rp.MinDelayTarget * Pow2(attempt), rp.MaxDelayTarget)
         [] OTHER -> rp.MinDelayTarget

RetryError(rp) ==
  \/ rp.NumRetries < 0 \/ rp.NumRetries > MaxRetries
  \/ rp.MinDelayTarget <= 0 \/ rp.MaxDelayTarget <= 0
  \/ rp.MinDelayTarget > rp.MaxDelayTarget

Times(n, delay) == [i \in 1..n |-> delay]

Remaining(rp) ==
  rp.NumRetries - rp.NumNoDelayRetries - rp.NumMinDelayRetries - rp.NumMaxDelayRetries

\* Mutant: the retries with a fixed delay come on top of NumRetries.
backoffRetriesAll(rp) == rp.NumRetries
backoffRetries(rp) == Larger(Wrap(Remaining(rp)), 0)

\* An error leaves the worker with no delays at all.
RetryDelays(rp) ==
  LET n == backoffRetries(rp) IN
  IF RetryError(rp) THEN <<>>
  ELSE Times(rp.NumNoDelayRetries, 0)
         \o Times(rp.NumMinDelayRetries, Seconds(rp.MinDelayTarget))
         \o [i \in 1..n |-> Seconds(backoffDelay(rp, i - 1, n))]
         \o Times(rp.NumMaxDelayRetries, Seconds(rp.MaxDelayTarget))

-----------------------------------------------------------------------------
(***************************************************************************)
(* The subscription stores its policy and the effective one, which         *)
(* SetSubscriptionAttribute computes from a copy of the topic and writes   *)
(* in two transactions; SetTopicAttribute does not touch it.  A            *)
(* notification is enqueued (once, a bound) with the effective policy of   *)
(* that moment, and the worker takes its delays from the policy in the job. *)
(***************************************************************************)
VARIABLES
  case,         \* the instance
  topicPolicy,  \* DeliveryPolicy of the topic
  subPolicy,    \* DeliveryPolicy of the subscription: <<policy>> or empty
  effective,    \* its EffectiveDeliveryPolicy
  req,          \* req[r]: where the request is, and its locals
  job,          \* <<policy>> of the enqueued job, or empty
  used,         \* <<policy>> the worker parsed, or empty
  unharmed,     \* history: requests that read the present topic policy, and
                \* were not overtaken by the update of another one
  fresh         \* history: such a request was the last to write effective

vars == <<case, topicPolicy, subPolicy, effective, req, job, used, unharmed, fresh>>

Init ==
  /\ case \in Cases
  /\ topicPolicy = case.topic
  /\ subPolicy = <<>>
  /\ effective = EffectivePolicy(topicPolicy, subPolicy)
  /\ req = [r \in DOMAIN case.value |-> [pc |-> "start"]]
  /\ job = <<>> /\ used = <<>>
  /\ unharmed = {} /\ fresh = TRUE

\* SetTopicAttribute DeliveryPolicy.
SetTopicPolicy ==
  /\ topicPolicy' \in case.later \ {topicPolicy}
  /\ unharmed' = {} /\ fresh' = FALSE
  /\ UNCHANGED <<case, subPolicy, effective, req, job, used>>

\* SetSubscriptionAttribute: GetTopic.
ReadTopic(r) ==
  /\ req[r].pc = "start"
  /\ req' = [req EXCEPT ![r] = [pc |-> "apply", topic |-> topicPolicy]]
  /\ unharmed' = unharmed \cup {r}
  /\ UNCHANGED <<case, topicPolicy, subPolicy, effective, job, used, fresh>>

\* DeliveryPolicy after the request.
Updated(r) ==
  IF case.value[r].attribute = "DeliveryPolicy" THEN case.value[r].policy ELSE subPolicy

\* Mutant: the policy from before the update is used.
EffectiveAfterStale(r) == EffectivePolicy(req[r].topic, subPolicy)
EffectiveAfter(r) == EffectivePolicy(req[r].topic, Updated(r))

\* The first UpdateSubscription, with applySubscriptionAttributes.
Apply(r) ==
  /\ req[r].pc = "apply"
  /\ subPolicy' = Updated(r)
  /\ effective' = EffectiveAfter(r)
  /\ req' = [req EXCEPT ![r] = [pc |-> "store", effective |-> EffectiveAfter(r)]]
  /\ unharmed' = unharmed \ { x \in DOMAIN req \ {r} : req[x].pc = "store" }
  /\ fresh' = (r \in unharmed)
  /\ UNCHANGED <<case, topicPolicy, job, used>>

\* The second one, whose error is ignored.
StoreEffective(r) ==
  /\ req[r].pc = "store"
  /\ req' = [req EXCEPT ![r] = [pc |-> "done"]]
  /\ \/ effective' = req[r].effective /\ fresh' = (r \in unharmed)
     \/ UNCHANGED <<effective, fresh>>
  /\ UNCHANGED <<case, topicPolicy, subPolicy, job, used, unharmed>>

\* A transaction fails: the request returns an error.
FailRequest(r) ==
  /\ req[r].pc \in {"start", "apply"}
  /\ req' = [req EXCEPT ![r] = [pc |-> "done"]]
  /\ UNCHANGED <<case, topicPolicy, subPolicy, effective, job, used, unharmed, fresh>>

EnqueueJob ==
  /\ job = <<>>
  /\ job' = <<EffectivePolicy(topicPolicy, subPolicy)>>
  /\ UNCHANGED <<case, topicPolicy, subPolicy, effective, req, used, unharmed, fresh>>

ParseJob ==
  /\ job # <<>>
  /\ used = <<>>
  /\ used' = <<ParseSubscriptionPolicy(job[1])>>
  /\ UNCHANGED <<case, topicPolicy, subPolicy, effective, req, job, unharmed, fresh>>

Next ==
  \/ \E r \in DOMAIN req : ReadTopic(r) \/ Apply(r) \/ StoreEffective(r) \/ FailRequest(r)
  \/ SetTopicPolicy \/ EnqueueJob \/ ParseJob

Spec == Init /\ [][Next]_vars

\* Parsing the effective policy again changes nothing: the defaults that
\* ParseSubscriptionPolicy fills in never replace a value of the policy,
\* although a zero in it means "absent".
RoundTrip == used # <<>> => used = job

\* Targets that a Duration can hold, and no more steps than float64 tells apart.
InRange(rp) == rp.MaxDelayTarget <= MaxSeconds /\ backoffRetries(rp) <= Precision

\* The delays the worker takes never decrease from one attempt to the next,
\* and all but the immediate ones lie between the targets, whatever the
\* backoff function and its rounding, as long as the targets are Durations.
\* (RetryDelays does not refuse larger ones: their delays wrap around and may be negative,
\* which the worker takes as "retry at once".)
DelaysOrdered ==
  used # <<>> /\ InRange(used[1]) =>
    LET rp == used[1]  delays == RetryDelays(rp) IN
    /\ \A i \in 1..(Len(delays) - 1) : delays[i] <= delays[i + 1]
    /\ \A i \in DOMAIN delays :
         \/ delays[i] = 0
         \/ delays[i] \in (rp.MinDelayTarget * Second)..(rp.MaxDelayTarget * Second)

\* A job is retried NumRetries times, or as often as the fixed delays say when
\* they are more (the limit is on NumRetries alone); a negative count, which
\* nothing refuses, adds retries and never takes one away, unless it is so
\* large that the subtraction overflows.
RetryCount ==
  used # <<>> /\ ~RetryError(used[1]) /\ Remaining(used[1]) \in Words =>
    LET rp == used[1]
        n == Len(RetryDelays(rp))
    IN
    /\ n >= rp.NumRetries
    /\ (\A f \in Counts : rp[f] >= 0) =>
         n = Larger(rp.NumRetries,
               rp.NumNoDelayRetries + rp.NumMinDelayRetries + rp.NumMaxDelayRetries)

\* The EffectiveDeliveryPolicy that GetSubscriptionAttributes shows is what
\* the present policies of topic and subscription make, unless the topic's
\* policy has changed since the request that wrote it had read it, or another
\* request updated the subscription between the two updates of that request.
EffectiveIsCurrent ==
  fresh => effective = EffectivePolicy(topicPolicy, subPolicy)
=============================================================================
