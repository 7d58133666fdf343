-------------------------- MODULE RetryPolicyProofs -------------------------
(***************************************************************************)
(* Delivery policies, for any policies of topic and subscription and any   *)
(* number of requests: what the worker parses is what was enqueued, how    *)
(* often it retries, and when the stored effective policy can be trusted.  *)
(*                                                                         *)
(* The inductive invariant says that merged policies are settled (no field *)
(* of theirs reads as absent when they are parsed again), and what a       *)
(* request that is unharmed still holds between its steps.                 *)
(***************************************************************************)
EXTENDS RetryPolicy, SequenceTheorems, WellFoundedInduction, TLAPS

\* A policy in which no field, and not the counts together, reads as absent.
Settled(rp) ==
  /\ rp \in RetryPolicies
  /\ rp.MinDelayTarget # 0 /\ rp.MaxDelayTarget # 0 /\ rp.BackoffFunction # ""
  /\ \E f \in Counts : rp[f] # 0

Typed ==
  /\ case \in Cases
  /\ topicPolicy \in TopicPolicies
  /\ subPolicy \in Seq(RetryPolicies)
  /\ DOMAIN req = DOMAIN case.value

JobSettled == job # <<>> => \E rp : job = <<rp>> /\ Settled(rp)

\* A request that is unharmed has the present policy of the topic, and what it
\* is going to store for the second time is still right.
Unharmed ==
  \A r \in DOMAIN req :
    r \in unharmed =>
      /\ req[r].pc = "apply" => req[r].topic = topicPolicy
      /\ req[r].pc = "store" => req[r].effective = EffectivePolicy(topicPolicy, subPolicy)

IInv == Typed /\ JobSettled /\ Unharmed /\ RoundTrip /\ EffectiveIsCurrent

-----------------------------------------------------------------------------
(***************************************************************************)
(* Merging.                                                                *)
(***************************************************************************)
\* A value or its fallback.
LEMMA OrFacts ==
  ASSUME NEW a \in Words, NEW b \in Words
  PROVE  Or(a, b) \in Words /\ (b # 0 => Or(a, b) # 0)
BY DEF Or

\* A word is an integer.
LEMMA WordsAreInt == Words \subseteq Int
BY WordAssumption DEF Words

\* A policy is the record of its fields.
LEMMA PolicyFields ==
  ASSUME NEW p \in RetryPolicies, NEW q \in RetryPolicies,
         p.MinDelayTarget = q.MinDelayTarget, p.MaxDelayTarget = q.MaxDelayTarget,
         p.NumRetries = q.NumRetries, p.NumNoDelayRetries = q.NumNoDelayRetries,
         p.NumMinDelayRetries = q.NumMinDelayRetries,
         p.NumMaxDelayRetries = q.NumMaxDelayRetries,
         p.BackoffFunction = q.BackoffFunction
  PROVE  p = q
<1> DEFINE fields == {"MinDelayTarget", "MaxDelayTarget", "NumRetries", "NumNoDelayRetries",
                      "NumMinDelayRetries", "NumMaxDelayRetries", "BackoffFunction"}
<1>1. p = [f \in fields |-> p[f]] /\ q = [f \in fields |-> q[f]]
  BY DEF RetryPolicies
<1>2. \A f \in fields : p[f] = q[f]
  OBVIOUS
<1> HIDE DEF fields
<1>3. QED
  BY <1>1, <1>2

\* A merge fills every field that is absent in the override.
LEMMA MergeFields ==
  ASSUME NEW base \in RetryPolicies, NEW override \in RetryPolicies
  PROVE  LET m == mergeRetryPolicy(base, override) IN
         /\ m \in RetryPolicies
         /\ m.MinDelayTarget # 0 /\ m.MaxDelayTarget # 0 /\ m.BackoffFunction # ""
         /\ (\A f \in Counts : override[f] = 0) => \A f \in Counts : m[f] = base[f]
         /\ (\E f \in Counts : override[f] # 0) => \A f \in Counts : m[f] = override[f]
<1> DEFINE m == mergeRetryPolicy(base, override)
           set == \E f \in Counts : override[f] # 0
           counts == IF set THEN override ELSE base
           min == Or(Or(override.MinDelayTarget, base.MinDelayTarget), 20)
           max == Or(Or(override.MaxDelayTarget, base.MaxDelayTarget), min)
           backoff == CASE override.BackoffFunction # "" -> override.BackoffFunction
                        [] override.BackoffFunction = "" /\ base.BackoffFunction # ""
                             -> base.BackoffFunction
                        [] OTHER -> "linear"
<1> DEFINE smallest == Or(override.MinDelayTarget, base.MinDelayTarget)
           largest == Or(override.MaxDelayTarget, base.MaxDelayTarget)
<1>0. smallest \in Words /\ largest \in Words
  BY OrFacts DEF RetryPolicies
<1>1. min \in Words /\ min # 0
  <2> HIDE DEF smallest
  <2>1. Or(smallest, 20) \in Words /\ Or(smallest, 20) # 0
    <3>1. 20 \in Words /\ 20 # 0
      BY WordAssumption DEF Words
    <3>2. QED
      BY <1>0, <3>1, OrFacts
  <2>2. QED
    BY <2>1 DEF smallest
<1> HIDE DEF min
<1>2. max \in Words /\ max # 0
  <2> HIDE DEF largest
  <2>1. Or(largest, min) \in Words /\ Or(largest, min) # 0
    BY <1>0, <1>1, OrFacts
  <2>2. QED
    BY <2>1 DEF largest
<1>3. backoff \in BackoffFunctions /\ backoff # ""
  <2>1. /\ override.BackoffFunction \in BackoffFunctions
        /\ base.BackoffFunction \in BackoffFunctions
    BY DEF RetryPolicies
  <2>2. "linear" \in BackoffFunctions /\ "linear" # ""
    BY FunctionsAssumption
  <2>3. QED
    BY <2>1, <2>2
<1>4. counts \in RetryPolicies
  OBVIOUS
<1>5. m = [MinDelayTarget |-> min, MaxDelayTarget |-> max,
           NumRetries |-> counts.NumRetries,
           NumNoDelayRetries |-> counts.NumNoDelayRetries,
           NumMinDelayRetries |-> counts.NumMinDelayRetries,
           NumMaxDelayRetries |-> counts.NumMaxDelayRetries,
           BackoffFunction |-> backoff]
  BY Zenon DEF mergeRetryPolicy, min
<1> HIDE DEF max, backoff, m, counts
<1>6. m \in RetryPolicies
  BY <1>1, <1>2, <1>3, <1>4, <1>5 DEF RetryPolicies
<1>7. /\ m.MinDelayTarget = min /\ m.MaxDelayTarget = max /\ m.BackoffFunction = backoff
  BY <1>5
<1>8. \A f \in Counts : m[f] = counts[f]
  BY <1>5 DEF Counts
<1>9. /\ (\A f \in Counts : override[f] = 0) => counts = base
      /\ set => counts = override
  BY DEF counts
<1>10. QED
  BY <1>1, <1>2, <1>3, <1>6, <1>7, <1>8, <1>9 DEF m

\* Merged over a policy with counts, the result is settled.
LEMMA MergeSettles ==
  ASSUME NEW base \in RetryPolicies, NEW override \in RetryPolicies,
         \E f \in Counts : base[f] # 0
  PROVE  Settled(mergeRetryPolicy(base, override))
<1> DEFINE m == mergeRetryPolicy(base, override)
<1>1. /\ m \in RetryPolicies
      /\ m.MinDelayTarget # 0 /\ m.MaxDelayTarget # 0 /\ m.BackoffFunction # ""
      /\ (\A f \in Counts : override[f] = 0) => \A f \in Counts : m[f] = base[f]
      /\ (\E f \in Counts : override[f] # 0) => \A f \in Counts : m[f] = override[f]
  BY MergeFields
<1> HIDE DEF m
<1>2. \E f \in Counts : m[f] # 0
  BY <1>1
<1>3. QED
  BY <1>1, <1>2 DEF Settled, m

\* The policy of the package is a policy, and asks for retries.
LEMMA DefaultFacts ==
  DefaultPolicy \in RetryPolicies /\ \E f \in Counts : DefaultPolicy[f] # 0
<1>0. {0, 3, 20} \subseteq Words
  BY WordAssumption DEF Words
<1>1. DefaultPolicy \in RetryPolicies
  BY <1>0, FunctionsAssumption DEF DefaultPolicy, RetryPolicies
<1>2. "NumRetries" \in Counts /\ DefaultPolicy["NumRetries"] # 0
  BY DEF DefaultPolicy, Counts
<1>3. QED
  BY <1>1, <1>2

\* A job's policy is settled, whatever the topic and the subscription leave out.
LEMMA EffectiveSettled ==
  ASSUME NEW topic \in TopicPolicies, NEW sub \in Seq(RetryPolicies)
  PROVE  Settled(EffectivePolicy(topic, sub))
<1> DEFINE base == mergeRetryPolicy(DefaultPolicy, topic.DefaultHealthyRetryPolicy)
<1>1. topic.DefaultHealthyRetryPolicy \in RetryPolicies
  BY DEF TopicPolicies
<1>2. Settled(base)
  BY <1>1, DefaultFacts, MergeSettles
<1>3. ASSUME sub # <<>>
      PROVE  Settled(mergeRetryPolicy(base, ParseSubscriptionPolicy(sub[1])))
  <2>1. sub[1] \in RetryPolicies
    BY <1>3, EmptySeq
  <2>2. Settled(ParseSubscriptionPolicy(sub[1]))
    BY <2>1, DefaultFacts, MergeSettles DEF ParseSubscriptionPolicy
  <2> HIDE DEF base
  <2>3. QED
    BY <1>2, <2>2, MergeSettles DEF Settled
<1>4. EffectivePolicy(topic, sub) \in {base, mergeRetryPolicy(base, ParseSubscriptionPolicy(sub[1]))}
      /\ (sub = <<>> => EffectivePolicy(topic, sub) = base)
  BY DEF EffectivePolicy
<1> HIDE DEF base
<1>5. QED
  BY <1>2, <1>3, <1>4

\* Parsing a settled policy changes nothing.
LEMMA ParseSettled ==
  ASSUME NEW rp, Settled(rp)
  PROVE  ParseSubscriptionPolicy(rp) = rp
<1> DEFINE m == mergeRetryPolicy(DefaultPolicy, rp)
<1>1. rp \in RetryPolicies
  BY DEF Settled
<1>2. m \in RetryPolicies /\ \A f \in Counts : m[f] = rp[f]
  BY <1>1, DefaultFacts, MergeFields DEF Settled
<1>3. m.MinDelayTarget = rp.MinDelayTarget /\ m.MaxDelayTarget = rp.MaxDelayTarget
  BY DEF mergeRetryPolicy, Or, Settled
<1>4. m.BackoffFunction = rp.BackoffFunction
  BY DEF mergeRetryPolicy, Settled
<1> HIDE DEF m
<1>5. m = rp
  <2>1. /\ m.NumRetries = rp.NumRetries /\ m.NumNoDelayRetries = rp.NumNoDelayRetries
        /\ m.NumMinDelayRetries = rp.NumMinDelayRetries
        /\ m.NumMaxDelayRetries = rp.NumMaxDelayRetries
    BY <1>2 DEF Counts
  <2>2. QED
    BY <1>1, <1>2, <1>3, <1>4, <2>1, PolicyFields
<1>6. QED
  BY <1>5 DEF ParseSubscriptionPolicy, m

-----------------------------------------------------------------------------
(***************************************************************************)
(* Retry delays.                                                           *)
(***************************************************************************)
\* A loop that runs n times appends n delays, none when n is negative.
LEMMA DelaysOf ==
  ASSUME NEW n \in Int, NEW S, NEW f \in [1..n -> S]
  PROVE  f \in Seq(S) /\ Len(f) = Larger(n, 0)
<1>1. CASE n >= 0
  BY <1>1 DEF Larger
<1>2. CASE n < 0
  <2>1. 1..n = {} /\ 1..0 = {}
    BY <1>2
  <2>2. f \in [1..0 -> S]
    BY <2>1
  <2>3. QED
    BY <1>2, <2>2 DEF Larger
<1>3. QED
  BY <1>1, <1>2

\* What is stored for an integer is one, and is the integer if that fits.
LEMMA WrapFacts ==
  ASSUME NEW n \in Int
  PROVE  Wrap(n) \in Words /\ (n \in Words => Wrap(n) = n)
<1> DEFINE w == 2 * HalfWord
           m == n + HalfWord
<1>1. HalfWord \in Nat /\ w \in Nat /\ w > 0 /\ m \in Int
  BY WordAssumption
<1>2. m % w \in 0..(w - 1)
  <2> HIDE DEF m, w
  <2>1. QED
    BY <1>1
<1>3. ASSUME m \in 0..(w - 1) PROVE m % w = m
  <2> HIDE DEF m, w
  <2>1. QED
    BY <1>1, <1>3
<1>4. Wrap(n) = (m % w) - HalfWord
  BY DEF Wrap
<1>5. ASSUME n \in Words PROVE m \in 0..(w - 1)
  BY <1>1, <1>5 DEF Words
<1>6. m - HalfWord = n /\ w - 1 - HalfWord = HalfWord - 1
  BY <1>1
<1> HIDE DEF m, w
<1>7. Wrap(n) \in Words
  BY <1>1, <1>2, <1>4, <1>6 DEF Words
<1>8. QED
  BY <1>3, <1>4, <1>5, <1>6, <1>7

\* The retries left for the backoff.
LEMMA RetriesNat ==
  ASSUME NEW rp \in RetryPolicies
  PROVE  /\ backoffRetries(rp) \in Nat
         /\ Remaining(rp) \in Words => backoffRetries(rp) = Larger(Remaining(rp), 0)
<1>1. Remaining(rp) \in Int
  <2>1. /\ rp.NumRetries \in Int /\ rp.NumNoDelayRetries \in Int
        /\ rp.NumMinDelayRetries \in Int /\ rp.NumMaxDelayRetries \in Int
    BY WordsAreInt DEF RetryPolicies
  <2>2. QED
    BY <2>1 DEF Remaining
<1>2. Wrap(Remaining(rp)) \in Int
  BY <1>1, WrapFacts, WordsAreInt
<1>3. backoffRetries(rp) \in Nat
  BY <1>2 DEF backoffRetries, Larger
<1>4. QED
  BY <1>1, <1>3, WrapFacts DEF backoffRetries

\* How many delays a policy without error has.
LEMMA DelayCount ==
  ASSUME NEW rp \in RetryPolicies, ~RetryError(rp)
  PROVE  Len(RetryDelays(rp)) =
           Larger(rp.NumNoDelayRetries, 0) + Larger(rp.NumMinDelayRetries, 0)
             + backoffRetries(rp) + Larger(rp.NumMaxDelayRetries, 0)
<1> DEFINE n == backoffRetries(rp)
           g == [i \in 1..n |-> Seconds(backoffDelay(rp, i - 1, n))]
           min == Seconds(rp.MinDelayTarget)
           max == Seconds(rp.MaxDelayTarget)
           A == Times(rp.NumNoDelayRetries, 0)
           B == Times(rp.NumMinDelayRetries, min)
           D == Times(rp.NumMaxDelayRetries, max)
           S == {0, min, max} \cup { g[i] : i \in 1..n }
<1>1. /\ rp.NumRetries \in Int /\ rp.NumNoDelayRetries \in Int
      /\ rp.NumMinDelayRetries \in Int /\ rp.NumMaxDelayRetries \in Int
  BY WordsAreInt DEF RetryPolicies
<1>2. n \in Nat /\ Larger(n, 0) = n
  <2>1. n \in Nat
    BY RetriesNat
  <2> HIDE DEF n
  <2>2. QED
    BY <2>1 DEF Larger
<1> HIDE DEF n
<1>3. g \in [1..n -> S]
  OBVIOUS
<1>4. /\ A \in [1..rp.NumNoDelayRetries -> S]
      /\ B \in [1..rp.NumMinDelayRetries -> S]
      /\ D \in [1..rp.NumMaxDelayRetries -> S]
  BY DEF Times
<1>5. RetryDelays(rp) = A \o B \o g \o D
  BY DEF RetryDelays, n
<1> HIDE DEF g, A, B, D, S
<1>6. /\ A \in Seq(S) /\ Len(A) = Larger(rp.NumNoDelayRetries, 0)
      /\ B \in Seq(S) /\ Len(B) = Larger(rp.NumMinDelayRetries, 0)
      /\ g \in Seq(S) /\ Len(g) = n
      /\ D \in Seq(S) /\ Len(D) = Larger(rp.NumMaxDelayRetries, 0)
  <2>1. A \in Seq(S) /\ Len(A) = Larger(rp.NumNoDelayRetries, 0)
    BY <1>1, <1>4, DelaysOf
  <2>2. B \in Seq(S) /\ Len(B) = Larger(rp.NumMinDelayRetries, 0)
    BY <1>1, <1>4, DelaysOf
  <2>3. D \in Seq(S) /\ Len(D) = Larger(rp.NumMaxDelayRetries, 0)
    BY <1>1, <1>4, DelaysOf
  <2>4. n \in Int
    BY <1>2
  <2>5. g \in Seq(S) /\ Len(g) = Larger(n, 0)
    BY <1>3, <2>4, DelaysOf
  <2>6. QED
    BY <1>2, <2>1, <2>2, <2>3, <2>5
<1>7. A \o B \in Seq(S) /\ Len(A \o B) = Len(A) + Len(B)
  BY <1>6, ConcatProperties
<1>8. A \o B \o g \in Seq(S) /\ Len(A \o B \o g) = Len(A) + Len(B) + Len(g)
  <2> DEFINE AB == A \o B
  <2> HIDE DEF AB
  <2>1. AB \in Seq(S) /\ Len(AB) = Len(A) + Len(B)
    BY <1>7 DEF AB
  <2>2. AB \o g \in Seq(S) /\ Len(AB \o g) = Len(AB) + Len(g)
    BY <1>6, <2>1, ConcatProperties
  <2>3. QED
    BY <2>1, <2>2 DEF AB
<1>9. Len(A \o B \o g \o D) = Len(A) + Len(B) + Len(g) + Len(D)
  <2> DEFINE ABg == A \o B \o g
  <2> HIDE DEF ABg
  <2>1. ABg \in Seq(S) /\ Len(ABg) = Len(A) + Len(B) + Len(g)
    BY <1>8 DEF ABg
  <2>2. Len(ABg \o D) = Len(ABg) + Len(D)
    BY <1>6, <2>1, ConcatProperties
  <2>3. QED
    BY <2>1, <2>2 DEF ABg
<1>10. QED
  BY <1>5, <1>6, <1>9 DEF n

\* A policy is retried at least NumRetries times, and exactly so often, or as
\* often as the fixed delays say, when no count is negative.
LEMMA CountFacts ==
  ASSUME NEW rp \in RetryPolicies, ~RetryError(rp), Remaining(rp) \in Words
  PROVE  /\ Len(RetryDelays(rp)) >= rp.NumRetries
         /\ (\A f \in Counts : rp[f] >= 0) =>
              Len(RetryDelays(rp)) =
                Larger(rp.NumRetries,
                  rp.NumNoDelayRetries + rp.NumMinDelayRetries + rp.NumMaxDelayRetries)
<1> DEFINE len == Len(RetryDelays(rp))
<1>1. /\ rp.NumRetries \in Int /\ rp.NumNoDelayRetries \in Int
      /\ rp.NumMinDelayRetries \in Int /\ rp.NumMaxDelayRetries \in Int
  BY WordsAreInt DEF RetryPolicies
<1>2. len = Larger(rp.NumNoDelayRetries, 0) + Larger(rp.NumMinDelayRetries, 0)
              + Larger(Remaining(rp), 0) + Larger(rp.NumMaxDelayRetries, 0)
  BY DelayCount, RetriesNat
<1> HIDE DEF len
<1>3. len >= rp.NumRetries
  BY <1>1, <1>2 DEF Larger, Remaining
<1>4. ASSUME \A f \in Counts : rp[f] >= 0
      PROVE  len = Larger(rp.NumRetries,
                     rp.NumNoDelayRetries + rp.NumMinDelayRetries + rp.NumMaxDelayRetries)
  <2>1. /\ rp.NumNoDelayRetries >= 0 /\ rp.NumMinDelayRetries >= 0
        /\ rp.NumMaxDelayRetries >= 0
    BY <1>4 DEF Counts
  <2>2. QED
    BY <1>1, <1>2, <2>1 DEF Larger, Remaining
<1>5. QED
  BY <1>3, <1>4 DEF len

-----------------------------------------------------------------------------
(***************************************************************************)
(* Powers of two, by induction: sets of natural numbers stand for the      *)
(* predicates.                                                             *)
(***************************************************************************)
\* A set that holds 0 and the successor of each of its elements holds all
\* natural numbers: there is no least one that it leaves out.
LEMMA SetInduction ==
  ASSUME NEW T \in SUBSET Nat, 0 \in T, \A n \in T : n + 1 \in T
  PROVE  T = Nat
<1>1. SUFFICES ASSUME Nat \ T # {} PROVE FALSE
  OBVIOUS
<1>2. PICK x \in Nat \ T : \A y \in Nat \ T : <<y, x>> \notin OpToRel(<, Nat)
  BY <1>1, NatLessThanWellFounded, WFMin
<1>3. OpToRel(<, Nat) = {ss \in Nat \X Nat : ss[1] < ss[2]}
  BY DEF OpToRel
<1>4. x \in Nat /\ x \notin T /\ \A y \in Nat \ T : ~(y < x)
  BY <1>2, <1>3
<1>5. x # 0 /\ x - 1 \in Nat /\ x - 1 < x /\ (x - 1) + 1 = x
  BY <1>4
<1>6. x - 1 \in T
  BY <1>4, <1>5
<1>7. QED
  BY <1>4, <1>5, <1>6

\* f holds the powers of two up to m.
Powers(m, f) == f = [n \in 0..m |-> IF n = 0 THEN 1 ELSE 2 * f[n - 1]]

\* There are such powers.
LEMMA PowersExist ==
  ASSUME NEW m \in Nat
  PROVE  \E f : Powers(m, f)
<1> DEFINE T == { n \in Nat : \E f : Powers(n, f) }
<1>1. 0 \in T
  <2>1. Powers(0, [n \in 0..0 |-> 1])
    BY DEF Powers
  <2>2. QED
    BY <2>1
<1>2. ASSUME NEW n \in T PROVE n + 1 \in T
  <2>1. n \in Nat
    OBVIOUS
  <2>2. PICK f : Powers(n, f)
    OBVIOUS
  <2> DEFINE g == [i \in 0..(n + 1) |-> IF i = n + 1 THEN 2 * f[n] ELSE f[i]]
  <2>3. ASSUME NEW i \in 0..(n + 1)
        PROVE  g[i] = IF i = 0 THEN 1 ELSE 2 * g[i - 1]
    <3>1. CASE i = n + 1
      <4>1. g[i] = 2 * f[n] /\ i # 0 /\ g[i - 1] = f[n]
        BY <2>1, <3>1
      <4>2. QED
        BY <4>1
    <3>2. CASE i # n + 1
      <4>1. i \in 0..n /\ g[i] = f[i] /\ (i # 0 => g[i - 1] = f[i - 1])
        BY <2>1, <3>2
      <4>2. QED
        BY <2>2, <4>1 DEF Powers
    <3>3. QED
      BY <3>1, <3>2
  <2>4. Powers(n + 1, g)
    BY <2>3 DEF Powers
  <2>5. QED
    BY <2>1, <2>4
<1>3. T = Nat
  <2> HIDE DEF T
  <2>1. QED
    BY <1>1, <1>2, SetInduction DEF T
<1>4. QED
  BY <1>3

\* They do not depend on how far they go.
LEMMA PowersAgree ==
  ASSUME NEW m \in Nat, NEW l \in Nat, m <= l, NEW f, Powers(m, f), NEW g, Powers(l, g)
  PROVE  f[m] = g[m]
<1> DEFINE T == { n \in Nat : n <= m => f[n] = g[n] }
<1>1. 0 \in T
  BY DEF Powers
<1>2. ASSUME NEW n \in T PROVE n + 1 \in T
  <2>1. SUFFICES ASSUME n + 1 <= m PROVE f[n + 1] = g[n + 1]
    OBVIOUS
  <2> DEFINE i == n + 1
  <2>2. n \in Nat /\ n <= m /\ i \in 0..m /\ i \in 0..l /\ i # 0 /\ i - 1 = n
    BY <2>1
  <2>3. f[n] = g[n]
    BY <2>2
  <2> HIDE DEF i
  <2>4. f[i] = 2 * f[n]
    BY <2>2 DEF Powers
  <2>5. g[i] = 2 * g[n]
    BY <2>2 DEF Powers
  <2>6. QED
    BY <2>3, <2>4, <2>5 DEF i
<1>3. T = Nat
  <2> HIDE DEF T
  <2>1. QED
    BY <1>1, <1>2, SetInduction DEF T
<1>4. QED
  BY <1>3

\* What the definition of Pow2 by recursion says.
LEMMA Pow2Facts ==
  /\ Pow2(0) = 1
  /\ \A n \in Nat : Pow2(n + 1) = 2 * Pow2(n)
<1>1. \A m \in Nat : \E f : Powers(m, f) /\ Pow2(m) = f[m]
  <2> TAKE m \in Nat
  <2> DEFINE f == CHOOSE h : Powers(m, h)
  <2>1. Powers(m, f)
    BY PowersExist
  <2>2. Pow2(m) = f[m]
    BY DEF Pow2, Powers
  <2>3. QED
    BY <2>1, <2>2
<1>2. Pow2(0) = 1
  <2>1. PICK f : Powers(0, f) /\ Pow2(0) = f[0]
    BY <1>1
  <2>2. QED
    BY <2>1 DEF Powers
<1>3. ASSUME NEW n \in Nat PROVE Pow2(n + 1) = 2 * Pow2(n)
  <2>1. PICK f : Powers(n, f) /\ Pow2(n) = f[n]
    BY <1>1
  <2> DEFINE i == n + 1
  <2>2. i \in Nat /\ n <= i /\ i \in 0..i /\ i # 0 /\ i - 1 = n
    OBVIOUS
  <2> HIDE DEF i
  <2>3. PICK g : Powers(i, g) /\ Pow2(i) = g[i]
    BY <1>1, <2>2
  <2>4. f[n] = g[n]
    BY <2>1, <2>2, <2>3, PowersAgree
  <2>5. g[i] = 2 * g[n]
    BY <2>2, <2>3 DEF Powers
  <2>6. QED
    BY <2>1, <2>3, <2>4, <2>5 DEF i
<1>4. QED
  BY <1>2, <1>3

\* The powers of two are positive and rise.
LEMMA Pow2Rises ==
  ASSUME NEW a \in Nat, NEW b \in Nat, a <= b
  PROVE  Pow2(a) \in Nat /\ Pow2(b) \in Nat /\ 1 <= Pow2(a) /\ Pow2(a) <= Pow2(b)
<1>1. \A n \in Nat : Pow2(n) \in Nat /\ 1 <= Pow2(n)
  <2> DEFINE T == { n \in Nat : Pow2(n) \in Nat /\ 1 <= Pow2(n) }
  <2>1. 0 \in T
    BY Pow2Facts
  <2>2. ASSUME NEW n \in T PROVE n + 1 \in T
    BY Pow2Facts
  <2>3. T = Nat
    <3> HIDE DEF T
    <3>1. QED
      BY <2>1, <2>2, SetInduction DEF T
  <2>4. QED
    BY <2>3
<1>2. \A n \in Nat : Pow2(a) <= Pow2(a + n)
  <2> DEFINE T == { n \in Nat : Pow2(a) <= Pow2(a + n) }
  <2>1. 0 \in T
    BY <1>1
  <2>2. ASSUME NEW n \in T PROVE n + 1 \in T
    <3>1. a + n \in Nat /\ (a + n) + 1 = a + (n + 1)
      OBVIOUS
    <3>2. Pow2(a + (n + 1)) = 2 * Pow2(a + n)
      BY <3>1, Pow2Facts
    <3>3. QED
      BY <1>1, <3>1, <3>2
  <2>3. T = Nat
    <3> HIDE DEF T
    <3>1. QED
      BY <2>1, <2>2, SetInduction DEF T
  <2>4. QED
    BY <2>3
<1>3. b - a \in Nat /\ a + (b - a) = b
  OBVIOUS
<1>4. QED
  BY <1>1, <1>2, <1>3

-----------------------------------------------------------------------------
(***************************************************************************)
(* The order of the delays.                                                *)
(***************************************************************************)
\* A share of d that grows with the attempt and never exceeds d, although the
\* quotient is rounded.
LEMMA ShareFacts ==
  ASSUME NEW d \in Nat, NEW m \in Nat, m >= 1, m <= Precision,
         NEW a \in 0..m, NEW b \in 0..m, a <= b
  PROVE  LET share(x) == (Quotient(d, m) * x) \div Precision IN
         share(a) \in Nat /\ share(b) \in Nat /\ share(a) <= share(b) /\ share(b) <= d
<1> DEFINE P == Precision
           q == Quotient(d, m)
           y == 2 * d * P + m
<1>1. P \in Nat /\ P >= 1
  BY WordAssumption
<1>2. d * P \in Nat /\ y = 2 * (d * P) + m
  BY <1>1
<1> HIDE DEF P
<1>3. q \in Nat /\ (2 * m) * q <= y
  <2>1. q = y \div (2 * m)
    BY DEF Quotient, P
  <2>2. y \in Nat /\ 2 * m \in Nat /\ 2 * m >= 1
    BY <1>2
  <2> HIDE DEF y, q
  <2>3. QED
    BY <2>1, <2>2
<1> HIDE DEF y, q
<1>4. q * a \in Nat /\ q * b \in Nat /\ q * m \in Nat /\ q * a <= q * b /\ q * b <= q * m
  BY <1>3
<1>5. (2 * m) * q = 2 * (q * m)
  BY <1>3
<1>6. q * m < d * P + P
  BY <1>1, <1>2, <1>3, <1>4, <1>5 DEF P
<1>7. q * b < (d + 1) * P
  <2>1. (d + 1) * P = d * P + P
    BY <1>1
  <2>2. QED
    BY <1>1, <1>2, <1>4, <1>6, <2>1
<1>8. ASSUME NEW x \in Nat, NEW z \in Nat, x <= z
      PROVE  x \div P \in Nat /\ z \div P \in Nat /\ x \div P <= z \div P
  BY <1>1, <1>8
<1>9. ASSUME NEW x \in Nat, x < (d + 1) * P
      PROVE  x \div P <= d
  <2>1. x \div P \in Nat /\ P * (x \div P) <= x
    BY <1>1
  <2> DEFINE z == x \div P
  <2> HIDE DEF z
  <2>2. z \in Nat /\ P * z < (d + 1) * P
    BY <1>1, <1>9, <2>1 DEF z
  <2>3. ~(z >= d + 1)
    BY <1>1, <2>2
  <2>4. QED
    BY <2>2, <2>3 DEF z
<1>10. QED
  BY <1>4, <1>7, <1>8, <1>9 DEF q, P

\* A target that is a Duration is converted without loss.
LEMMA SecondsFacts ==
  ASSUME NEW a \in Nat, NEW b \in Nat, a <= b, b <= MaxSeconds
  PROVE  /\ Seconds(a) = a * Second /\ Seconds(b) = b * Second
         /\ a * Second \in Nat /\ b * Second \in Nat /\ a * Second <= b * Second
<1>1. Second \in Nat /\ Second >= 1 /\ HalfWord - 1 \in Nat
  BY WordAssumption
<1>2. MaxSeconds \in Nat /\ MaxSeconds * Second <= HalfWord - 1
  <2> DEFINE h == HalfWord - 1
  <2>1. h \in Nat
    BY <1>1
  <2> HIDE DEF h
  <2>2. h \div Second \in Nat /\ (h \div Second) * Second <= h
    BY <1>1, <2>1
  <2>3. QED
    BY <2>2 DEF MaxSeconds, h
<1>3. /\ a * Second \in Nat /\ b * Second \in Nat /\ a * Second <= b * Second
      /\ b * Second <= MaxSeconds * Second /\ MaxSeconds * Second \in Nat
  BY <1>1, <1>2
<1>4. a * Second \in Words /\ b * Second \in Words
  <2> DEFINE x == a * Second
             y == b * Second
             z == MaxSeconds * Second
  <2> HIDE DEF x, y, z
  <2>1. x \in Nat /\ y \in Nat /\ z \in Nat /\ x <= y /\ y <= z /\ z <= HalfWord - 1
    BY <1>2, <1>3 DEF x, y, z
  <2>2. x \in Words /\ y \in Words
    BY <1>1, <2>1, WordAssumption DEF Words
  <2>3. QED
    BY <2>2 DEF x, y
<1>5. QED
  BY <1>3, <1>4, WrapFacts DEF Seconds

\* The targets of a policy without error.
LEMMA TargetFacts ==
  ASSUME NEW rp \in RetryPolicies, ~RetryError(rp)
  PROVE  /\ rp.MinDelayTarget \in Nat /\ rp.MaxDelayTarget \in Nat
         /\ 1 <= rp.MinDelayTarget /\ rp.MinDelayTarget <= rp.MaxDelayTarget
<1>1. rp.MinDelayTarget \in Int /\ rp.MaxDelayTarget \in Int
  BY WordsAreInt DEF RetryPolicies
<1>2. ~(rp.MinDelayTarget <= 0) /\ ~(rp.MinDelayTarget > rp.MaxDelayTarget)
  BY DEF RetryError
<1>3. QED
  BY <1>1, <1>2

\* Every backoff function stays between the targets and never falls.
LEMMA BackoffFacts ==
  ASSUME NEW rp \in RetryPolicies, ~RetryError(rp), NEW n \in Nat, n <= Precision,
         NEW a \in Nat, NEW b \in Nat, a <= b, b < n
  PROVE  /\ backoffDelay(rp, a, n) \in rp.MinDelayTarget..rp.MaxDelayTarget
         /\ backoffDelay(rp, b, n) \in rp.MinDelayTarget..rp.MaxDelayTarget
         /\ backoffDelay(rp, a, n) <= backoffDelay(rp, b, n)
<1> DEFINE min == rp.MinDelayTarget
           max == rp.MaxDelayTarget
<1>1. min \in Nat /\ max \in Nat /\ 1 <= min /\ min <= max
  BY TargetFacts
<1> HIDE DEF min, max
<1>2. \A x, y \in Nat : x <= y =>
        min * x \in Nat /\ min * y \in Nat /\ min * x <= min * y /\ (1 <= x => min <= min * x)
  BY <1>1
<1>3. CASE n <= 1 \/ rp.BackoffFunction \notin {"arithmetic", "linear", "geometric", "exponential"}
  BY <1>1, <1>3 DEF backoffDelay, min, max
<1>4. CASE n > 1 /\ rp.BackoffFunction \in {"arithmetic", "linear"}
  <2>1. /\ max - min \in Nat /\ n - 1 \in Nat /\ n - 1 >= 1 /\ n - 1 <= Precision
        /\ a \in 0..(n - 1) /\ b \in 0..(n - 1)
    BY <1>1, <1>4, WordAssumption
  <2> DEFINE p == (Quotient(max - min, n - 1) * a) \div Precision
             q == (Quotient(max - min, n - 1) * b) \div Precision
  <2>2. p \in Nat /\ q \in Nat /\ p <= q /\ q <= max - min
    BY <2>1, ShareFacts
  <2>3. backoffDelay(rp, a, n) = min + p /\ backoffDelay(rp, b, n) = min + q
    BY <1>4 DEF backoffDelay, min, max
  <2> HIDE DEF p, q
  <2>4. min + p \in min..max /\ min + q \in min..max /\ min + p <= min + q
    BY <1>1, <2>2
  <2>5. QED
    BY <2>3, <2>4 DEF min, max
<1>5. CASE n > 1 /\ rp.BackoffFunction = "geometric"
  <2>1. /\ backoffDelay(rp, a, n) = Smaller(min * (a + 1), max)
        /\ backoffDelay(rp, b, n) = Smaller(min * (b + 1), max)
    BY <1>5 DEF backoffDelay, min, max
  <2> DEFINE x == min * (a + 1)
             y == min * (b + 1)
  <2>2. x \in Nat /\ y \in Nat /\ x <= y /\ min <= x
    <3>1. a + 1 \in Nat /\ b + 1 \in Nat /\ a + 1 <= b + 1 /\ 1 <= a + 1
      OBVIOUS
    <3>2. QED
      BY <1>2, <3>1
  <2> HIDE DEF x, y
  <2>3. Smaller(x, max) \in min..max /\ Smaller(y, max) \in min..max
        /\ Smaller(x, max) <= Smaller(y, max)
    BY <1>1, <2>2 DEF Smaller
  <2>4. QED
    BY <2>1, <2>3 DEF x, y, min, max
<1>6. CASE n > 1 /\ rp.BackoffFunction = "exponential"
  <2>1. /\ backoffDelay(rp, a, n) = Smaller(min * Pow2(a), max)
        /\ backoffDelay(rp, b, n) = Smaller(min * Pow2(b), max)
    BY <1>6 DEF backoffDelay, min, max
  <2> DEFINE x == min * Pow2(a)
             y == min * Pow2(b)
  <2>2. x \in Nat /\ y \in Nat /\ x <= y /\ min <= x
    BY <1>2, Pow2Rises
  <2> HIDE DEF x, y
  <2>3. Smaller(x, max) \in min..max /\ Smaller(y, max) \in min..max
        /\ Smaller(x, max) <= Smaller(y, max)
    BY <1>1, <2>2 DEF Smaller
  <2>4. QED
    BY <2>1, <2>3 DEF x, y, min, max
<1>7. n <= 1 \/ n > 1
  OBVIOUS
<1>8. QED
  BY <1>3, <1>4, <1>5, <1>6, <1>7

\* A sequence that never falls and stays between lo and hi.
Rising(s, lo, hi) ==
  /\ \A i \in 1..Len(s) : lo <= s[i] /\ s[i] <= hi
  /\ \A i, j \in 1..Len(s) : i <= j => s[i] <= s[j]

\* One rising sequence after another.
LEMMA RisingConcat ==
  ASSUME NEW V \in SUBSET Int, NEW s \in Seq(V), NEW t \in Seq(V),
         NEW lo \in Int, NEW mid \in Int, NEW next \in Int, NEW hi \in Int,
         lo <= mid, mid <= next, next <= hi,
         Rising(s, lo, mid), Rising(t, next, hi)
  PROVE  s \o t \in Seq(V) /\ Rising(s \o t, lo, hi)
<1> DEFINE u == s \o t
<1>1. Len(s) \in Nat /\ Len(t) \in Nat
  OBVIOUS
<1>2. /\ u \in Seq(V) /\ Len(u) = Len(s) + Len(t)
      /\ \A i \in 1..Len(s) : u[i] = s[i]
      /\ \A i \in 1..Len(u) : i > Len(s) => u[i] = t[i - Len(s)]
  BY ConcatProperties
<1> HIDE DEF u
<1>3. ASSUME NEW i \in 1..Len(u), i <= Len(s)
      PROVE  i \in 1..Len(s) /\ u[i] = s[i] /\ u[i] \in Int /\ lo <= u[i] /\ u[i] <= mid
  <2>1. i \in 1..Len(s)
    BY <1>1, <1>2, <1>3
  <2>2. u[i] = s[i] /\ lo <= s[i] /\ s[i] <= mid /\ s[i] \in V
    BY <1>2, <2>1 DEF Rising
  <2>3. QED
    BY <2>1, <2>2
<1>4. ASSUME NEW i \in 1..Len(u), i > Len(s)
      PROVE  /\ i - Len(s) \in 1..Len(t) /\ u[i] = t[i - Len(s)]
             /\ u[i] \in Int /\ next <= u[i] /\ u[i] <= hi
  <2>1. i - Len(s) \in 1..Len(t)
    BY <1>1, <1>2, <1>4
  <2>2. u[i] = t[i - Len(s)] /\ next <= t[i - Len(s)] /\ t[i - Len(s)] <= hi
        /\ t[i - Len(s)] \in V
    BY <1>2, <1>4, <2>1 DEF Rising
  <2>3. QED
    BY <2>1, <2>2
<1>5. \A i \in 1..Len(u) : lo <= u[i] /\ u[i] <= hi
  <2> TAKE i \in 1..Len(u)
  <2>1. i <= Len(s) \/ i > Len(s)
    BY <1>1, <1>2
  <2>2. QED
    BY <1>3, <1>4, <2>1
<1>6. ASSUME NEW i \in 1..Len(u), NEW j \in 1..Len(u), i <= j
      PROVE  u[i] <= u[j]
  <2>1. i \in Nat /\ j \in Nat
    BY <1>1, <1>2
  <2>2. CASE j <= Len(s)
    <3>1. i <= Len(s)
      BY <1>1, <1>6, <2>1, <2>2
    <3>2. i \in 1..Len(s) /\ j \in 1..Len(s) /\ u[i] = s[i] /\ u[j] = s[j]
      BY <1>3, <2>2, <3>1
    <3>3. QED
      BY <1>6, <3>2 DEF Rising
  <2>3. CASE i <= Len(s) /\ j > Len(s)
    <3>1. u[i] \in Int /\ u[i] <= mid
      BY <1>3, <2>3
    <3>2. u[j] \in Int /\ next <= u[j]
      BY <1>4, <2>3
    <3>3. QED
      BY <3>1, <3>2
  <2>4. CASE i > Len(s)
    <3>1. j > Len(s)
      BY <1>1, <1>6, <2>1, <2>4
    <3> DEFINE k == i - Len(s)
               l == j - Len(s)
    <3>2. k \in 1..Len(t) /\ l \in 1..Len(t) /\ u[i] = t[k] /\ u[j] = t[l]
      BY <1>4, <2>4, <3>1
    <3>3. k <= l
      BY <1>1, <1>6, <2>1
    <3> HIDE DEF k, l
    <3>4. QED
      BY <3>2, <3>3 DEF Rising
  <2>5. QED
    BY <1>1, <2>1, <2>2, <2>3, <2>4
<1>7. QED
  BY <1>2, <1>5, <1>6 DEF Rising, u

\* The delays of a loop that appends the same one.
LEMMA RisingTimes ==
  ASSUME NEW V, NEW n \in Int, NEW d \in V, d \in Int
  PROVE  Times(n, d) \in Seq(V) /\ Rising(Times(n, d), d, d)
<1> DEFINE s == Times(n, d)
<1>1. s \in [1..n -> V] /\ \A i \in 1..n : s[i] = d
  BY DEF Times
<1>2. DOMAIN s = 1..n
  BY DEF Times
<1> HIDE DEF s
<1>3. s \in Seq(V)
  BY <1>1, DelaysOf
<1>4. \A i \in 1..Len(s) : s[i] = d
  BY <1>1, <1>2, <1>3
<1>5. d <= d
  OBVIOUS
<1>6. QED
  BY <1>3, <1>4, <1>5 DEF Rising, s

\* The delays of a policy without error, immediate ones first.
LEMMA DelaysRise ==
  ASSUME NEW rp \in RetryPolicies, ~RetryError(rp), InRange(rp)
  PROVE  LET min == rp.MinDelayTarget * Second
             max == rp.MaxDelayTarget * Second
         IN
         RetryDelays(rp) \in Seq({0} \cup min..max) /\ Rising(RetryDelays(rp), 0, max)
<1> DEFINE least == rp.MinDelayTarget
           most == rp.MaxDelayTarget
           min == least * Second
           max == most * Second
           V == {0} \cup min..max
           n == backoffRetries(rp)
           g == [i \in 1..n |-> Seconds(backoffDelay(rp, i - 1, n))]
           A == Times(rp.NumNoDelayRetries, 0)
           B == Times(rp.NumMinDelayRetries, min)
           D == Times(rp.NumMaxDelayRetries, max)
<1>1. /\ rp.NumRetries \in Int /\ rp.NumNoDelayRetries \in Int
      /\ rp.NumMinDelayRetries \in Int /\ rp.NumMaxDelayRetries \in Int
  BY WordsAreInt DEF RetryPolicies
<1>0. least \in Nat /\ most \in Nat /\ least <= most /\ most <= MaxSeconds
  BY TargetFacts DEF InRange
<1>2. /\ min \in Nat /\ max \in Nat /\ 0 <= min /\ min <= max
      /\ Seconds(least) = min /\ Seconds(most) = max
  <2> HIDE DEF least, most
  <2>1. QED
    BY <1>0, SecondsFacts
<1>3. n \in Nat /\ n <= Precision
  BY RetriesNat DEF InRange
<1>4. RetryDelays(rp) = A \o B \o g \o D
  BY <1>2 DEF RetryDelays
<1>5. \A i, j \in 1..n : i <= j =>
        g[i] \in min..max /\ g[j] \in min..max /\ g[i] <= g[j]
  <2> SUFFICES ASSUME NEW i \in 1..n, NEW j \in 1..n, i <= j
               PROVE  g[i] \in min..max /\ g[j] \in min..max /\ g[i] <= g[j]
    OBVIOUS
  <2> DEFINE x == backoffDelay(rp, i - 1, n)
             y == backoffDelay(rp, j - 1, n)
  <2>1. i - 1 \in Nat /\ j - 1 \in Nat /\ i - 1 <= j - 1 /\ j - 1 < n
    BY <1>3
  <2>2. g[i] = Seconds(x) /\ g[j] = Seconds(y)
    OBVIOUS
  <2> HIDE DEF n, g
  <2>3. x \in least..most /\ y \in least..most /\ x <= y
    BY <1>3, <2>1, BackoffFacts
  <2> HIDE DEF x, y, least, most
  <2>4. /\ x \in Nat /\ y \in Nat /\ least <= x /\ y <= most /\ y <= MaxSeconds
        /\ x <= most /\ x <= MaxSeconds /\ MaxSeconds <= MaxSeconds
    <3>1. MaxSeconds \in Int
      <4>1. HalfWord - 1 \in Int /\ Second \in Nat /\ Second >= 1
        BY WordAssumption
      <4>2. QED
        BY <4>1 DEF MaxSeconds
    <3>2. QED
      BY <1>0, <2>3, <3>1
  <2>5. min <= x * Second /\ x * Second \in Nat
    BY <1>0, <2>4, SecondsFacts
  <2>6. Seconds(x) = x * Second /\ Seconds(y) = y * Second /\ x * Second <= y * Second
        /\ y * Second \in Nat
    BY <2>3, <2>4, SecondsFacts
  <2>7. y * Second <= max
    BY <1>0, <2>4, SecondsFacts
  <2> DEFINE u == x * Second
             v == y * Second
  <2> HIDE DEF u, v, min, max
  <2>8. u \in Nat /\ v \in Nat /\ min <= u /\ u <= v /\ v <= max
    BY <2>5, <2>6, <2>7 DEF u, v
  <2>9. u \in min..max /\ v \in min..max
    BY <1>2, <2>8
  <2>10. QED
    BY <2>2, <2>6, <2>8, <2>9 DEF u, v
<1>6. g = [i \in 1..n |-> g[i]]
  OBVIOUS
<1> HIDE DEF min, max, n, g, least, most
<1>7. 0 \in V /\ min \in V /\ max \in V /\ V \in SUBSET Int /\ min..max \subseteq V
  BY <1>2
<1> HIDE DEF V
<1>8. g \in Seq(V) /\ Rising(g, min, max)
  <2>1. \A i \in 1..n : g[i] \in min..max
    <3> TAKE i \in 1..n
    <3>1. i <= i
      BY <1>3
    <3>2. QED
      BY <1>5, <3>1
  <2>2. g \in [1..n -> V]
    BY <1>6, <1>7, <2>1
  <2>3. g \in Seq(V) /\ Len(g) = n
    BY <1>3, <2>2
  <2>4. \A i \in 1..n : min <= g[i] /\ g[i] <= max
    BY <1>2, <2>1
  <2>5. QED
    BY <1>5, <2>3, <2>4 DEF Rising
<1>9. A \in Seq(V) /\ Rising(A, 0, 0)
  BY <1>1, <1>7, RisingTimes
<1>10. B \in Seq(V) /\ Rising(B, min, min)
  BY <1>1, <1>2, <1>7, RisingTimes
<1>11. D \in Seq(V) /\ Rising(D, max, max)
  BY <1>1, <1>2, <1>7, RisingTimes
<1> HIDE DEF A, B, D
<1>12. 0 \in Int /\ min \in Int /\ max \in Int /\ 0 <= 0 /\ 0 <= min /\ min <= min
       /\ min <= max /\ max <= max /\ 0 <= max
  BY <1>2
<1>13. A \o B \in Seq(V) /\ Rising(A \o B, 0, min)
  BY <1>7, <1>9, <1>10, <1>12, RisingConcat
<1>14. A \o B \o g \in Seq(V) /\ Rising(A \o B \o g, 0, max)
  <2> DEFINE AB == A \o B
  <2> HIDE DEF AB
  <2>1. AB \in Seq(V) /\ Rising(AB, 0, min)
    BY <1>13 DEF AB
  <2>2. AB \o g \in Seq(V) /\ Rising(AB \o g, 0, max)
    BY <1>7, <1>8, <1>12, <2>1, RisingConcat
  <2>3. QED
    BY <2>2 DEF AB
<1>15. A \o B \o g \o D \in Seq(V) /\ Rising(A \o B \o g \o D, 0, max)
  <2> DEFINE ABg == A \o B \o g
  <2> HIDE DEF ABg
  <2>1. ABg \in Seq(V) /\ Rising(ABg, 0, max)
    BY <1>14 DEF ABg
  <2>2. ABg \o D \in Seq(V) /\ Rising(ABg \o D, 0, max)
    BY <1>7, <1>11, <1>12, <2>1, RisingConcat
  <2>3. QED
    BY <2>2 DEF ABg
<1>16. QED
  BY <1>4, <1>15 DEF V, min, max, least, most

-----------------------------------------------------------------------------
(***************************************************************************)
(* The specification.                                                      *)
(***************************************************************************)
\* A subscription starts with the effective policy of the moment.
LEMMA InitInv ==
  ASSUME Init
  PROVE  IInv
<1>1. Typed
  BY CasesAssumption, EmptySeq DEF Init, Typed
<1>2. QED
  BY <1>1 DEF Init, IInv, JobSettled, Unharmed, RoundTrip, EffectiveIsCurrent

\* An update makes a request's own result the present one; it harms those
\* that have computed theirs.
LEMMA ApplyStep ==
  ASSUME IInv, NEW r \in DOMAIN req, Apply(r)
  PROVE  IInv'
<1>1. /\ req[r].pc = "apply" /\ subPolicy' = Updated(r) /\ effective' = EffectiveAfter(r)
      /\ req' = [req EXCEPT ![r] = [pc |-> "store", effective |-> EffectiveAfter(r)]]
      /\ unharmed' = unharmed \ { x \in DOMAIN req \ {r} : req[x].pc = "store" }
      /\ fresh' = (r \in unharmed)
      /\ UNCHANGED <<case, topicPolicy, job, used>>
  BY DEF Apply
<1>2. Updated(r) \in Seq(RetryPolicies)
  <2>1. case.value[r].policy \in Seq(RetryPolicies) /\ subPolicy \in Seq(RetryPolicies)
    BY CasesAssumption DEF IInv, Typed
  <2>2. QED
    BY <2>1 DEF Updated
<1>3. r \in unharmed => EffectiveAfter(r) = EffectivePolicy(topicPolicy, Updated(r))
  BY <1>1 DEF EffectiveAfter, IInv, Unharmed
<1>4. Typed' /\ JobSettled' /\ RoundTrip'
  BY <1>1, <1>2 DEF IInv, Typed, JobSettled, RoundTrip
<1>5. EffectiveIsCurrent'
  BY <1>1, <1>3 DEF EffectiveIsCurrent
<1>6. Unharmed'
  <2> SUFFICES ASSUME NEW x \in DOMAIN req, x \in unharmed'
               PROVE  /\ req'[x].pc = "apply" => req'[x].topic = topicPolicy
                      /\ req'[x].pc = "store" =>
                           req'[x].effective = EffectivePolicy(topicPolicy, Updated(r))
    BY <1>1 DEF Unharmed
  <2>1. CASE x = r
    <3>1. req'[x] = [pc |-> "store", effective |-> EffectiveAfter(r)]
      BY <1>1, <2>1
    <3>2. QED
      BY <1>1, <1>3, <2>1, <3>1
  <2>2. CASE x # r
    BY <1>1, <2>2 DEF IInv, Unharmed
  <2>3. QED
    BY <2>1, <2>2
<1>7. QED
  BY <1>4, <1>5, <1>6 DEF IInv

\* The second update stores what is still right, if the request is unharmed.
LEMMA StoreStep ==
  ASSUME IInv, NEW r \in DOMAIN req, StoreEffective(r)
  PROVE  IInv'
<1>1. /\ req[r].pc = "store"
      /\ req' = [req EXCEPT ![r] = [pc |-> "done"]]
      /\ \/ effective' = req[r].effective /\ fresh' = (r \in unharmed)
         \/ effective' = effective /\ fresh' = fresh
      /\ UNCHANGED <<case, topicPolicy, subPolicy, job, used, unharmed>>
  BY DEF StoreEffective
<1>2. r \in unharmed => req[r].effective = EffectivePolicy(topicPolicy, subPolicy)
  BY <1>1 DEF IInv, Unharmed
<1>3. Typed' /\ JobSettled' /\ RoundTrip'
  BY <1>1 DEF IInv, Typed, JobSettled, RoundTrip
<1>4. EffectiveIsCurrent'
  BY <1>1, <1>2 DEF IInv, EffectiveIsCurrent
<1>5. Unharmed'
  BY <1>1 DEF IInv, Unharmed
<1>6. QED
  BY <1>3, <1>4, <1>5 DEF IInv

\* Requests that begin or fail, and changes of the topic, leave what is stored.
LEMMA OtherStep ==
  ASSUME IInv,
         \/ \E r \in DOMAIN req : ReadTopic(r) \/ FailRequest(r)
         \/ SetTopicPolicy \/ UNCHANGED vars
  PROVE  IInv'
<1>1. ASSUME NEW r \in DOMAIN req, ReadTopic(r)
      PROVE  IInv'
  <2>1. /\ req' = [req EXCEPT ![r] = [pc |-> "apply", topic |-> topicPolicy]]
        /\ unharmed' = unharmed \cup {r}
        /\ UNCHANGED <<case, topicPolicy, subPolicy, effective, job, used, fresh>>
    BY <1>1 DEF ReadTopic
  <2>2. Typed' /\ JobSettled' /\ RoundTrip' /\ EffectiveIsCurrent'
    BY <2>1 DEF IInv, Typed, JobSettled, RoundTrip, EffectiveIsCurrent
  <2>3. Unharmed'
    BY <2>1 DEF IInv, Unharmed
  <2>4. QED
    BY <2>2, <2>3 DEF IInv
<1>2. ASSUME NEW r \in DOMAIN req, FailRequest(r)
      PROVE  IInv'
  <2>1. /\ req' = [req EXCEPT ![r] = [pc |-> "done"]]
        /\ UNCHANGED <<case, topicPolicy, subPolicy, effective, job, used, unharmed, fresh>>
    BY <1>2 DEF FailRequest
  <2>2. Typed' /\ JobSettled' /\ RoundTrip' /\ EffectiveIsCurrent'
    BY <2>1 DEF IInv, Typed, JobSettled, RoundTrip, EffectiveIsCurrent
  <2>3. Unharmed'
    BY <2>1 DEF IInv, Unharmed
  <2>4. QED
    BY <2>2, <2>3 DEF IInv
<1>3. CASE SetTopicPolicy
  <2>1. /\ topicPolicy' \in case.later /\ unharmed' = {} /\ fresh' = FALSE
        /\ UNCHANGED <<case, subPolicy, effective, req, job, used>>
    BY <1>3 DEF SetTopicPolicy
  <2>2. topicPolicy' \in TopicPolicies
    BY <2>1, CasesAssumption DEF IInv, Typed
  <2>3. QED
    BY <2>1, <2>2
       DEF IInv, Typed, JobSettled, RoundTrip, EffectiveIsCurrent, Unharmed
<1>4. CASE UNCHANGED vars
  BY <1>4 DEF vars, IInv, Typed, JobSettled, RoundTrip, EffectiveIsCurrent, Unharmed
<1>5. QED
  BY <1>1, <1>2, <1>3, <1>4

\* The policy of a job is settled, so the worker parses what was enqueued.
LEMMA JobStep ==
  ASSUME IInv, EnqueueJob \/ ParseJob
  PROVE  IInv'
<1>1. CASE EnqueueJob
  <2>1. /\ job = <<>> /\ job' = <<EffectivePolicy(topicPolicy, subPolicy)>>
        /\ UNCHANGED <<case, topicPolicy, subPolicy, effective, req, used, unharmed, fresh>>
    BY <1>1 DEF EnqueueJob
  <2>2. Settled(EffectivePolicy(topicPolicy, subPolicy))
    BY EffectiveSettled DEF IInv, Typed
  <2>3. used = <<>>
    BY <2>1 DEF IInv, RoundTrip
  <2>4. JobSettled' /\ RoundTrip'
    BY <2>1, <2>2, <2>3 DEF JobSettled, RoundTrip
  <2>5. Typed' /\ Unharmed' /\ EffectiveIsCurrent'
    BY <2>1 DEF IInv, Typed, Unharmed, EffectiveIsCurrent
  <2>6. QED
    BY <2>4, <2>5 DEF IInv
<1>2. CASE ParseJob
  <2>1. /\ job # <<>> /\ used' = <<ParseSubscriptionPolicy(job[1])>>
        /\ UNCHANGED <<case, topicPolicy, subPolicy, effective, req, job, unharmed, fresh>>
    BY <1>2 DEF ParseJob
  <2>2. PICK rp : job = <<rp>> /\ Settled(rp)
    BY <2>1 DEF IInv, JobSettled
  <2>3. job[1] = rp /\ ParseSubscriptionPolicy(rp) = rp
    BY <2>2, ParseSettled
  <2>4. RoundTrip'
    BY <2>1, <2>2, <2>3 DEF RoundTrip
  <2>5. Typed' /\ Unharmed' /\ EffectiveIsCurrent' /\ JobSettled'
    BY <2>1 DEF IInv, Typed, Unharmed, EffectiveIsCurrent, JobSettled
  <2>6. QED
    BY <2>4, <2>5 DEF IInv
<1>3. QED
  BY <1>1, <1>2

\* The invariant holds throughout.
LEMMA PolicyInvariant == Spec => []IInv
<1>1. Init => IInv
  BY InitInv
<1>2. IInv /\ [Next]_vars => IInv'
  BY ApplyStep, StoreStep, OtherStep, JobStep DEF Next
<1>3. QED
  BY <1>1, <1>2, PTL DEF Spec

\* What the worker parses from a job is exactly the effective policy that was
\* enqueued, whatever the policies of topic and subscription leave out.
THEOREM ParsedAsEnqueued == Spec => []RoundTrip
<1>1. IInv => RoundTrip
  BY DEF IInv
<1>2. QED
  BY <1>1, PolicyInvariant, PTL

\* The stored effective policy is that of the present policies, unless the
\* topic's has changed or another request has written in between.
THEOREM EffectiveStaysCurrent == Spec => []EffectiveIsCurrent
<1>1. IInv => EffectiveIsCurrent
  BY DEF IInv
<1>2. QED
  BY <1>1, PolicyInvariant, PTL

\* The policy the worker uses is a policy.
LEMMA UsedPolicy ==
  ASSUME IInv, used # <<>>
  PROVE  used[1] \in RetryPolicies
<1>1. used = job /\ job # <<>>
  BY DEF IInv, RoundTrip
<1>2. PICK rp : job = <<rp>> /\ Settled(rp)
  BY <1>1 DEF IInv, JobSettled
<1>3. QED
  BY <1>1, <1>2 DEF Settled

\* A job is retried NumRetries times, or as often as its fixed delays say when
\* they are more; negative counts never take a retry away, unless the
\* subtraction overflows.
THEOREM RetriesCounted == Spec => []RetryCount
<1>1. IInv => RetryCount
  <2> SUFFICES ASSUME IInv, used # <<>>, ~RetryError(used[1]), Remaining(used[1]) \in Words
               PROVE  LET rp == used[1]
                          n == Len(RetryDelays(rp))
                      IN
                      /\ n >= rp.NumRetries
                      /\ (\A f \in Counts : rp[f] >= 0) =>
                           n = Larger(rp.NumRetries,
                                 rp.NumNoDelayRetries + rp.NumMinDelayRetries
                                   + rp.NumMaxDelayRetries)
    BY DEF RetryCount
  <2>1. used[1] \in RetryPolicies
    BY UsedPolicy
  <2>2. QED
    BY <2>1, CountFacts
<1>2. QED
  BY <1>1, PolicyInvariant, PTL

\* The delays never decrease, and all but the immediate ones lie between the
\* targets, for known and unknown backoff functions and any rounding, as long
\* as the targets are Durations and float64 tells the steps apart.
THEOREM DelaysInOrder == Spec => []DelaysOrdered
<1>1. ASSUME NEW rp \in RetryPolicies, InRange(rp)
      PROVE  LET delays == RetryDelays(rp) IN
             /\ \A i \in 1..(Len(delays) - 1) : delays[i] <= delays[i + 1]
             /\ \A i \in DOMAIN delays :
                  \/ delays[i] = 0
                  \/ delays[i] \in (rp.MinDelayTarget * Second)..(rp.MaxDelayTarget * Second)
  <2> DEFINE delays == RetryDelays(rp)
             max == rp.MaxDelayTarget * Second
             V == {0} \cup (rp.MinDelayTarget * Second)..max
  <2>1. CASE RetryError(rp)
    <3>1. delays = <<>>
      BY <2>1 DEF RetryDelays
    <3> HIDE DEF delays
    <3>2. Len(delays) = 0 /\ DOMAIN delays = {}
      BY <3>1
    <3>3. 1..(Len(delays) - 1) = {}
      BY <3>2
    <3>4. QED
      BY <3>2, <3>3 DEF delays
  <2>2. CASE ~RetryError(rp)
    <3>1. delays \in Seq(V) /\ Rising(delays, 0, max)
      BY <1>1, <2>2, DelaysRise
    <3> HIDE DEF delays, V, max
    <3>2. \A i \in DOMAIN delays : delays[i] \in V
      BY <3>1
    <3>3. ASSUME NEW i \in 1..(Len(delays) - 1)
          PROVE  delays[i] <= delays[i + 1]
      <4>1. Len(delays) \in Nat
        BY <3>1
      <4>2. i \in 1..Len(delays) /\ i + 1 \in 1..Len(delays) /\ i <= i + 1
        BY <4>1
      <4>3. QED
        BY <3>1, <4>2 DEF Rising
    <3>4. QED
      BY <3>2, <3>3 DEF delays, V, max
  <2>3. QED
    BY <2>1, <2>2
<1>2. IInv => DelaysOrdered
  BY <1>1, UsedPolicy DEF DelaysOrdered
<1>3. QED
  BY <1>2, PolicyInvariant, PTL
=============================================================================
