--------------------------- MODULE MCRetryPolicy ----------------------------
(***************************************************************************)
(* Absent, small, inconsistent and overflowing values of every field, and  *)
(* an unknown backoff function, set by one request; two requests and a     *)
(* change of the topic's policy over a few.                                *)
(***************************************************************************)
EXTENDS RetryPolicy

Raw(min, max, n, fixed, backoff) ==
  [MinDelayTarget |-> min, MaxDelayTarget |-> max, NumRetries |-> n,
   NumNoDelayRetries |-> fixed[1], NumMinDelayRetries |-> fixed[2],
   NumMaxDelayRetries |-> fixed[3], BackoffFunction |-> backoff]

OfTopics ==
  { Raw(min, max, n, fixed, backoff) :
      min \in {0, 3}, max \in {0, 7, 30}, n \in {0, 5}, fixed \in {<<0, 0, 0>>, <<1, 1, 2>>},
      backoff \in {"", "arithmetic", "geometric", "exponential", "unknown"} }
OfSubscriptions ==
  { Raw(min, max, n, fixed, backoff) :
      min \in {0, 4, 25}, max \in {0, 26, 100}, n \in {-1, 0, 2, 6, 11},
      fixed \in {<<0, 0, 0>>, <<4, 0, 3>>, <<-2, 1, 0>>, <<-80, -80, 0>>},
      backoff \in {"", "geometric"} }

CONSTANTS r1, r2

Topic(rp, disable) ==
  [DefaultHealthyRetryPolicy |-> rp, DisableSubscriptionOverrides |-> disable]

Sets(policy) == [attribute |-> "DeliveryPolicy", policy |-> policy]

One ==
  { [topic |-> Topic(rp, FALSE), later |-> {}, value |-> [r \in {r1} |-> Sets(<<raw>>)]] :
      rp \in OfTopics, raw \in OfSubscriptions }

None == Raw(0, 0, 0, <<0, 0, 0>>, "")
Few ==
  { [attribute |-> "other", policy |-> <<>>], Sets(<<>>),
    Sets(<<Raw(4, 0, 2, <<0, 0, 0>>, "")>>),
    Sets(<<Raw(0, 26, 0, <<1, 0, 0>>, "geometric")>>) }
Topics == { Topic(None, FALSE), Topic(None, TRUE), Topic(Raw(3, 30, 5, <<0, 0, 0>>, ""), FALSE) }
Contended ==
  { [topic |-> t, later |-> Topics, value |-> v] : t \in Topics, v \in [{r1, r2} -> Few] }

AllCases == One \cup Contended
=============================================================================
