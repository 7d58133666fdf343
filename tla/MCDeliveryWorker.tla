------------------------ MODULE MCDeliveryWorker -------------------------
(***************************************************************************)
(* A job with two retries, at once and after a delay, and one with one     *)
(* retry.  They belong to different topics.                                *)
(***************************************************************************)
EXTENDS DeliveryWorker

CONSTANTS n1, n2, t1, t2

Policies == (n1 :> <<0, 2>>) @@ (n2 :> <<1>>)
ShortPolicies == (n1 :> <<1>>) @@ (n2 :> <<0>>)
Topics == (n1 :> t1) @@ (n2 :> t2)
=============================================================================
