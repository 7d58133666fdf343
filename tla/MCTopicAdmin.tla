--------------------------- MODULE MCTopicAdmin ----------------------------
(***************************************************************************)
(* Documents: none; one that denies before it allows, repeats a label and  *)
(* has a denial that cannot be read.  A request may bring as many tags as  *)
(* the limit allows.                                                       *)
(***************************************************************************)
EXTENDS TopicAdmin, TLC

CONSTANTS owner, other, l1, l2, k1, k2, k3, k4, k5, k6, k7

Stmt(label, effect, accounts, actions, resources) ==
  [Sid |-> label, Effect |-> effect, Principal |-> accounts, Action |-> actions,
   Resource |-> resources, SourceOwner |-> {"*"}]

Documents ==
  { <<>>,
    << Stmt(l1, "Deny", {other}, {"Publish"}, {"topic"}),
       Stmt(l2, "Deny", {owner}, {"Publish"}, {}),
       Stmt(l1, "Allow", {"*"}, {"*"}, {"*"}) >> }
GrantSets == { {"AddPermission", "Publish"} }

ManyTags == { {k1, k2}, {k3, k4}, {k5, k6}, {k7} }

Interchangeable == Permutations(Request)
=============================================================================
