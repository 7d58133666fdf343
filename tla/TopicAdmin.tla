----------------------------- MODULE TopicAdmin -----------------------------
(***************************************************************************)
(* The access policy and the tags of one topic: AddPermission,             *)
(* RemovePermission, SetTopicAttribute (of the Policy), TagTopic and       *)
(* UntagTopic as concurrent requests of several accounts, with deletion    *)
(* and re-creation of the topic.  A request reads the topic, asks the      *)
(* policy it read for permission, and prepares its change; a later         *)
(* transaction of the SQLite store, UpdateTopic, applies it to whatever    *)
(* the topic is then.                                                      *)
(*                                                                         *)
(* A policy is the sequence of its statements; the empty string counts as  *)
(* the empty policy.  Lists of a statement are sets, in which "*" matches  *)
(* everything, as an absent principal or condition does.  Evaluate skips a *)
(* statement it cannot read: a list that is no list of strings is the      *)
(* empty set, which matches nothing.                                       *)
(***************************************************************************)
EXTENDS SequencesExt, Naturals

CONSTANTS
  Request,     \* concurrent requests
  Account,     \* accounts that send them
  Owner,       \* the account of the emulator, owner of all topics
  Label,       \* labels of permissions
  Grants,      \* sets of actions AddPermission is asked to allow
  Document,    \* policies SetTopicAttribute is given
  TagKey,
  TagSets,     \* sets of tags requests are given
  TagLimit,    \* 50 in the code
  MaxTopics    \* bound: topics created

Actions == {"AddPermission", "RemovePermission", "SetTopicAttributes",
            "TagResource", "UntagResource", "Publish"}

Statement(labels) ==
  [Sid : labels, Effect : {"Allow", "Deny"}, Principal : SUBSET (Account \cup {"*"}),
   Action : SUBSET (Actions \cup {"*"}), Resource : SUBSET {"*", "topic", "other topic"},
   SourceOwner : {{"*"}, {Owner}}]

Default == "__default_statement_ID"

ASSUME AccountAssumption == Owner \in Account
ASSUME GrantsAssumption == Grants \subseteq SUBSET Actions
ASSUME DocumentAssumption == Document \subseteq Seq(Statement(Label))
ASSUME TagsAssumption == TagSets \subseteq SUBSET TagKey /\ \A keys \in TagSets : IsFiniteSet(keys)
ASSUME BoundsAssumption == TagLimit \in Nat /\ MaxTopics \in Nat
ASSUME RequestAssumption == IsFiniteSet(Request)

VARIABLES
  exists,   \* the topic exists
  policy,   \* Attributes.Policy
  tags,     \* the keys of Tags
  req,      \* req[r]: "idle", or the change a request is about to make
  created,  \* topics created so far
  revoked   \* history: labels removed while no other request was under way

vars == <<exists, policy, tags, req, created, revoked>>

-----------------------------------------------------------------------------
(***************************************************************************)
(* internal/policy.                                                        *)
(***************************************************************************)
DefaultTopicPolicy ==
  << [Sid |-> Default, Effect |-> "Allow", Principal |-> {"*"},
      Action |-> Actions, Resource |-> {"topic"}, SourceOwner |-> {Owner}] >>

matchesAny(items, value) == "*" \in items \/ value \in items

\* The context of a request holds its account as AWS:SourceOwner.
statementMatches(stmt, account, action) ==
  /\ matchesAny(stmt.Action, action)
  /\ matchesAny(stmt.Resource, "topic")
  /\ matchesAny(stmt.Principal, account)
  /\ matchesAny(stmt.SourceOwner, account)

\* Mutant: the last statement that matches decides.
EvaluateLastWins(doc, account, action) ==
  FoldLeft(LAMBDA allowed, stmt :
             IF statementMatches(stmt, account, action)
             THEN stmt.Effect = "Allow" ELSE allowed,
           account = Owner, doc)

\* The loop over the statements; a Deny returns at once.
Evaluate(doc, account, action) ==
  LET verdict[n \in 0..Len(doc)] ==
        IF n = 0 THEN IF account = Owner THEN "allowed" ELSE "refused"
        ELSE IF verdict[n - 1] = "denied" \/ ~statementMatches(doc[n], account, action)
             THEN verdict[n - 1]
        ELSE IF doc[n].Effect = "Deny" THEN "denied" ELSE "allowed"
  IN  verdict[Len(doc)] = "allowed"

HasLabel(doc, label) == \E i \in DOMAIN doc : doc[i].Sid = label

\* Mutant: the permission is granted to the label.
AddPermissionToLabel(doc, label, accounts, actions) ==
  Append(doc, [Sid |-> label, Effect |-> "Allow", Principal |-> {label},
               Action |-> actions, Resource |-> {"topic"}, SourceOwner |-> {"*"}])

AddPermission(doc, label, accounts, actions) ==
  Append(doc, [Sid |-> label, Effect |-> "Allow", Principal |-> accounts,
               Action |-> actions, Resource |-> {"topic"}, SourceOwner |-> {"*"}])

\* Mutant: only the first statement with the label goes.
RemovePermissionFirst(doc, label) ==
  RemoveAt(doc, CHOOSE i \in DOMAIN doc :
                  doc[i].Sid = label /\ \A j \in 1..(i - 1) : doc[j].Sid # label)

RemovePermission(doc, label) ==
  LET filtered[n \in 0..Len(doc)] ==
        IF n = 0 THEN <<>>
        ELSE IF doc[n].Sid = label THEN filtered[n - 1]
        ELSE Append(filtered[n - 1], doc[n])
  IN  filtered[Len(doc)]

-----------------------------------------------------------------------------
Idle == [op |-> "idle"]

Init ==
  /\ exists = FALSE
  /\ policy = <<>>
  /\ tags = {}
  /\ req = [r \in Request |-> Idle]
  /\ created = 0
  /\ revoked = {}

\* GetTopic and authorizeTopic succeed for account a.
Authorized(r, a, action) ==
  /\ req[r] = Idle
  /\ exists
  /\ Evaluate(policy, a, action)

Prepare(r, change) ==
  /\ req' = [req EXCEPT ![r] = change]
  /\ UNCHANGED <<exists, policy, tags, created, revoked>>

BeginAdd(r, a, label, accounts, actions) ==
  /\ Authorized(r, a, "AddPermission")
  /\ ~HasLabel(policy, label)
  /\ Prepare(r, [op |-> "add", label |-> label,
                 policy |-> AddPermission(policy, label, accounts, actions)])

BeginRemove(r, a, label) ==
  /\ Authorized(r, a, "RemovePermission")
  /\ HasLabel(policy, label)
  /\ Prepare(r, [op |-> "remove", label |-> label,
                 policy |-> RemovePermission(policy, label)])

\* The document has been parsed successfully when it is stored.
BeginSet(r, a, doc) ==
  /\ Authorized(r, a, "SetTopicAttributes")
  /\ Prepare(r, [op |-> "set", policy |-> doc])

\* Mutant: only the new tags are counted.
WithinLimitAlone(keys) == Cardinality(keys) <= TagLimit
WithinLimit(keys) == Cardinality(tags) + Cardinality(keys) <= TagLimit

\* TagTopic: all tags of the request count as new ones.
BeginTag(r, a, keys) ==
  /\ Authorized(r, a, "TagResource")
  /\ WithinLimit(keys)
  /\ Prepare(r, [op |-> "tag", keys |-> keys])

BeginUntag(r, a, keys) ==
  /\ Authorized(r, a, "UntagResource")
  /\ Prepare(r, [op |-> "untag", keys |-> keys])

Quiet(r) == \A other \in Request \ {r} : req[other] = Idle

\* Mutant: the statement is added to the policy of the moment.
PolicyAfterAppends(change) ==
  IF change.op = "add" THEN Append(policy, Last(change.policy)) ELSE change.policy
PolicyAfter(change) == change.policy

\* UpdateTopic with the callback that replaces the policy.
UpdatePolicy(r) ==
  /\ req[r].op \in {"add", "remove", "set"}
  /\ exists
  /\ policy' = PolicyAfter(req[r])
  /\ revoked' = CASE req[r].op = "remove" /\ Quiet(r) -> revoked \cup {req[r].label}
                  [] req[r].op = "add" -> revoked \ {req[r].label}
                  [] req[r].op = "set" -> {}
                  [] OTHER -> revoked
  /\ req' = [req EXCEPT ![r] = Idle]
  /\ UNCHANGED <<exists, tags, created>>

\* UpdateTopic with the callback that changes the tags.
UpdateTags(r) ==
  /\ req[r].op \in {"tag", "untag"}
  /\ exists
  /\ tags' = IF req[r].op = "tag" THEN tags \cup req[r].keys ELSE tags \ req[r].keys
  /\ req' = [req EXCEPT ![r] = Idle]
  /\ UNCHANGED <<exists, policy, created, revoked>>

\* The topic is gone, or the transaction fails.
FailUpdate(r) ==
  /\ req[r] # Idle
  /\ req' = [req EXCEPT ![r] = Idle]
  /\ UNCHANGED <<exists, policy, tags, created, revoked>>

\* With tags, and the Policy attribute or the default.
CreateTopic(keys, doc) ==
  /\ ~exists
  /\ created < MaxTopics
  /\ Cardinality(keys) <= TagLimit
  /\ exists' = TRUE
  /\ policy' = doc
  /\ tags' = keys
  /\ created' = created + 1
  /\ revoked' = { l \in revoked : ~HasLabel(doc, l) }
  /\ UNCHANGED req

\* Nobody is asked for permission.  All permissions go.
DeleteTopic ==
  /\ exists
  /\ exists' = FALSE
  /\ policy' = <<>>
  /\ tags' = {}
  /\ revoked' = IF \A r \in Request : req[r] = Idle THEN Label ELSE {}
  /\ UNCHANGED <<req, created>>

Step(r) ==
  \/ \E a \in Account :
       \/ \E l \in Label, b \in Account, g \in Grants : BeginAdd(r, a, l, {b}, g)
       \/ \E l \in Label : BeginRemove(r, a, l)
       \/ \E d \in Document : BeginSet(r, a, d)
       \/ \E keys \in TagSets : BeginTag(r, a, keys) \/ BeginUntag(r, a, keys)
  \/ UpdatePolicy(r) \/ UpdateTags(r) \/ FailUpdate(r)

Next ==
  \/ \E r \in Request : Step(r)
  \/ (\E keys \in TagSets \cup {{}}, doc \in Document \cup {DefaultTopicPolicy} :
        CreateTopic(keys, doc))
  \/ DeleteTopic

Spec == Init /\ [][Next]_vars

-----------------------------------------------------------------------------
\* The topic and the changes under way are well formed.
TypeOK ==
  /\ exists \in BOOLEAN
  /\ Range(policy) \subseteq Statement(Label \cup {Default})
  /\ tags \subseteq TagKey
  /\ created \in 0..MaxTopics
  /\ revoked \subseteq Label
  /\ \A r \in Request :
       \/ req[r] = Idle
       \/ /\ req[r].op \in {"add", "remove", "set"}
          /\ Range(req[r].policy) \subseteq Statement(Label \cup {Default})
       \/ req[r].op \in {"tag", "untag"} /\ req[r].keys \in TagSets

\* What the loop of Evaluate computes on every policy that requests can
\* produce: the owner, and whomever a statement allows, unless a statement
\* denies it, wherever in the policy the statements stand.
DenyOverrides ==
  \A a \in Account, action \in Actions :
    LET matching == { s \in Range(policy) : statementMatches(s, a, action) } IN
    Evaluate(policy, a, action)
      <=> /\ a = Owner \/ \E s \in matching : s.Effect = "Allow"
          /\ \A s \in matching : s.Effect # "Deny"

\* AddPermission never makes a label ambiguous, although it checks the label
\* on a policy that is out of date when it writes: two statements with one
\* label come from a document given to SetTopicAttribute.
LabelsUnique ==
  \A i, j \in DOMAIN policy :
    i # j /\ policy[i].Sid = policy[j].Sid =>
      \E d \in Document : {policy[i], policy[j]} \subseteq Range(d)

\* A permission that is removed, by itself or with its topic, while no other
\* request is under way does not come back unless somebody grants it again.
\* Overlapping requests give no such guarantee: the later write restores what
\* it read.
RevokedStaysRevoked == \A l \in revoked : ~HasLabel(policy, l)

\* The limit of tags is checked on a topic that may be out of date: it can be
\* exceeded, by the tags of the requests under way, each of which brings at
\* most TagLimit, and by no more however long requests go on.  (All of them
\* can be late: they may have read a topic that was deleted and created again
\* with its tags in the meantime.)
TagsBounded == Cardinality(tags) <= TagLimit * (Cardinality(Request) + 1)
=============================================================================
