--------------------------- MODULE TopicAdminProofs --------------------------
(***************************************************************************)
(* Access policies and tags, for any requests, accounts, labels, documents *)
(* and limits: what the loop of Evaluate decides on a policy of any        *)
(* length, and what holds of the topic although every request decides on a *)
(* copy that is out of date when it writes.                                *)
(*                                                                         *)
(* The inductive invariant says of every change under way what the         *)
(* properties say of the policy: a change is the whole policy that will be *)
(* written, so it has to be good before it is applied.                     *)
(***************************************************************************)
EXTENDS TopicAdmin, FiniteSetTheorems, SequenceTheorems, WellFoundedInduction, TLAPS

-----------------------------------------------------------------------------
(***************************************************************************)
(* Induction.  Sets of natural numbers stand for the predicates.           *)
(***************************************************************************)
\* A set of natural numbers that is not empty has a least element.
LEMMA LeastNat ==
  ASSUME NEW T \in SUBSET Nat, T # {}
  PROVE  \E x \in T : \A y \in T : x <= y
<1>1. PICK x \in T : \A y \in T : <<y, x>> \notin OpToRel(<, Nat)
  BY NatLessThanWellFounded, WFMin
<1>2. OpToRel(<, Nat) = {ss \in Nat \X Nat : ss[1] < ss[2]}
  BY DEF OpToRel
<1>3. \A y \in T : ~(y < x)
  BY <1>1, <1>2
<1>4. QED
  BY <1>3

\* A set that holds 0 and the successor of each of its elements holds them all.
LEMMA SetInduction ==
  ASSUME NEW T \in SUBSET Nat, 0 \in T, \A n \in T : n + 1 \in T
  PROVE  T = Nat
<1>1. SUFFICES ASSUME Nat \ T # {} PROVE FALSE
  OBVIOUS
<1>2. PICK x \in Nat \ T : \A y \in Nat \ T : x <= y
  BY <1>1, LeastNat
<1>3. x # 0 /\ x - 1 \in Nat
  BY <1>2
<1>4. x - 1 \in T
  BY <1>2, <1>3
<1>5. QED
  BY <1>2, <1>3, <1>4

-----------------------------------------------------------------------------
(***************************************************************************)
(* RemovePermission.                                                       *)
(***************************************************************************)
\* f holds what the loop has kept after each of the first m statements.
Filtered(doc, label, m, f) ==
  f = [n \in 0..m |-> IF n = 0 THEN <<>>
                      ELSE IF doc[n].Sid = label THEN f[n - 1]
                      ELSE Append(f[n - 1], doc[n])]

\* What is kept of the first m statements: different ones, without the label.
Kept(doc, label, m, s) ==
  /\ \A i \in 1..Len(s) : s[i].Sid # label
  /\ \E h \in [1..Len(s) -> 1..m] :
       /\ \A i \in 1..Len(s) : s[i] = doc[h[i]]
       /\ \A i, j \in 1..Len(s) : i # j => h[i] # h[j]

\* One turn of the loop.
LEMMA KeptAppend ==
  ASSUME NEW S, NEW doc \in Seq(S), NEW label, NEW m \in Nat, m + 1 <= Len(doc),
         NEW s \in Seq(S), Kept(doc, label, m, s)
  PROVE  /\ Kept(doc, label, m + 1, s)
         /\ doc[m + 1].Sid # label =>
              /\ Append(s, doc[m + 1]) \in Seq(S)
              /\ Kept(doc, label, m + 1, Append(s, doc[m + 1]))
<1>1. PICK h \in [1..Len(s) -> 1..m] :
        /\ \A i \in 1..Len(s) : s[i] = doc[h[i]]
        /\ \A i, j \in 1..Len(s) : i # j => h[i] # h[j]
  BY DEF Kept
<1>2. Kept(doc, label, m + 1, s)
  <2>1. h \in [1..Len(s) -> 1..(m + 1)]
    BY <1>1
  <2>2. QED
    BY <1>1, <2>1 DEF Kept
<1>3. ASSUME doc[m + 1].Sid # label
      PROVE  /\ Append(s, doc[m + 1]) \in Seq(S)
             /\ Kept(doc, label, m + 1, Append(s, doc[m + 1]))
  <2> DEFINE t == Append(s, doc[m + 1])
             g == [i \in 1..(Len(s) + 1) |-> IF i = Len(s) + 1 THEN m + 1 ELSE h[i]]
  <2>1. doc[m + 1] \in S /\ Len(s) \in Nat
    OBVIOUS
  <2>2. /\ t \in Seq(S) /\ Len(t) = Len(s) + 1
        /\ \A i \in 1..Len(s) : t[i] = s[i]
        /\ t[Len(s) + 1] = doc[m + 1]
    BY <2>1, AppendProperties
  <2> HIDE DEF t
  <2>3. g \in [1..Len(t) -> 1..(m + 1)]
    BY <1>1, <2>1, <2>2
  <2>4. \A i \in 1..Len(t) : t[i] = doc[g[i]] /\ t[i].Sid # label
    <3>1. TAKE i \in 1..Len(t)
    <3>2. CASE i = Len(s) + 1
      BY <1>3, <2>1, <2>2, <3>2
    <3>3. CASE i # Len(s) + 1
      <4>1. i \in 1..Len(s)
        BY <2>1, <2>2, <3>3
      <4>2. t[i] = s[i] /\ g[i] = h[i] /\ s[i].Sid # label
        BY <2>1, <2>2, <4>1 DEF Kept
      <4>3. QED
        BY <1>1, <4>1, <4>2
    <3>4. QED
      BY <3>2, <3>3
  <2>5. \A i, j \in 1..Len(t) : i # j => g[i] # g[j]
    <3>1. \A i \in 1..Len(s) : g[i] = h[i] /\ h[i] <= m
      BY <1>1, <2>1
    <3>2. g[Len(s) + 1] = m + 1
      BY <2>1
    <3>3. \A i \in 1..Len(t) : i = Len(s) + 1 \/ i \in 1..Len(s)
      BY <2>1, <2>2
    <3> HIDE DEF g
    <3>4. \A i \in 1..Len(s) : h[i] # m + 1
      BY <1>1, <3>1
    <3>5. QED
      BY <1>1, <3>1, <3>2, <3>3, <3>4
  <2>6. Kept(doc, label, m + 1, t)
    BY <2>3, <2>4, <2>5 DEF Kept
  <2>7. QED
    BY <2>2, <2>6 DEF t
<1>4. QED
  BY <1>2, <1>3

\* The loop computes something after every turn.
LEMMA FilteredExists ==
  ASSUME NEW doc, NEW label, NEW m \in Nat
  PROVE  \E f : Filtered(doc, label, m, f)
<1> DEFINE T == { n \in Nat : \E f : Filtered(doc, label, n, f) }
<1>1. 0 \in T
  <2>1. Filtered(doc, label, 0, [n \in 0..0 |-> <<>>])
    BY DEF Filtered
  <2>2. QED
    BY <2>1
<1>2. ASSUME NEW n \in T PROVE n + 1 \in T
  <2>1. n \in Nat
    OBVIOUS
  <2>2. PICK f : Filtered(doc, label, n, f)
    OBVIOUS
  <2> DEFINE v == IF doc[n + 1].Sid = label THEN f[n] ELSE Append(f[n], doc[n + 1])
             g == [i \in 0..(n + 1) |-> IF i = n + 1 THEN v ELSE f[i]]
  <2> HIDE DEF v
  <2>3. ASSUME NEW i \in 0..(n + 1)
        PROVE  g[i] = IF i = 0 THEN <<>>
                      ELSE IF doc[i].Sid = label THEN g[i - 1]
                      ELSE Append(g[i - 1], doc[i])
    <3>1. CASE i = n + 1
      <4>1. g[i] = v /\ i # 0 /\ i - 1 = n /\ g[i - 1] = f[n]
        BY <2>1, <3>1
      <4>2. QED
        BY <3>1, <4>1 DEF v
    <3>2. CASE i # n + 1
      <4>1. i \in 0..n /\ g[i] = f[i] /\ (i # 0 => g[i - 1] = f[i - 1])
        BY <2>1, <3>2
      <4>2. QED
        BY <2>2, <4>1 DEF Filtered
    <3>3. QED
      BY <3>1, <3>2
  <2>4. Filtered(doc, label, n + 1, g)
    BY <2>3 DEF Filtered
  <2>5. QED
    BY <2>1, <2>4
<1>3. T = Nat
  <2> HIDE DEF T
  <2>1. QED
    BY <1>1, <1>2, SetInduction DEF T
<1>4. QED
  BY <1>3

\* Whatever it computes, it is what the loop is to keep.
LEMMA FilteredKept ==
  ASSUME NEW S, NEW doc \in Seq(S), NEW label,
         NEW f, Filtered(doc, label, Len(doc), f)
  PROVE  f[Len(doc)] \in Seq(S) /\ Kept(doc, label, Len(doc), f[Len(doc)])
<1> DEFINE Good(n) == f[n] \in Seq(S) /\ Kept(doc, label, n, f[n])
           T == { n \in Nat : n <= Len(doc) => Good(n) }
<1>1. Len(doc) \in Nat
  OBVIOUS
<1>2. 0 \in T
  <2>1. f[0] = <<>> /\ f[0] \in Seq(S) /\ Len(f[0]) = 0
    BY <1>1, EmptySeq DEF Filtered
  <2>2. 1..Len(f[0]) = {}
    BY <2>1
  <2>3. [i \in {} |-> 0] \in [1..Len(f[0]) -> 1..0]
    BY <2>2
  <2>4. QED
    BY <2>1, <2>2, <2>3 DEF Kept
<1>3. ASSUME NEW n \in T PROVE n + 1 \in T
  <2>1. SUFFICES ASSUME n + 1 <= Len(doc) PROVE Good(n + 1)
    OBVIOUS
  <2>2. n \in Nat /\ n + 1 \in 0..Len(doc) /\ n + 1 # 0 /\ n <= Len(doc)
    BY <1>1, <2>1
  <2>3. Good(n)
    BY <2>2
  <2> DEFINE i == n + 1
  <2>4. f[i] = IF doc[i].Sid = label THEN f[n] ELSE Append(f[n], doc[i])
    <3>1. i \in 0..Len(doc) /\ i # 0 /\ i - 1 = n
      BY <2>2
    <3> HIDE DEF i
    <3>2. f[i] = IF i = 0 THEN <<>> ELSE IF doc[i].Sid = label THEN f[i - 1]
                 ELSE Append(f[i - 1], doc[i])
      BY <3>1 DEF Filtered
    <3>3. QED
      BY <3>1, <3>2
  <2>5. /\ Kept(doc, label, i, f[n])
        /\ doc[i].Sid # label => /\ Append(f[n], doc[i]) \in Seq(S)
                                 /\ Kept(doc, label, i, Append(f[n], doc[i]))
    BY <2>1, <2>2, <2>3, KeptAppend
  <2> HIDE DEF i
  <2>6. f[i] \in Seq(S) /\ Kept(doc, label, i, f[i])
    BY <2>3, <2>4, <2>5
  <2>7. QED
    BY <2>6 DEF i
<1>4. T = Nat
  <2> HIDE DEF T
  <2>1. QED
    BY <1>2, <1>3, SetInduction DEF T
<1>5. QED
  BY <1>1, <1>4

\* RemovePermission keeps statements of the policy, each at most once, and
\* none with the label.
LEMMA RemoveFacts ==
  ASSUME NEW S, NEW doc \in Seq(S), NEW label
  PROVE  /\ RemovePermission(doc, label) \in Seq(S)
         /\ Kept(doc, label, Len(doc), RemovePermission(doc, label))
<1> DEFINE k == CHOOSE f : Filtered(doc, label, Len(doc), f)
<1>1. Filtered(doc, label, Len(doc), k)
  <2>1. Len(doc) \in Nat
    OBVIOUS
  <2>2. QED
    BY <2>1, FilteredExists
<1>2. RemovePermission(doc, label) = k[Len(doc)]
  BY DEF RemovePermission, Filtered
<1>3. QED
  BY <1>1, <1>2, FilteredKept

-----------------------------------------------------------------------------
(***************************************************************************)
(* Evaluate.                                                               *)
(***************************************************************************)
\* f holds the verdict of the loop after each of the first m statements.
Verdicts(doc, account, action, m, f) ==
  f = [n \in 0..m |->
         IF n = 0 THEN IF account = Owner THEN "allowed" ELSE "refused"
         ELSE IF f[n - 1] = "denied" \/ ~statementMatches(doc[n], account, action)
              THEN f[n - 1]
         ELSE IF doc[n].Effect = "Deny" THEN "denied" ELSE "allowed"]

\* One of the first m statements matches and has the effect.
Says(doc, account, action, m, effect) ==
  \E i \in 1..m : statementMatches(doc[i], account, action) /\ doc[i].Effect = effect

\* The loop computes something after every turn.
LEMMA VerdictsExist ==
  ASSUME NEW doc, NEW account, NEW action, NEW m \in Nat
  PROVE  \E f : Verdicts(doc, account, action, m, f)
<1> DEFINE T == { n \in Nat : \E f : Verdicts(doc, account, action, n, f) }
<1>1. 0 \in T
  <2>1. Verdicts(doc, account, action, 0,
                 [n \in 0..0 |-> IF account = Owner THEN "allowed" ELSE "refused"])
    BY DEF Verdicts
  <2>2. QED
    BY <2>1
<1>2. ASSUME NEW n \in T PROVE n + 1 \in T
  <2>1. n \in Nat
    OBVIOUS
  <2>2. PICK f : Verdicts(doc, account, action, n, f)
    OBVIOUS
  <2> DEFINE v == IF f[n] = "denied" \/ ~statementMatches(doc[n + 1], account, action)
                  THEN f[n]
                  ELSE IF doc[n + 1].Effect = "Deny" THEN "denied" ELSE "allowed"
             g == [i \in 0..(n + 1) |-> IF i = n + 1 THEN v ELSE f[i]]
  <2> HIDE DEF v
  <2>3. ASSUME NEW i \in 0..(n + 1)
        PROVE  g[i] = IF i = 0 THEN IF account = Owner THEN "allowed" ELSE "refused"
                      ELSE IF g[i - 1] = "denied"
                              \/ ~statementMatches(doc[i], account, action)
                           THEN g[i - 1]
                      ELSE IF doc[i].Effect = "Deny" THEN "denied" ELSE "allowed"
    <3>1. CASE i = n + 1
      <4>1. g[i] = v /\ i # 0 /\ i - 1 = n /\ g[i - 1] = f[n]
        BY <2>1, <3>1
      <4>2. QED
        BY <3>1, <4>1 DEF v
    <3>2. CASE i # n + 1
      <4>1. i \in 0..n /\ g[i] = f[i] /\ (i # 0 => g[i - 1] = f[i - 1])
        BY <2>1, <3>2
      <4>2. QED
        BY <2>2, <4>1 DEF Verdicts
    <3>3. QED
      BY <3>1, <3>2
  <2>4. Verdicts(doc, account, action, n + 1, g)
    BY <2>3 DEF Verdicts
  <2>5. QED
    BY <2>1, <2>4
<1>3. T = Nat
  <2> HIDE DEF T
  <2>1. QED
    BY <1>1, <1>2, SetInduction DEF T
<1>4. QED
  BY <1>3

\* After m statements the verdict is denied if one of them denies, and allowed
\* if none does and the account is the owner's or one of them allows.
LEMMA VerdictFacts ==
  ASSUME NEW labels, NEW doc \in Seq(Statement(labels)), NEW account, NEW action,
         NEW f, Verdicts(doc, account, action, Len(doc), f)
  PROVE  (f[Len(doc)] = "allowed")
           <=> /\ ~Says(doc, account, action, Len(doc), "Deny")
               /\ account = Owner \/ Says(doc, account, action, Len(doc), "Allow")
<1> DEFINE D(n) == Says(doc, account, action, n, "Deny")
           A(n) == account = Owner \/ Says(doc, account, action, n, "Allow")
           Good(n) == /\ f[n] \in {"allowed", "refused", "denied"}
                      /\ (f[n] = "denied") <=> D(n)
                      /\ (f[n] = "allowed") <=> (~D(n) /\ A(n))
           T == { n \in Nat : n <= Len(doc) => Good(n) }
<1>1. Len(doc) \in Nat
  OBVIOUS
<1>2. 0 \in T
  <2>1. f[0] = IF account = Owner THEN "allowed" ELSE "refused"
    BY <1>1 DEF Verdicts
  <2>2. ~D(0) /\ ~Says(doc, account, action, 0, "Allow")
    BY DEF Says
  <2>3. QED
    BY <2>1, <2>2
<1>3. ASSUME NEW n \in T PROVE n + 1 \in T
  <2>1. SUFFICES ASSUME n + 1 <= Len(doc) PROVE Good(n + 1)
    OBVIOUS
  <2>2. n \in Nat /\ n + 1 \in 0..Len(doc) /\ n + 1 # 0 /\ n <= Len(doc)
    BY <1>1, <2>1
  <2>3. Good(n)
    BY <2>2
  <2> DEFINE stmt == doc[n + 1]
             hit == statementMatches(stmt, account, action)
  <2>4. f[n + 1] = IF f[n] = "denied" \/ ~hit THEN f[n]
                   ELSE IF stmt.Effect = "Deny" THEN "denied" ELSE "allowed"
    BY <2>2 DEF Verdicts
  <2>5. stmt.Effect \in {"Allow", "Deny"}
    <3>1. stmt \in Statement(labels)
      BY <2>1, <2>2
    <3>2. QED
      BY <3>1 DEF Statement
  <2>6. ASSUME NEW e
        PROVE  Says(doc, account, action, n + 1, e)
                 <=> Says(doc, account, action, n, e) \/ (hit /\ stmt.Effect = e)
    BY <2>2 DEF Says
  <2>7. /\ D(n + 1) <=> D(n) \/ (hit /\ stmt.Effect = "Deny")
        /\ A(n + 1) <=> A(n) \/ (hit /\ stmt.Effect = "Allow")
    BY <2>6
  <2> HIDE DEF D, A, stmt, hit
  <2>8. QED
    BY <2>3, <2>4, <2>5, <2>7
<1>4. T = Nat
  <2> HIDE DEF T
  <2>1. QED
    BY <1>2, <1>3, SetInduction DEF T
<1>5. QED
  BY <1>1, <1>4

\* The answer of Evaluate for a policy of any length: a Deny that matches wins
\* over every Allow, wherever the statements stand.
THEOREM EvaluateFacts ==
  ASSUME NEW labels, NEW doc \in Seq(Statement(labels)), NEW account, NEW action
  PROVE  Evaluate(doc, account, action)
           <=> /\ ~Says(doc, account, action, Len(doc), "Deny")
               /\ account = Owner \/ Says(doc, account, action, Len(doc), "Allow")
<1> DEFINE k == CHOOSE f : Verdicts(doc, account, action, Len(doc), f)
<1>1. Verdicts(doc, account, action, Len(doc), k)
  <2>1. Len(doc) \in Nat
    OBVIOUS
  <2>2. QED
    BY <2>1, VerdictsExist
<1>2. Evaluate(doc, account, action) <=> k[Len(doc)] = "allowed"
  BY DEF Evaluate, Verdicts
<1>3. QED
  BY <1>1, <1>2, VerdictFacts

-----------------------------------------------------------------------------
(***************************************************************************)
(* The inductive invariant.                                                *)
(***************************************************************************)
Policies == Seq(Statement(Label \cup {Default}))

Change ==
  {Idle} \cup [op : {"add", "remove"}, label : Label, policy : Policies]
         \cup [op : {"set"}, policy : Policies]
         \cup [op : {"tag", "untag"}, keys : TagSets]

Typed ==
  /\ exists \in BOOLEAN
  /\ policy \in Policies
  /\ tags \subseteq TagKey /\ IsFiniteSet(tags)
  /\ created \in 0..MaxTopics
  /\ revoked \subseteq Label
  /\ req \in [Request -> Change]

\* Two statements of doc with one label come from one document.
Unambiguous(doc) ==
  \A i, j \in DOMAIN doc :
    i # j /\ doc[i].Sid = doc[j].Sid =>
      \E d \in Document : {doc[i], doc[j]} \subseteq Range(d)

\* Also the policies about to be written are unambiguous.
Labelled ==
  /\ Unambiguous(policy)
  /\ \A r \in Request :
       req[r].op \in {"add", "remove", "set"} => Unambiguous(req[r].policy)

\* What a change may bring back, given the labels that are revoked: only the
\* label that it grants.  A whole document ends every revocation.
Harmless(change, labels) ==
  /\ change.op = "add" =>
       \A l \in labels : HasLabel(change.policy, l) => l = change.label
  /\ change.op = "remove" =>
       /\ \A l \in labels : ~HasLabel(change.policy, l)
       /\ ~HasLabel(change.policy, change.label)

Revocations ==
  /\ RevokedStaysRevoked
  /\ \A r \in Request : Harmless(req[r], revoked)

\* Requests that passed the check of the tag limit and have not written.
Tagging == { r \in Request : req[r].op = "tag" }

\* The most tags that n requests bring.
Load(n) == TagLimit * n

\* No request brings more tags than the limit, and the topic has room for them
\* below the bound.
TagCount ==
  /\ \A r \in Request : req[r].op = "tag" => Cardinality(req[r].keys) <= TagLimit
  /\ Cardinality(tags) + Load(Cardinality(Tagging)) <= Load(Cardinality(Request) + 1)

IInv == Typed /\ Labelled /\ Revocations /\ TagCount

-----------------------------------------------------------------------------
(***************************************************************************)
(* The policies requests prepare.                                          *)
(***************************************************************************)
\* Labels of documents are labels of policies.
LEMMA StatementMonotonic == Statement(Label) \subseteq Statement(Label \cup {Default})
BY DEF Statement

\* A document is a policy, and unambiguous by definition.
LEMMA DocumentFacts ==
  ASSUME NEW d \in Document
  PROVE  d \in Policies /\ Unambiguous(d)
<1>1. d \in Seq(Statement(Label))
  BY DocumentAssumption
<1>2. d \in Policies
  BY <1>1, StatementMonotonic, SeqMonotonic DEF Policies
<1>3. Unambiguous(d)
  BY DEF Unambiguous, Range
<1>4. QED
  BY <1>2, <1>3

\* The default policy has one statement.
LEMMA DefaultFacts ==
  DefaultTopicPolicy \in Policies /\ Unambiguous(DefaultTopicPolicy)
<1> DEFINE s == [Sid |-> Default, Effect |-> "Allow", Principal |-> {"*"},
                 Action |-> Actions, Resource |-> {"topic"}, SourceOwner |-> {Owner}]
<1>1. s \in Statement(Label \cup {Default})
  BY DEF Statement
<1>2. DefaultTopicPolicy = <<s>>
  BY DEF DefaultTopicPolicy
<1> HIDE DEF s
<1>3. <<s>> \in Policies /\ DOMAIN <<s>> = {1}
  BY <1>1 DEF Policies
<1>4. QED
  BY <1>2, <1>3 DEF Unambiguous

\* The empty policy.
LEMMA EmptyPolicy ==
  <<>> \in Policies /\ Unambiguous(<<>>) /\ \A l : ~HasLabel(<<>>, l)
<1>1. <<>> \in Policies /\ DOMAIN <<>> = {}
  BY DEF Policies
<1>2. QED
  BY <1>1 DEF Unambiguous, HasLabel

\* AddPermission with a label that is free adds that label and no other.
LEMMA AddFacts ==
  ASSUME NEW doc \in Policies, Unambiguous(doc), NEW label \in Label,
         ~HasLabel(doc, label), NEW b \in Account, NEW g \in Grants
  PROVE  LET new == AddPermission(doc, label, {b}, g) IN
         /\ new \in Policies
         /\ Unambiguous(new)
         /\ \A l : HasLabel(new, l) => HasLabel(doc, l) \/ l = label
<1> DEFINE s == [Sid |-> label, Effect |-> "Allow", Principal |-> {b},
                 Action |-> g, Resource |-> {"topic"}, SourceOwner |-> {"*"}]
           new == Append(doc, s)
<1>1. s \in Statement(Label \cup {Default}) /\ s.Sid = label
  BY GrantsAssumption DEF Statement
<1>2. AddPermission(doc, label, {b}, g) = new
  BY DEF AddPermission
<1> HIDE DEF s
<1>3. /\ new \in Policies /\ Len(doc) \in Nat /\ Len(new) = Len(doc) + 1
      /\ \A i \in 1..Len(doc) : new[i] = doc[i]
      /\ new[Len(doc) + 1] = s
  BY <1>1, AppendProperties DEF Policies
<1>4. DOMAIN doc = 1..Len(doc) /\ DOMAIN new = 1..(Len(doc) + 1)
  BY <1>3 DEF Policies
<1> HIDE DEF new
<1>5. \A i \in DOMAIN new : i \in DOMAIN doc \/ i = Len(doc) + 1
  BY <1>3, <1>4
<1>6. \A i \in DOMAIN doc : doc[i].Sid # label
  BY DEF HasLabel
<1>7. Unambiguous(new)
  BY <1>1, <1>3, <1>4, <1>5, <1>6 DEF Unambiguous
<1>8. \A l : HasLabel(new, l) => HasLabel(doc, l) \/ l = label
  BY <1>1, <1>3, <1>4, <1>5 DEF HasLabel
<1>9. QED
  BY <1>2, <1>3, <1>7, <1>8

\* RemovePermission takes the label away and adds none.
LEMMA RemoveLabel ==
  ASSUME NEW doc \in Policies, Unambiguous(doc), NEW label
  PROVE  LET new == RemovePermission(doc, label) IN
         /\ new \in Policies
         /\ Unambiguous(new)
         /\ ~HasLabel(new, label)
         /\ \A l : HasLabel(new, l) => HasLabel(doc, l)
<1> DEFINE new == RemovePermission(doc, label)
<1>1. new \in Policies /\ Kept(doc, label, Len(doc), new)
  BY RemoveFacts DEF Policies
<1> HIDE DEF new
<1>2. DOMAIN new = 1..Len(new) /\ DOMAIN doc = 1..Len(doc)
  BY <1>1 DEF Policies
<1>3. PICK h \in [1..Len(new) -> 1..Len(doc)] :
        /\ \A i \in 1..Len(new) : new[i] = doc[h[i]]
        /\ \A i, j \in 1..Len(new) : i # j => h[i] # h[j]
  BY <1>1 DEF Kept
<1>4. \A i \in DOMAIN new : h[i] \in DOMAIN doc /\ new[i] = doc[h[i]]
  BY <1>2, <1>3
<1>5. \A i, j \in DOMAIN new : i # j => h[i] # h[j]
  BY <1>2, <1>3
<1>6. Unambiguous(new)
  BY <1>4, <1>5 DEF Unambiguous
<1>7. ~HasLabel(new, label)
  BY <1>1, <1>2 DEF Kept, HasLabel
<1>8. \A l : HasLabel(new, l) => HasLabel(doc, l)
  BY <1>4 DEF HasLabel
<1>9. QED
  BY <1>1, <1>6, <1>7, <1>8 DEF new

-----------------------------------------------------------------------------
(***************************************************************************)
(* The steps.                                                              *)
(***************************************************************************)
\* Changes by their kind.
LEMMA ChangeFacts ==
  ASSUME NEW c \in Change
  PROVE  /\ c.op \in {"idle", "add", "remove", "set", "tag", "untag"}
         /\ c.op = "idle" <=> c = Idle
         /\ c.op \in {"add", "remove"} => c.label \in Label
         /\ c.op \in {"add", "remove", "set"} => c.policy \in Policies
         /\ c.op \in {"tag", "untag"} => c.keys \in TagSets
BY DEF Change, Idle

\* Tags of requests are finitely many.
LEMMA TagSetFacts ==
  ASSUME NEW keys \in TagSets \cup {{}}
  PROVE  keys \subseteq TagKey /\ IsFiniteSet(keys) /\ Cardinality(keys) \in Nat
<1>1. keys \subseteq TagKey /\ IsFiniteSet(keys)
  BY TagsAssumption, FS_EmptySet
<1>2. QED
  BY <1>1, FS_CardinalityType

\* One request brings at most TagLimit tags, more requests more.
LEMMA LoadFacts ==
  ASSUME NEW n \in Nat, NEW m \in Nat
  PROVE  /\ Load(n) \in Nat
         /\ Load(n + 1) = Load(n) + TagLimit
         /\ n <= m => Load(n) <= Load(m)
<1>1. Load(n) \in Nat /\ Load(n + 1) = Load(n) + TagLimit
  BY BoundsAssumption DEF Load
<1>2. ASSUME n <= m PROVE Load(n) <= Load(m)
  <2> DEFINE d == m - n
  <2>1. d \in Nat /\ m = n + d
    BY <1>2
  <2> HIDE DEF d
  <2>2. TagLimit * d \in Nat /\ TagLimit * (n + d) = TagLimit * n + TagLimit * d
    BY <2>1, BoundsAssumption
  <2>3. TagLimit * n \in Nat
    BY BoundsAssumption
  <2>4. QED
    BY <2>1, <2>2, <2>3 DEF Load
<1>3. QED
  BY <1>1, <1>2

\* The room that is left when as many tags are there as the limit allows, and
\* any number of requests are about to write.
LEMMA RoomFacts ==
  /\ Load(Cardinality(Tagging)) \in Nat /\ Load(Cardinality(Request) + 1) \in Nat
  /\ TagLimit + Load(Cardinality(Tagging)) <= Load(Cardinality(Request) + 1)
<1>1. /\ Cardinality(Tagging) \in Nat /\ Cardinality(Request) \in Nat
      /\ Cardinality(Tagging) <= Cardinality(Request)
  <2>1. Tagging \subseteq Request
    BY DEF Tagging
  <2>2. QED
    BY <2>1, RequestAssumption, FS_Subset, FS_CardinalityType
<1>2. QED
  BY <1>1, LoadFacts, BoundsAssumption

\* The requests about to write a tag are finitely many.
LEMMA TaggingFinite ==
  /\ IsFiniteSet(Tagging)
  /\ Cardinality(Tagging) \in Nat /\ Cardinality(Request) \in Nat
  /\ Cardinality(Tagging) <= Cardinality(Request)
<1>1. Tagging \subseteq Request
  BY DEF Tagging
<1>2. QED
  BY <1>1, RequestAssumption, FS_Subset, FS_CardinalityType

\* When one request becomes idle, the others stay, and one that was about to
\* write a tag counts no longer.
LEMMA FinishFacts ==
  ASSUME Typed, NEW r \in Request, req' = [req EXCEPT ![r] = Idle]
  PROVE  /\ req' \in [Request -> Change]
         /\ req'[r] = Idle
         /\ \A x \in Request : x # r => req'[x] = req[x]
         /\ Cardinality(Tagging') \in Nat
         /\ Cardinality(Tagging') <= Cardinality(Tagging)
         /\ req[r].op = "tag" => Cardinality(Tagging') = Cardinality(Tagging) - 1
<1>1. /\ req' \in [Request -> Change] /\ req'[r] = Idle
      /\ \A x \in Request : x # r => req'[x] = req[x]
  BY DEF Typed, Change
<1>2. Tagging' = Tagging \ {r}
  BY <1>1 DEF Tagging, Idle
<1>3. req[r].op = "tag" <=> r \in Tagging
  BY DEF Tagging
<1>4. /\ Cardinality(Tagging') \in Nat
      /\ Cardinality(Tagging \ {r}) = IF r \in Tagging THEN Cardinality(Tagging) - 1
                                                       ELSE Cardinality(Tagging)
  BY <1>2, TaggingFinite, FS_RemoveElement, FS_CardinalityType
<1>5. QED
  BY <1>1, <1>2, <1>3, <1>4, TaggingFinite

\* A request ends and the tags stay.
LEMMA TagCountKept ==
  ASSUME TagCount, Typed, NEW r \in Request, req'[r] = Idle, tags' = tags,
         \A x \in Request : x # r => req'[x] = req[x],
         Cardinality(Tagging') \in Nat, Cardinality(Tagging') <= Cardinality(Tagging)
  PROVE  TagCount'
<1>1. \A x \in Request : req'[x].op = "tag" => Cardinality(req'[x].keys) <= TagLimit
  BY DEF TagCount, Idle
<1>2. Cardinality(tags) \in Nat
  BY FS_CardinalityType DEF Typed
<1>3. /\ Load(Cardinality(Tagging')) \in Nat
      /\ Load(Cardinality(Tagging')) <= Load(Cardinality(Tagging))
  BY TaggingFinite, LoadFacts
<1>4. QED
  BY <1>1, <1>2, <1>3, RoomFacts DEF TagCount, Load

\* A request that has read the topic and prepares a change.
LEMMA PrepareStep ==
  ASSUME IInv, NEW r \in Request, NEW change \in Change, Prepare(r, change),
         change.op \in {"add", "remove", "set"} => Unambiguous(change.policy),
         Harmless(change, revoked),
         change.op = "tag" => /\ Cardinality(tags) <= TagLimit
                              /\ Cardinality(change.keys) <= TagLimit
  PROVE  IInv'
<1> USE DEF Prepare
<1>1. /\ req' \in [Request -> Change] /\ req'[r] = change
      /\ \A x \in Request : x # r => req'[x] = req[x]
  BY DEF IInv, Typed
<1>2. Typed'
  BY <1>1 DEF IInv, Typed
<1>3. Labelled'
  <2>1. Unambiguous(policy)'
    BY DEF IInv, Labelled, Unambiguous
  <2>2. ASSUME NEW x \in Request, req'[x].op \in {"add", "remove", "set"}
        PROVE  Unambiguous(req'[x].policy)
    BY <1>1, <2>2 DEF IInv, Labelled
  <2>3. QED
    BY <2>1, <2>2 DEF Labelled, Unambiguous
<1>4. Revocations'
  <2>1. RevokedStaysRevoked'
    BY DEF IInv, Revocations, RevokedStaysRevoked, HasLabel
  <2>2. ASSUME NEW x \in Request PROVE Harmless(req'[x], revoked)
    BY <1>1, <2>2 DEF IInv, Revocations
  <2>3. QED
    BY <2>1, <2>2 DEF Revocations, Harmless, HasLabel
<1>5. TagCount'
  <2>1. Cardinality(tags) \in Nat
    BY FS_CardinalityType DEF IInv, Typed
  <2>2. \A x \in Request : req'[x].op = "tag" => Cardinality(req'[x].keys) <= TagLimit
    BY <1>1 DEF IInv, TagCount
  <2>3. CASE change.op = "tag"
    <3>1. Tagging' \subseteq Request
      BY DEF Tagging
    <3>2. Cardinality(Tagging') \in Nat /\ Cardinality(Tagging') <= Cardinality(Request)
      BY <3>1, RequestAssumption, FS_Subset, FS_CardinalityType
    <3>3. /\ Load(Cardinality(Tagging')) \in Nat
          /\ TagLimit + Load(Cardinality(Tagging')) <= Load(Cardinality(Request) + 1)
      BY <3>2, TaggingFinite, LoadFacts, BoundsAssumption
    <3>4. QED
      BY <2>1, <2>2, <2>3, <3>3, RoomFacts, BoundsAssumption DEF TagCount, Load
  <2>4. CASE change.op # "tag"
    <3>1. Tagging' \subseteq Tagging
      BY <1>1, <2>4 DEF Tagging
    <3>2. Cardinality(Tagging') \in Nat /\ Cardinality(Tagging') <= Cardinality(Tagging)
      BY <3>1, TaggingFinite, FS_Subset, FS_CardinalityType
    <3>3. /\ Load(Cardinality(Tagging')) \in Nat
          /\ Load(Cardinality(Tagging')) <= Load(Cardinality(Tagging))
      BY <3>2, TaggingFinite, LoadFacts
    <3>4. QED
      BY <2>1, <2>2, <3>3, RoomFacts DEF IInv, TagCount, Load
  <2>5. QED
    BY <2>3, <2>4
<1>6. QED
  BY <1>2, <1>3, <1>4, <1>5 DEF IInv

\* AddPermission: its new policy has one label more, which was free.
LEMMA BeginAddStep ==
  ASSUME IInv, NEW r \in Request, NEW a \in Account, NEW label \in Label,
         NEW b \in Account, NEW g \in Grants, BeginAdd(r, a, label, {b}, g)
  PROVE  IInv'
<1> DEFINE new == AddPermission(policy, label, {b}, g)
           change == [op |-> "add", label |-> label, policy |-> new]
<1>1. policy \in Policies /\ Unambiguous(policy) /\ ~HasLabel(policy, label)
  BY DEF IInv, Typed, Labelled, BeginAdd
<1>2. /\ new \in Policies /\ Unambiguous(new)
      /\ \A l : HasLabel(new, l) => HasLabel(policy, l) \/ l = label
  BY <1>1, AddFacts
<1>3. Prepare(r, change)
  BY DEF BeginAdd
<1> HIDE DEF new
<1>4. change \in Change
  BY <1>2 DEF Change
<1>5. Harmless(change, revoked)
  BY <1>2 DEF IInv, Revocations, RevokedStaysRevoked, Harmless
<1>6. QED
  BY <1>2, <1>3, <1>4, <1>5, PrepareStep

\* RemovePermission: its new policy has one label less.
LEMMA BeginRemoveStep ==
  ASSUME IInv, NEW r \in Request, NEW a \in Account, NEW label \in Label,
         BeginRemove(r, a, label)
  PROVE  IInv'
<1> DEFINE new == RemovePermission(policy, label)
           change == [op |-> "remove", label |-> label, policy |-> new]
<1>1. policy \in Policies /\ Unambiguous(policy)
  BY DEF IInv, Typed, Labelled
<1>2. /\ new \in Policies /\ Unambiguous(new) /\ ~HasLabel(new, label)
      /\ \A l : HasLabel(new, l) => HasLabel(policy, l)
  BY <1>1, RemoveLabel
<1>3. Prepare(r, change)
  BY DEF BeginRemove
<1> HIDE DEF new
<1>4. change \in Change
  BY <1>2 DEF Change
<1>5. Harmless(change, revoked)
  BY <1>2 DEF IInv, Revocations, RevokedStaysRevoked, Harmless
<1>6. QED
  BY <1>2, <1>3, <1>4, <1>5, PrepareStep

\* SetTopicAttribute of the Policy.
LEMMA BeginSetStep ==
  ASSUME IInv, NEW r \in Request, NEW a \in Account, NEW d \in Document,
         BeginSet(r, a, d)
  PROVE  IInv'
<1> DEFINE change == [op |-> "set", policy |-> d]
<1>1. change \in Change /\ Unambiguous(change.policy)
  BY DocumentFacts DEF Change
<1>2. Harmless(change, revoked)
  BY DEF Harmless
<1>3. QED
  BY <1>1, <1>2, PrepareStep DEF BeginSet

\* TagTopic and UntagTopic: the limit is checked on the tags of the moment.
LEMMA BeginTagStep ==
  ASSUME IInv, NEW r \in Request, NEW a \in Account, NEW keys \in TagSets,
         BeginTag(r, a, keys) \/ BeginUntag(r, a, keys)
  PROVE  IInv'
<1>1. CASE BeginTag(r, a, keys)
  <2> DEFINE change == [op |-> "tag", keys |-> keys]
  <2>1. change \in Change
    BY DEF Change
  <2>2. Harmless(change, revoked)
    BY DEF Harmless
  <2>3. Cardinality(tags) <= TagLimit /\ Cardinality(keys) <= TagLimit
    <3>1. Cardinality(tags) \in Nat /\ Cardinality(keys) \in Nat
      BY TagSetFacts, FS_CardinalityType DEF IInv, Typed
    <3>2. QED
      BY <1>1, <3>1, BoundsAssumption DEF BeginTag, WithinLimit
  <2>4. QED
    BY <1>1, <2>1, <2>2, <2>3, PrepareStep DEF BeginTag
<1>2. CASE BeginUntag(r, a, keys)
  <2> DEFINE change == [op |-> "untag", keys |-> keys]
  <2>1. change \in Change
    BY DEF Change
  <2>2. Harmless(change, revoked)
    BY DEF Harmless
  <2>3. QED
    BY <1>2, <2>1, <2>2, PrepareStep DEF BeginUntag
<1>3. QED
  BY <1>1, <1>2

\* The policy that a request prepared is written, whatever the policy is now.
LEMMA UpdatePolicyStep ==
  ASSUME IInv, NEW r \in Request, UpdatePolicy(r)
  PROVE  IInv'
<1> DEFINE c == req[r]
<1>1. c \in Change /\ c.op \in {"add", "remove", "set"}
  BY DEF IInv, Typed, UpdatePolicy
<1>2. policy' = c.policy /\ c.policy \in Policies
  BY <1>1, ChangeFacts DEF UpdatePolicy, PolicyAfter
<1>3. /\ req' \in [Request -> Change] /\ req'[r] = Idle
      /\ \A x \in Request : x # r => req'[x] = req[x]
      /\ Cardinality(Tagging') \in Nat
      /\ Cardinality(Tagging') <= Cardinality(Tagging)
  BY FinishFacts DEF IInv, UpdatePolicy
<1>4. revoked' \subseteq Label
  BY <1>1, ChangeFacts DEF UpdatePolicy, IInv, Typed
<1>5. Typed'
  BY <1>2, <1>3, <1>4 DEF UpdatePolicy, IInv, Typed
<1>6. Labelled'
  <2>1. Unambiguous(policy')
    BY <1>1, <1>2 DEF IInv, Labelled
  <2>2. ASSUME NEW x \in Request, req'[x].op \in {"add", "remove", "set"}
        PROVE  Unambiguous(req'[x].policy)
    BY <1>3, <2>2 DEF IInv, Labelled, Idle
  <2>3. QED
    BY <2>1, <2>2 DEF Labelled, Unambiguous
<1>7. /\ \A l \in revoked' : ~HasLabel(policy', l)
      /\ \A x \in Request : Harmless(req'[x], revoked')
  <2>1. CASE c.op = "add"
    <3>1. revoked' = revoked \ {c.label}
      BY <2>1 DEF UpdatePolicy
    <3>2. QED
      BY <1>2, <1>3, <2>1, <3>1 DEF IInv, Revocations, Harmless, Idle
  <2>2. CASE c.op = "set"
    <3>1. revoked' = {}
      BY <2>2 DEF UpdatePolicy
    <3>2. QED
      BY <1>3, <3>1 DEF IInv, Revocations, Harmless, Idle
  <2>3. CASE c.op = "remove" /\ Quiet(r)
    <3>1. revoked' = revoked \cup {c.label}
      BY <2>3 DEF UpdatePolicy
    <3>2. \A x \in Request : req'[x] = Idle
      BY <1>3, <2>3 DEF Quiet
    <3>3. QED
      BY <1>2, <2>3, <3>1, <3>2 DEF IInv, Revocations, Harmless, Idle
  <2>4. CASE c.op = "remove" /\ ~Quiet(r)
    <3>1. revoked' = revoked
      BY <2>4 DEF UpdatePolicy
    <3>2. QED
      BY <1>2, <1>3, <2>4, <3>1 DEF IInv, Revocations, Harmless, Idle
  <2>5. QED
    BY <1>1, <2>1, <2>2, <2>3, <2>4
<1>8. Revocations'
  BY <1>7 DEF Revocations, RevokedStaysRevoked, Harmless, HasLabel
<1>9. TagCount'
  <2>1. Cardinality(tags) \in Nat
    BY FS_CardinalityType DEF IInv, Typed
  <2>2. QED
    BY <1>3, <2>1, TagCountKept DEF IInv, UpdatePolicy
<1>10. QED
  BY <1>5, <1>6, <1>8, <1>9 DEF IInv

\* Tags are written, or removed.
LEMMA UpdateTagsStep ==
  ASSUME IInv, NEW r \in Request, UpdateTags(r)
  PROVE  IInv'
<1> DEFINE c == req[r]
<1>1. /\ c \in Change /\ c.op \in {"tag", "untag"} /\ c.keys \subseteq TagKey
      /\ IsFiniteSet(c.keys) /\ Cardinality(c.keys) \in Nat
  BY ChangeFacts, TagSetFacts DEF IInv, Typed, UpdateTags
<1>2. /\ req' \in [Request -> Change] /\ req'[r] = Idle
      /\ \A x \in Request : x # r => req'[x] = req[x]
      /\ Cardinality(Tagging') \in Nat
      /\ Cardinality(Tagging') <= Cardinality(Tagging)
      /\ c.op = "tag" => Cardinality(Tagging') = Cardinality(Tagging) - 1
  BY FinishFacts DEF IInv, UpdateTags
<1>3. IsFiniteSet(tags) /\ Cardinality(tags) \in Nat
  BY FS_CardinalityType DEF IInv, Typed
<1>4. /\ IsFiniteSet(tags') /\ tags' \subseteq TagKey /\ Cardinality(tags') \in Nat
      /\ Cardinality(tags') <= IF c.op = "tag" THEN Cardinality(tags) + TagLimit
                                               ELSE Cardinality(tags)
  <2>1. CASE c.op = "tag"
    <3>1. tags' = tags \cup c.keys
      BY <2>1 DEF UpdateTags
    <3>2. /\ IsFiniteSet(tags \cup c.keys)
          /\ Cardinality(tags \cup c.keys)
               = Cardinality(tags) + Cardinality(c.keys) - Cardinality(tags \cap c.keys)
      BY <1>1, <1>3, FS_Union
    <3>3. Cardinality(tags \cap c.keys) \in Nat /\ Cardinality(tags \cup c.keys) \in Nat
      BY <1>1, <1>3, <3>2, FS_Intersection, FS_CardinalityType
    <3>4. Cardinality(c.keys) <= TagLimit
      BY <2>1 DEF IInv, TagCount
    <3>5. QED
      BY <1>1, <1>3, <2>1, <3>1, <3>2, <3>3, <3>4, BoundsAssumption DEF IInv, Typed
  <2>2. CASE c.op = "untag"
    <3>1. tags' = tags \ c.keys
      BY <2>2 DEF UpdateTags
    <3>2. /\ IsFiniteSet(tags \ c.keys)
          /\ Cardinality(tags \ c.keys) \in Nat
          /\ Cardinality(tags \ c.keys) <= Cardinality(tags)
      BY <1>3, FS_Subset, FS_CardinalityType, tags \ c.keys \subseteq tags
    <3>3. QED
      BY <2>2, <3>1, <3>2 DEF IInv, Typed
  <2>3. QED
    BY <1>1, <2>1, <2>2
<1>5. Typed'
  BY <1>2, <1>4 DEF UpdateTags, IInv, Typed
<1>6. Labelled'
  <2>1. ASSUME NEW x \in Request, req'[x].op \in {"add", "remove", "set"}
        PROVE  Unambiguous(req'[x].policy)
    BY <1>2, <2>1 DEF IInv, Labelled, Idle
  <2>2. QED
    BY <2>1 DEF UpdateTags, IInv, Labelled, Unambiguous
<1>7. Revocations'
  <2>1. \A x \in Request : Harmless(req'[x], revoked)
    BY <1>2 DEF IInv, Revocations, Harmless, Idle
  <2>2. QED
    BY <2>1 DEF UpdateTags, IInv, Revocations, RevokedStaysRevoked, Harmless, HasLabel
<1>8. TagCount'
  <2>1. \A x \in Request : req'[x].op = "tag" => Cardinality(req'[x].keys) <= TagLimit
    BY <1>2 DEF IInv, TagCount, Idle
  <2>2. /\ Load(Cardinality(Tagging')) \in Nat
        /\ Load(Cardinality(Tagging'))
             <= IF c.op = "tag" THEN Load(Cardinality(Tagging)) - TagLimit
                                ELSE Load(Cardinality(Tagging))
    <3>1. c.op = "tag" => Cardinality(Tagging) = Cardinality(Tagging') + 1
      BY <1>2, TaggingFinite
    <3>2. QED
      BY <1>2, <3>1, TaggingFinite, LoadFacts, BoundsAssumption
  <2>3. QED
    BY <1>3, <1>4, <2>1, <2>2, RoomFacts, BoundsAssumption DEF IInv, TagCount, Load
<1>9. QED
  BY <1>5, <1>6, <1>7, <1>8 DEF IInv

\* A change that is not applied.
LEMMA FailUpdateStep ==
  ASSUME IInv, NEW r \in Request, FailUpdate(r)
  PROVE  IInv'
<1>1. /\ req' \in [Request -> Change] /\ req'[r] = Idle
      /\ \A x \in Request : x # r => req'[x] = req[x]
      /\ Cardinality(Tagging') \in Nat
      /\ Cardinality(Tagging') <= Cardinality(Tagging)
  BY FinishFacts DEF IInv, FailUpdate
<1>2. Typed'
  BY <1>1 DEF FailUpdate, IInv, Typed
<1>3. Labelled'
  <2>1. ASSUME NEW x \in Request, req'[x].op \in {"add", "remove", "set"}
        PROVE  Unambiguous(req'[x].policy)
    BY <1>1, <2>1 DEF IInv, Labelled, Idle
  <2>2. QED
    BY <2>1 DEF FailUpdate, IInv, Labelled, Unambiguous
<1>4. Revocations'
  <2>1. \A x \in Request : Harmless(req'[x], revoked)
    BY <1>1 DEF IInv, Revocations, Harmless, Idle
  <2>2. QED
    BY <2>1 DEF FailUpdate, IInv, Revocations, RevokedStaysRevoked, Harmless, HasLabel
<1>5. TagCount'
  <2>1. Cardinality(tags) \in Nat
    BY FS_CardinalityType DEF IInv, Typed
  <2>2. QED
    BY <1>1, <2>1, TagCountKept DEF IInv, FailUpdate
<1>6. QED
  BY <1>2, <1>3, <1>4, <1>5 DEF IInv

\* A topic is created with the tags and the policy of the request; changes
\* prepared for an earlier topic of the name are still under way.
LEMMA CreateTopicStep ==
  ASSUME IInv, NEW keys \in TagSets \cup {{}}, NEW doc \in Document \cup {DefaultTopicPolicy},
         CreateTopic(keys, doc)
  PROVE  IInv'
<1> USE DEF CreateTopic
<1>1. doc \in Policies /\ Unambiguous(doc)
  BY DocumentFacts, DefaultFacts
<1>2. revoked' \subseteq revoked /\ \A l \in revoked' : ~HasLabel(doc, l)
  OBVIOUS
<1>3. Typed'
  BY <1>1, <1>2, TagSetFacts, BoundsAssumption DEF IInv, Typed
<1>4. Labelled'
  BY <1>1 DEF IInv, Labelled, Unambiguous
<1>5. Revocations'
  <2>1. \A x \in Request : Harmless(req[x], revoked')
    BY <1>2 DEF IInv, Revocations, Harmless
  <2>2. QED
    BY <1>2, <2>1 DEF Revocations, RevokedStaysRevoked, Harmless, HasLabel
<1>6. TagCount'
  <2>1. Tagging' = Tagging
    BY DEF Tagging
  <2>2. Cardinality(keys) \in Nat
    BY TagSetFacts
  <2>3. QED
    BY <2>1, <2>2, RoomFacts, BoundsAssumption DEF IInv, TagCount, Load
<1>7. QED
  BY <1>3, <1>4, <1>5, <1>6 DEF IInv

\* A topic is deleted with its policy and tags.
LEMMA DeleteTopicStep ==
  ASSUME IInv, DeleteTopic
  PROVE  IInv'
<1> USE DEF DeleteTopic
<1>1. Typed'
  BY EmptyPolicy, FS_EmptySet DEF IInv, Typed
<1>2. Labelled'
  <2>1. Unambiguous(policy')
    BY EmptyPolicy
  <2>2. QED
    BY <2>1 DEF IInv, Labelled, Unambiguous
<1>3. Revocations'
  <2>1. \A l \in revoked' : ~HasLabel(policy', l)
    BY EmptyPolicy
  <2>2. \A x \in Request : Harmless(req[x], revoked')
    <3>1. CASE \A x \in Request : req[x] = Idle
      BY <3>1 DEF Harmless, Idle
    <3>2. CASE revoked' = {}
      BY <3>2 DEF IInv, Revocations, Harmless
    <3>3. QED
      BY <3>1, <3>2
  <2>3. QED
    BY <2>1, <2>2 DEF Revocations, RevokedStaysRevoked, Harmless, HasLabel
<1>4. TagCount'
  <2>1. Tagging' = Tagging
    BY DEF Tagging
  <2>2. QED
    BY <2>1, RoomFacts, FS_EmptySet, BoundsAssumption DEF IInv, TagCount, Load
<1>5. QED
  BY <1>1, <1>2, <1>3, <1>4 DEF IInv

\* The initial state.
LEMMA InitInv ==
  ASSUME Init
  PROVE  IInv
<1>1. \A r \in Request : req[r] = Idle
  BY DEF Init
<1>2. Typed
  <2>1. Idle \in Change
    BY DEF Change
  <2>2. req \in [Request -> Change]
    BY <2>1 DEF Init
  <2>3. policy \in Policies
    BY EmptyPolicy DEF Init
  <2>4. tags \subseteq TagKey /\ IsFiniteSet(tags)
    BY FS_EmptySet DEF Init
  <2>5. created \in 0..MaxTopics
    BY BoundsAssumption DEF Init
  <2>6. exists \in BOOLEAN /\ revoked \subseteq Label
    BY Zenon DEF Init
  <2>7. QED
    BY <2>2, <2>3, <2>4, <2>5, <2>6 DEF Typed
<1>3. Labelled
  BY <1>1, EmptyPolicy DEF Init, Labelled, Idle
<1>4. Revocations
  BY <1>1 DEF Init, Revocations, RevokedStaysRevoked, Harmless, Idle
<1>5. TagCount
  BY <1>1, RoomFacts, FS_EmptySet, BoundsAssumption DEF Init, TagCount, Idle
<1>6. QED
  BY <1>2, <1>3, <1>4, <1>5 DEF IInv

\* Every step keeps the invariant.
LEMMA NextInv ==
  ASSUME IInv, [Next]_vars
  PROVE  IInv'
<1>1. CASE UNCHANGED vars
  BY <1>1 DEF vars, IInv, Typed, Labelled, Unambiguous, Revocations,
              RevokedStaysRevoked, Harmless, HasLabel, TagCount, Load, Tagging
<1>2. ASSUME NEW r \in Request, Step(r) PROVE IInv'
  BY <1>2, BeginAddStep, BeginRemoveStep, BeginSetStep, BeginTagStep,
     UpdatePolicyStep, UpdateTagsStep, FailUpdateStep DEF Step
<1>3. QED
  BY <1>1, <1>2, CreateTopicStep, DeleteTopicStep DEF Next

\* The invariant holds of every behaviour.
LEMMA Invariant == Spec => []IInv
<1>1. Init => IInv
  BY InitInv
<1>2. IInv /\ [Next]_vars => IInv'
  BY NextInv
<1>3. QED
  BY <1>1, <1>2, PTL DEF Spec

-----------------------------------------------------------------------------
(***************************************************************************)
(* The properties.                                                         *)
(***************************************************************************)
\* The values of a sequence are elements of its set.
LEMMA RangeFacts ==
  ASSUME NEW S, NEW s \in Seq(S)
  PROVE  Range(s) \subseteq S /\ Range(s) = { s[i] : i \in 1..Len(s) }
BY DEF Range

\* The topic and the changes under way are well formed.
THEOREM TypeCorrect == Spec => []TypeOK
<1>1. IInv => TypeOK
  <2>1. SUFFICES ASSUME IInv PROVE TypeOK
    OBVIOUS
  <2>2. \A p \in Policies : Range(p) \subseteq Statement(Label \cup {Default})
    BY RangeFacts DEF Policies
  <2>3. \A r \in Request : req[r] \in Change
    BY <2>1 DEF IInv, Typed
  <2>4. QED
    BY <2>1, <2>2, <2>3, ChangeFacts DEF IInv, Typed, TypeOK
<1>2. QED
  BY <1>1, Invariant, PTL

\* AddPermission never makes a label ambiguous, however many requests check
\* their labels on policies that are out of date.
THEOREM UniqueLabels == Spec => []LabelsUnique
<1>1. IInv => LabelsUnique
  BY DEF IInv, Labelled, Unambiguous, LabelsUnique
<1>2. QED
  BY <1>1, Invariant, PTL

\* A permission removed, by RemovePermission or with its topic, while no other
\* request is under way stays removed until somebody grants it.
THEOREM RevocationHolds == Spec => []RevokedStaysRevoked
<1>1. IInv => RevokedStaysRevoked
  BY DEF IInv, Revocations
<1>2. QED
  BY <1>1, Invariant, PTL

\* TagTopic exceeds the limit of tags by what the requests under way bring at
\* most, which is the limit once for each of them.
THEOREM TagLimitHolds == Spec => []TagsBounded
<1>1. IInv => TagsBounded
  <2>1. SUFFICES ASSUME IInv PROVE TagsBounded
    OBVIOUS
  <2>2. Cardinality(tags) \in Nat
    BY <2>1, FS_CardinalityType DEF IInv, Typed
  <2>3. QED
    BY <2>1, <2>2, RoomFacts DEF IInv, TagCount, Load, TagsBounded
<1>2. QED
  BY <1>1, Invariant, PTL

\* On every policy that requests can produce, of any length, Evaluate lets a
\* Deny win wherever it stands, and otherwise allows the owner and whomever a
\* statement allows.
THEOREM DenyWins == Spec => []DenyOverrides
<1>1. IInv => DenyOverrides
  <2>1. SUFFICES ASSUME IInv, NEW a \in Account, NEW action \in Actions
                 PROVE  LET matching == { s \in Range(policy) :
                                            statementMatches(s, a, action) } IN
                        Evaluate(policy, a, action)
                          <=> /\ a = Owner \/ \E s \in matching : s.Effect = "Allow"
                              /\ \A s \in matching : s.Effect # "Deny"
    BY DEF DenyOverrides
  <2> DEFINE matching == { s \in Range(policy) : statementMatches(s, a, action) }
  <2>2. policy \in Policies
    BY <2>1 DEF IInv, Typed
  <2>3. Evaluate(policy, a, action)
          <=> /\ ~Says(policy, a, action, Len(policy), "Deny")
              /\ a = Owner \/ Says(policy, a, action, Len(policy), "Allow")
    BY <2>2, EvaluateFacts DEF Policies
  <2>4. ASSUME NEW e
        PROVE  Says(policy, a, action, Len(policy), e)
                 <=> \E s \in matching : s.Effect = e
    <3>1. Range(policy) = { policy[i] : i \in 1..Len(policy) }
      BY <2>2, RangeFacts DEF Policies
    <3>2. QED
      BY <3>1 DEF Says
  <2>5. QED
    BY <2>3, <2>4
<1>2. QED
  BY <1>1, Invariant, PTL
=============================================================================
