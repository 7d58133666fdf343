----------------------------- MODULE MCDispatch -----------------------------
(***************************************************************************)
(* Filter cases: every operator, alone, in pairs and under "$or", with     *)
(* valid, invalid and unreadable operands, on absent, scalar, array and    *)
(* nested values.  Delivery cases: two SQS subscriptions that share a dead *)
(* letter queue, and an HTTP subscription, with failing calls and queues   *)
(* that change.                                                            *)
(***************************************************************************)
EXTENDS Dispatch, TLC

CONSTANTS q1, q2, dlq

\* Strings: "ab" begins with "a" and ends with "b", "B" folds to "b"; "ip" is
\* an address in "net", "bad" is no network; "1" and "1.0" are numbers.
Relations ==
  [op \in StringOperators |->
     CASE op = "prefix" -> {<<"a", "a">>, <<"ab", "a">>}
       [] op = "suffix" -> {<<"b", "b">>, <<"ab", "b">>}
       [] op = "equals-ignore-case" -> {<<"b", "B">>}
       [] op = "wildcard" -> {<<"a", "a*">>, <<"ab", "a*">>}
       [] op = "cidr" -> {<<"ip", "net">>}]
Networks == {"net"}
\* 1 is 10 units; 0 and half the tolerance are different numbers, and equal.
Numbers == ("1" :> 10) @@ ("1.0" :> 10) @@ ("0" :> 0)
Printed == (0 :> "0") @@ (1 :> "5e-10") @@ (10 :> "1")
Arrays == ("[a,1]" :> <<Str("a"), Num(10)>>)

Op(op, operand) == Obj(op :> operand)
Prefix == Op("prefix", Str("a"))
Between == Op("numeric", Arr(<<Str(">"), Num(0), Str("<="), Num(10)>>))
HalfRead == Op("numeric", Arr(<<Str(">"), Num(0), Str("<"), Str("a")>>))
BadNet == Op("cidr", Str("bad"))
NotBoth == Op("anything-but", Arr(<<Str("a"), Num(10)>>))

Some == {Str("a"), HalfRead, BadNet, Op("exists", Bool(FALSE))}
Few == Some \cup {Num(10), Prefix, NotBoth}
Many ==
  Few \cup {
    Null, Bool(TRUE), Str("1"), Between, Op("exists", Bool(TRUE)), Op("suffix", Str("b")),
    Op("equals-ignore-case", Str("B")), Op("wildcard", Str("a*")), Op("cidr", Str("net")),
    Op("numeric", Arr(<<Str("="), Num(0)>>)), Op("numeric", Arr(<<Str("!="), Num(0)>>)),
    Op("anything-but", Str("a")), Op("anything-but", Null), Op("anything-but", Op("prefix", Str("a"))),
    Str("true"), Op("anything-but", Op("cidr", Str("bad"))), Op("anything-but", Op("cidr", Str("net"))),
    Op("anything-but", Arr(<<Op("prefix", Str("a")), Bool(TRUE)>>)) }
\* Refused by Validate.
Invalid ==
  { Arr(<<>>), Op("prefix", Num(10)), Op("numeric", Arr(<<Str(">")>>)), Op("exists", Null),
    Op("near", Str("a")), Op("anything-but", Op("exists", Bool(TRUE))),
    Obj(("prefix" :> Str("a")) @@ ("suffix" :> Str("b"))) }

Policies ==
  { Obj("k" :> Arr(<<c>>)) : c \in Many \cup Invalid }
  \cup { Obj("k" :> Arr(<<c, d>>)) : c, d \in Few }
  \cup { Obj(("k" :> Arr(<<c>>)) @@ ("j" :> Arr(<<d>>))) : c, d \in Few }
  \cup { Obj("$or" :> Arr(<<Obj(("k" :> Arr(<<c>>)) @@ ("j" :> Arr(<<d>>))), Obj("k" :> Arr(<<e>>))>>)) :
           c, d, e \in Some }
  \cup { Obj("k" :> Obj("k" :> Arr(<<c>>))) : c \in Few }
  \cup { Obj("$or" :> Arr(<<Obj("k" :> Arr(<<Str("a")>>))>>)), Obj("k" :> Str("a")), Null, Blank }

Absent == [absent |-> TRUE]
Values == {Absent, Null, Bool(TRUE), Str("a"), Str("ab"), Str("b"), Str("1"), Str("1.0"), Str("ip"),
           Str("true"), Str("<nil>"), Num(0), Num(1), Num(10), Arr(<<Str("b"), Num(10)>>), Arr(<<>>),
           Obj("k" :> Str("a"))}
Root(k, j) ==
  LET present == { x \in {<<"k", k>>, <<"j", j>>} : x[2] # Absent } IN
  Obj([key \in { x[1] : x \in present } |-> (CHOOSE x \in present : x[1] = key)[2]])
Bodies == { Root(k, j) : k \in Values, j \in {Absent, Str("a"), Num(10)} } \cup {Str("a")}

Attribute(type, string) == "k" :> [DataType |-> type, StringValue |-> string]
Attributes ==
  { Attribute("String", s) : s \in {"a", "ab", "1.0", "ip"} }
  \cup { Attribute("Number", s) : s \in {"a", "0", "1.0"} }
  \cup { Attribute("String.Array", s) : s \in {"a", "[a,1]"} }
  \cup { Attribute("Binary", "a") }

\* The values in the policies, bodies and attributes, and how deep they go.
Inside(values) ==
  UNION { CASE Is("arr", v) -> Range(v.arr) [] Is("obj", v) -> Range(v.obj) [] OTHER -> {} :
            v \in values }
AllJSON ==
  LET top == (Policies \ {Blank}) \cup Bodies
               \cup { Obj(attributeRoot(a)) : a \in Attributes \cup {<<>>} }
      second == Inside(top)
      third == Inside(second)
      fourth == Inside(third)
      fifth == Inside(fourth)
      sixth == Inside(fifth)
  IN top \cup second \cup third \cup fourth \cup fifth \cup sixth \cup Inside(sixth)

RECURSIVE DepthOf(_)
DepthOf(v) ==
  LET inner == {DepthOf(x) : x \in Inside({v})} IN
  IF inner = {} THEN 0 ELSE 1 + (CHOOSE n \in inner : \A m \in inner : m <= n)
Depths == [o \in { v.obj : v \in { x \in AllJSON : Is("obj", x) } } |-> DepthOf(Obj(o))]

Sub(protocol, queue, deadLetter, raw, scope) ==
  [Protocol |-> protocol, Endpoint |-> queue, Confirmed |-> TRUE,
   DeadLetterTargetArn |-> deadLetter, RawMessageDelivery |-> raw, FilterPolicyScope |-> scope]

Case(subs, raw, body, attrs) ==
  [subs |-> subs, raw |-> raw, body |-> body, attrs |-> attrs, tooMany |-> TRUE,
   configured |-> TRUE, queues |-> [q \in Queue |-> [exists |-> TRUE, allows |-> TRUE]],
   faults |-> 0, changes |-> 0]

FilterCases ==
  { Case(<<Sub("http", NoQueue, NoQueue, FALSE, "MessageBody")>>, <<p>>, b, <<>>) :
      p \in Policies, b \in Bodies }
  \cup { Case(<<Sub("http", NoQueue, NoQueue, FALSE, "")>>, <<Obj("k" :> Arr(<<c>>))>>,
              Str("a"), a) : c \in Many, a \in Attributes }

Pending == [Sub("http", NoQueue, dlq, FALSE, "") EXCEPT !.Confirmed = FALSE]
Direct == <<Sub("sqs", q1, dlq, FALSE, ""), Pending, Sub("sqs", q2, NoQueue, TRUE, "")>>
Mixed == <<Sub("http", NoQueue, dlq, FALSE, ""), Sub("sqs", q1, dlq, FALSE, "")>>
BlankFor(subs) == [i \in DOMAIN subs |-> Blank]

\* The first queue is in any state, the others are there and allow the topic.
Delivering(subs, faults, changes) ==
  { [Case(subs, BlankFor(subs), Str("a"), <<>>)
       EXCEPT !.queues[q1] = s, !.faults = faults, !.changes = changes] : s \in QueueState }
Unconfigured == { [c EXCEPT !.configured = FALSE] : c \in Delivering(Mixed, 0, 0) }

AllCases ==
  FilterCases \cup Delivering(Direct, 2, 2) \cup Delivering(Mixed, 2, 2) \cup Unconfigured
=============================================================================
