---------------------------- MODULE FilterPolicy ----------------------------
(***************************************************************************)
(* internal/filter: validation and evaluation of filter policies.          *)
(*                                                                         *)
(* A JSON value is a record with one field that names its kind.  Strings   *)
(* are atoms: what the string library answers about them (prefixes, number *)
(* syntax, addresses) comes in as constants.  Numbers are integers, in a   *)
(* unit in which the code's tolerance of 1e-9 is Tolerance.                *)
(*                                                                         *)
(* The code ranges over Go maps, whose order is random, and stops at the   *)
(* first entry that does not match: an evaluation is therefore the SET of  *)
(* outcomes, out of "match", "nomatch" and "error", that some order gives. *)
(***************************************************************************)
EXTENDS Integers, Sequences, FiniteSets, Functions

CONSTANTS
  Related,      \* Related[op]: the pairs <<string, operand>> the string operator op accepts
  CIDR,         \* strings that netip.ParsePrefix accepts
  ParseFloat,   \* strconv.ParseFloat, on the strings that are numbers
  FormatFloat,  \* fmt.Sprint of a number
  ParseArray,   \* json.Unmarshal, on the strings that are JSON arrays
  Tolerance,
  JSON,         \* the JSON values that policies and messages are made of
  Depth         \* Depth[o]: how deep the object o is nested

StringOperators == {"prefix", "suffix", "equals-ignore-case", "wildcard", "cidr"}

ASSUME ToleranceAssumption == Tolerance \in Nat \ {0}
\* No address is in a network that is none.
ASSUME RelatedAssumption ==
  DOMAIN Related = StringOperators /\ \A pair \in Related["cidr"] : pair[2] \in CIDR
ASSUME ParseAssumption == \A s \in DOMAIN ParseFloat : ParseFloat[s] \in Int

-----------------------------------------------------------------------------
Null == [null |-> TRUE]
Bool(b) == [bool |-> b]
Num(n) == [num |-> n]
Str(s) == [str |-> s]
Arr(s) == [arr |-> s]
Obj(f) == [obj |-> f]
Blank == [blank |-> TRUE]      \* the empty string, no JSON at all

Is(kind, v) == DOMAIN v = {kind}
IsScalar(v) == \E kind \in {"null", "bool", "num", "str"} : Is(kind, v)

\* The contents (Go maps) of the JSON objects.
JSONObject == { v.obj : v \in { x \in JSON : Is("obj", x) } }

\* JSON values have JSON values in them, and objects end somewhere: that is
\* what the recursion of the code relies on.
ASSUME JSONAssumption ==
  /\ \A v \in JSON :
       \/ v \in [null : {TRUE}] \cup [bool : BOOLEAN] \cup [num : Int] \cup [str : STRING]
       \/ Is("arr", v) /\ v.arr \in Seq(JSON)
       \/ Is("obj", v) /\ v.obj \in [DOMAIN v.obj -> JSON]
  /\ Depth \in [JSONObject -> Nat]
  /\ \A o \in JSONObject : \A key \in DOMAIN o :
       LET v == o[key] IN
       /\ Is("obj", v) => Depth[v.obj] < Depth[o]
       /\ Is("arr", v) =>
            \A item \in Range(v.arr) : Is("obj", item) => Depth[item.obj] < Depth[o]

\* No number is printed like one of the constants.
ASSUME FormatAssumption ==
  \A v \in JSON : Is("num", v) => FormatFloat[v.num] \notin {"true", "false", "<nil>"}

-----------------------------------------------------------------------------
(***************************************************************************)
(* Validation, when the attribute is set.                                  *)
(***************************************************************************)
IsStringRule(rule) == \E op \in StringOperators : DOMAIN rule = {op} /\ Is("str", rule[op])

validateOperator(rule) ==
  \/ IsStringRule(rule)
  \/ /\ DOMAIN rule = {"numeric"} /\ Is("arr", rule["numeric"])
     /\ LET n == Len(rule["numeric"].arr) IN n >= 2 /\ n % 2 = 0
  \/ DOMAIN rule = {"exists"} /\ Is("bool", rule["exists"])
  \/ /\ DOMAIN rule = {"anything-but"}
     /\ LET but == rule["anything-but"] IN
        IsScalar(but) \/ Is("arr", but) \/ (Is("obj", but) /\ IsStringRule(but.obj))

validateConditions(conditions) ==
  \A c \in Range(conditions) : IsScalar(c) \/ (Is("obj", c) /\ validateOperator(c.obj))

validateObject[policy \in JSONObject] ==
  \A key \in DOMAIN policy :
    LET value == policy[key] IN
    IF key = "$or"
    THEN /\ Is("arr", value) /\ Len(value.arr) >= 2
         /\ \A item \in Range(value.arr) : Is("obj", item) /\ validateObject[item.obj]
    ELSE \/ Is("obj", value) /\ validateObject[value.obj]
         \/ Is("arr", value) /\ validateConditions(value.arr)

\* JSON null unmarshals into an empty map.
Validate(policy) ==
  Is("blank", policy) \/ Is("null", policy)
    \/ (Is("obj", policy) /\ validateObject[policy.obj])

-----------------------------------------------------------------------------
(***************************************************************************)
(* Values and conditions.                                                  *)
(***************************************************************************)
flatten(v) == IF Is("arr", v) THEN Range(v.arr) ELSE {v}

\* The number v stands for, if it does.
toFloat(v) ==
  CASE Is("num", v) -> {v.num}
    [] Is("str", v) -> { ParseFloat[s] : s \in {v.str} \cap DOMAIN ParseFloat }
    [] OTHER -> {}

Near(m, n) == m - n < Tolerance /\ n - m < Tolerance

\* fmt.Sprint; no string of interest looks like a printed array or object.
Sprint(v) ==
  CASE Is("num", v) -> Str(FormatFloat[v.num])
    [] Is("bool", v) -> Str(IF v.bool THEN "true" ELSE "false")
    [] Is("null", v) -> Str("<nil>")
    [] OTHER -> v

\* equal(a, b) is not symmetric: a number in the message is compared with a
\* string in the policy as a number, the other way round as text.
equal(a, b) ==
  IF Is("num", a) THEN \E n \in toFloat(b) : Near(a.num, n) ELSE Sprint(a) = Sprint(b)

scalarOrArrayContains(candidate, expected) ==
  \E item \in flatten(candidate) : equal(item, expected)

\* evalPrefix, evalSuffix, evalEqualsIgnoreCase, evalWildcard and evalCIDR.
evalString(op, operand, candidate) ==
  /\ Is("str", operand)
  /\ \E item \in flatten(candidate) :
       Is("str", item) /\ <<item.str, operand.str>> \in Related[op]

evalNested(rule, candidate) ==
  \E op \in DOMAIN rule \cap StringOperators : evalString(op, rule[op], candidate)

IsOperator(v) == Is("obj", v) /\ DOMAIN v.obj \cap StringOperators # {}

\* Mutant: an array asks for one item that differs, not for all.
evalAnythingButOne(but, candidate) ==
  CASE IsScalar(but) -> ~scalarOrArrayContains(candidate, but)
    [] Is("arr", but) -> \E item \in Range(but.arr) : ~scalarOrArrayContains(candidate, item)
    [] OTHER -> IsOperator(but) /\ ~evalNested(but.obj, candidate)

\* The errors of nested operators are dropped.
evalAnythingBut(but, candidate) ==
  CASE IsScalar(but) -> ~scalarOrArrayContains(candidate, but)
    [] Is("arr", but) -> \A item \in Range(but.arr) : ~scalarOrArrayContains(candidate, item)
    [] OTHER -> IsOperator(but) /\ ~evalNested(but.obj, candidate)

compareNumeric(n, op, m) ==
  CASE op = Str("=") -> Near(n, m)
    [] op = Str(">") -> n > m
    [] op = Str(">=") -> n >= m
    [] op = Str("<") -> n < m
    [] op = Str("<=") -> n <= m
    [] OTHER -> FALSE

Verdict(holds) == IF holds THEN {"match"} ELSE {"nomatch"}

\* The clauses are tried in order until one fails; an operand that is no
\* number is an error only when it is reached.
evalNumeric(clauses, candidate) ==
  LET numbers == UNION { toFloat(item) : item \in flatten(candidate) }
      pairs == 1..(Len(clauses) \div 2)
      Clause(n, i) == \E m \in toFloat(clauses[2 * i]) : compareNumeric(n, clauses[2 * i - 1], m)
      Breaks(n, i) == toFloat(clauses[2 * i]) = {} /\ \A j \in 1..(i - 1) : Clause(n, j)
  IN
  IF \E n \in numbers, i \in pairs : Breaks(n, i) THEN {"error"}
  ELSE Verdict(\E n \in numbers : \A i \in pairs : Clause(n, i))

evalCIDR(operand, candidate) ==
  IF Is("str", operand) /\ operand.str \in CIDR
  THEN Verdict(evalString("cidr", operand, candidate)) ELSE {"error"}

evalOperator(rule, candidate, exists) ==
  CASE "exists" \in DOMAIN rule -> Verdict(exists = (rule["exists"] = Bool(TRUE)))
    [] "anything-but" \in DOMAIN rule -> Verdict(evalAnythingBut(rule["anything-but"], candidate))
    [] "cidr" \in DOMAIN rule -> evalCIDR(rule["cidr"], candidate)
    [] "numeric" \in DOMAIN rule -> evalNumeric(rule["numeric"].arr, candidate)
    [] OTHER -> Verdict(evalNested(rule, candidate))

evalCondition(condition, candidate, exists) ==
  CASE IsScalar(condition) -> Verdict(scalarOrArrayContains(candidate, condition))
    [] Is("obj", condition) -> evalOperator(condition.obj, candidate, exists)
    [] OTHER -> {"nomatch"}

-----------------------------------------------------------------------------
(***************************************************************************)
(* Objects.                                                                *)
(***************************************************************************)
\* An array: the first match or error decides.
FirstOf(outcomes) ==
  { r \in {"match", "error"} :
      \E i \in DOMAIN outcomes :
        r \in outcomes[i] /\ \A j \in 1..(i - 1) : "nomatch" \in outcomes[j] }
    \cup { r \in {"nomatch"} : \A i \in DOMAIN outcomes : r \in outcomes[i] }

\* A map: any entry that fails to match may be the first one looked at.
AllOf(outcomes) ==
  { r \in {"nomatch", "error"} : \E o \in outcomes : r \in o }
    \cup { r \in {"match"} : \A o \in outcomes : r \in o }

evalConditions(conditions, candidate, exists) ==
  FirstOf([i \in DOMAIN conditions |-> evalCondition(conditions[i], candidate, exists)])

\* eval is evalObject, which these two and itself call on smaller policies.
evalOR(eval, items, candidate) ==
  FirstOf([i \in DOMAIN items |->
             IF Is("obj", items[i]) THEN eval[items[i].obj][candidate] ELSE {"error"}])

Child(candidate, key) == IF key \in DOMAIN candidate THEN candidate[key] ELSE Null

evalEntry(eval, key, value, candidate) ==
  LET child == Child(candidate, key) IN
  CASE key = "$or" ->
         IF Is("arr", value) /\ Len(value.arr) >= 2 THEN evalOR(eval, value.arr, candidate)
         ELSE {"nomatch"}
    [] key # "$or" /\ Is("obj", value) ->
         IF Is("obj", child) THEN eval[value.obj][child.obj] ELSE {"nomatch"}
    [] key # "$or" /\ Is("arr", value) ->
         evalConditions(value.arr, child, key \in DOMAIN candidate)
    [] OTHER -> {"error"}

evalObject[policy \in JSONObject] ==
  [candidate \in JSONObject |->
     AllOf({ evalEntry(evalObject, key, policy[key], candidate) : key \in DOMAIN policy })]

\* The attributes of a message as a JSON object; a Number that is none is
\* left out.
attributeRoot(attrs) ==
  LET Value(a) ==
        CASE a.DataType = "String.Array" ->
               Arr(IF a.StringValue \in DOMAIN ParseArray THEN ParseArray[a.StringValue]
                   ELSE <<Str(a.StringValue)>>)
          [] a.DataType = "Number" -> Num(ParseFloat[a.StringValue])
          [] OTHER -> Str(a.StringValue)
      readable == { key \in DOMAIN attrs :
                      attrs[key].DataType = "Number" => attrs[key].StringValue \in DOMAIN ParseFloat }
  IN [key \in readable |-> Value(attrs[key])]

\* What a policy is evaluated on; no object at all for another body.
Roots(scope, body, attrs) ==
  IF scope = "MessageBody" THEN { v.obj : v \in {x \in {body} : Is("obj", x)} }
  ELSE {attributeRoot(attrs)}

Matches(policy, scope, body, attrs) ==
  CASE Is("blank", policy) -> {"match"}
    [] ~Is("blank", policy) /\ Roots(scope, body, attrs) = {} -> {"nomatch"}
    [] OTHER -> UNION { IF Is("null", policy) THEN {"match"} ELSE evalObject[policy.obj][root] :
                          root \in Roots(scope, body, attrs) }

-----------------------------------------------------------------------------
(***************************************************************************)
(* The reading of a policy that has nothing to do with the order of its    *)
(* evaluation, nor with the functions that evaluate its conditions: every  *)
(* key has a condition that holds, "$or" an alternative, and               *)
(* "anything-but" is the negation of what it names.                        *)
(***************************************************************************)
Items(v) == IF Is("arr", v) THEN { v.arr[i] : i \in DOMAIN v.arr } ELSE {v}

\* Values of two kinds that are taken for each other, because they are
\* written alike.
Spelled == {<<Bool(TRUE), Str("true")>>, <<Bool(FALSE), Str("false")>>, <<Null, Str("<nil>")>>}

\* A value of the message is the one a policy names.  A number and a string
\* are compared as numbers when the number is the message's, as text when it
\* is the policy's.
Alike(item, named) ==
  \/ item = named
  \/ Is("num", item) /\ Is("num", named) /\ Near(item.num, named.num)
  \/ /\ Is("num", item) /\ Is("str", named) /\ named.str \in DOMAIN ParseFloat
     /\ Near(item.num, ParseFloat[named.str])
  \/ Is("str", item) /\ Is("num", named) /\ item.str = FormatFloat[named.num]
  \/ <<item, named>> \in Spelled \/ <<named, item>> \in Spelled

Named(candidate, v) == \E item \in Items(candidate) : Alike(item, v)

StringHolds(op, operand, candidate) ==
  \E item \in Items(candidate) : Is("str", item) /\ <<item.str, operand.str>> \in Related[op]

\* n stands in the relation op to m; no other operator relates anything.
Satisfies(n, op, m) ==
  \/ op = Str("=") /\ Near(n, m)
  \/ op \in {Str(">"), Str(">=")} /\ n > m
  \/ op \in {Str("<"), Str("<=")} /\ n < m
  \/ op \in {Str(">="), Str("<=")} /\ n = m

NumericHolds(clauses, candidate) ==
  \E item \in Items(candidate) : \E n \in toFloat(item) :
    \A i \in 1..(Len(clauses) \div 2) :
      \E m \in toFloat(clauses[2 * i]) : Satisfies(n, clauses[2 * i - 1], m)

\* Nothing is outside of a network that is none.
Outside(rule, candidate) ==
  \A op \in DOMAIN rule :
    ~StringHolds(op, rule[op], candidate) /\ (op = "cidr" => rule[op].str \in CIDR)

OperatorHolds(op, operand, candidate, exists) ==
  CASE op \in StringOperators -> StringHolds(op, operand, candidate)
    [] op = "numeric" -> NumericHolds(operand.arr, candidate)
    [] op = "exists" -> exists = operand.bool
    [] op = "anything-but" /\ Is("obj", operand) -> Outside(operand.obj, candidate)
    [] OTHER -> ~\E named \in Items(operand) : Named(candidate, named)

Holds(condition, candidate, exists) ==
  IF Is("obj", condition)
  THEN \E op \in DOMAIN condition.obj : OperatorHolds(op, condition.obj[op], candidate, exists)
  ELSE Named(candidate, condition)

Accepts[policy \in JSONObject] ==
  [root \in JSONObject |->
     \A key \in DOMAIN policy :
       LET value == policy[key]
           child == Child(root, key)
       IN
       CASE key = "$or" ->
              /\ Is("arr", value)
              /\ \E item \in Range(value.arr) : Is("obj", item) /\ Accepts[item.obj][root]
         [] key # "$or" /\ Is("obj", value) ->
              Is("obj", child) /\ Accepts[value.obj][child.obj]
         [] OTHER -> \E c \in Range(value.arr) : Holds(c, child, key \in DOMAIN root)]

\* Validate lets operands through that evaluation stumbles over: under
\* "anything-but" the error is dropped, and nothing is excluded,
KeepsErrors(condition) ==
  Is("obj", condition) /\ "anything-but" \in DOMAIN condition.obj =>
    LET but == condition.obj["anything-but"] IN
    Is("obj", but) /\ "cidr" \in DOMAIN but.obj => but.obj["cidr"].str \in CIDR

\* elsewhere the policy as a whole may fail.
Readable(condition) ==
  /\ KeepsErrors(condition)
  /\ Is("obj", condition) =>
       /\ "cidr" \in DOMAIN condition.obj => condition.obj["cidr"].str \in CIDR
       /\ "numeric" \in DOMAIN condition.obj =>
            LET clauses == condition.obj["numeric"].arr IN
            \A i \in 1..(Len(clauses) \div 2) : toFloat(clauses[2 * i]) # {}

\* The policies an entry leads to, and the conditions it has itself.
Below(key, value) == { v \in IF key = "$or" THEN Items(value) ELSE {value} : Is("obj", v) }
Here(key, value) == IF key # "$or" /\ Is("arr", value) THEN Items(value) ELSE {}

\* All conditions of a policy.
Conditions[policy \in JSONObject] ==
  UNION { Here(key, policy[key]) \cup UNION { Conditions[v.obj] : v \in Below(key, policy[key]) } :
            key \in DOMAIN policy }

ConditionsOf(policy) == IF Is("obj", policy) THEN Conditions[policy.obj] ELSE {}
=============================================================================
