----------------------------- MODULE Conditions -----------------------------
(***************************************************************************)
(* The condition engine of the automations (condition-engine.ts): which    *)
(* trees validateConditionTree lets an automation store, and what          *)
(* evaluateConditions makes of them when a trigger fires.  A value is its  *)
(* JavaScript type and a number; Absent stands for null and undefined.     *)
(***************************************************************************)
EXTENDS Naturals, Sequences

Absent == [type |-> "absent", is |-> 0]
Numbers == {[type |-> "number", is |-> n] : n \in 0..2}
Texts == {[type |-> "string", is |-> n] : n \in 0..1}

(* FIELD_REGISTRY: two of its fields, and a name it does not have.         *)
FieldType == [score |-> "number", status |-> "string"]
Fields == {"score", "status", "secret"}
Resolved(field) == IF field = "score" THEN Numbers ELSE Texts

Groups == {"all", "any", "not"}
Ordered == {"gt", "gte", "lt", "lte"}
Listed == {"in", "notIn"}
Presence == {"exists", "notExists"}
OperatorsOf(type) ==
    {"eq", "ne"} \cup Listed \cup Presence
      \cup (IF type = "number" THEN Ordered ELSE {})

MaxConditionDepth == 1      \* bound: 6 in the code

Leaf(field, operator, value) ==
    [kind |-> "leaf", field |-> field, operator |-> operator, value |-> value]
Group(kind, children) == [kind |-> kind, children |-> children]

(* value is the array of `in` and `notIn`, and a singleton for one value.  *)
ValidLeaf(node) ==
    /\ node.field \in DOMAIN FieldType
    /\ node.operator \in OperatorsOf(FieldType[node.field])
    /\ node.operator \notin Presence =>
         /\ node.value # {}
         /\ \A v \in node.value : v.type = FieldType[node.field]

RECURSIVE ValidateConditionTree(_, _)
ValidateConditionTree(node, depth) ==
    /\ depth <= MaxConditionDepth
    /\ \/ node.kind = "leaf" /\ ValidLeaf(node)
       \/ /\ node.kind \in Groups
          /\ node.children # <<>>
          /\ \A i \in DOMAIN node.children :
               ValidateConditionTree(node.children[i], depth + 1)

Compare(operator, actual, value) ==
    \/ operator \in {"eq", "in"} /\ actual \in value
    \/ operator \in {"ne", "notIn"} /\ actual \notin value
    \/ operator = "gt"  /\ \A v \in value : actual.is > v.is
    \/ operator = "gte" /\ \A v \in value : actual.is >= v.is
    \/ operator = "lt"  /\ \A v \in value : actual.is < v.is
    \/ operator = "lte" /\ \A v \in value : actual.is <= v.is

(* Mutant: what an absent value is not equal to, it differs from.          *)
CompareAbsent(operator, actual, value) ==
    CASE operator = "exists" -> actual # Absent
      [] operator = "notExists" -> actual = Absent
      [] OTHER -> Compare(operator, actual, value)

CompareLeaf(operator, actual, value) ==
    CASE operator = "exists" -> actual # Absent
      [] operator = "notExists" -> actual = Absent
      [] OTHER -> actual # Absent /\ Compare(operator, actual, value)

EvaluateLeaf(node, context) ==
    /\ node.field \in DOMAIN FieldType
    /\ CompareLeaf(node.operator, context[node.field], node.value)

RECURSIVE EvaluateNode(_, _)
EvaluateNode(node, context) ==
    CASE node.kind = "leaf" -> EvaluateLeaf(node, context)
      [] node.kind = "all" ->
           \A i \in DOMAIN node.children : EvaluateNode(node.children[i], context)
      [] node.kind = "any" ->
           \E i \in DOMAIN node.children : EvaluateNode(node.children[i], context)
      [] node.kind = "not" -> ~EvaluateNode(node.children[1], context)

(***************************************************************************)
(* Bounded inputs: every leaf, and the groups of up to two of some leaves. *)
(***************************************************************************)
Leaves ==
    {Leaf(f, op, v) : f \in Fields,
                      op \in {"eq", "ne", "gt", "lte", "notIn", "exists", "notExists"},
                      v \in {{}, {[type |-> "number", is |-> 1]},
                             {[type |-> "string", is |-> 1]}, Texts}}
Chosen == {Leaf("score", op, {[type |-> "number", is |-> 1]})
             : op \in {"ne", "lte", "exists", "notExists"}}
            \cup {Leaf("status", op, {[type |-> "string", is |-> 1]})
                    : op \in {"eq", "notIn"}}
Pairs == {<<a, b>> : a \in Chosen, b \in Chosen}
Trees ==
    Leaves
      \cup {Group(k, pair) : k \in {"all", "any"}, pair \in Pairs}
      \cup {Group("not", <<leaf>>) : leaf \in Chosen}
      \cup {Group(k, <<>>) : k \in Groups}
      \cup {Group("all", <<Group("any", pair)>>) : pair \in Pairs}
Contexts == [score : Numbers \cup {Absent}, status : Texts \cup {Absent}]

Inputs == [tree : Trees, context : Contexts]

RECURSIVE OnlyEvidence(_)
OnlyEvidence(node) ==
    IF node.kind = "leaf" THEN node.operator # "notExists"
    ELSE /\ node.kind # "not"
         /\ \A i \in DOMAIN node.children : OnlyEvidence(node.children[i])

(***************************************************************************)
(* "Absence is never coerced into a comparable value": a stored tree that  *)
(* holds while a field is absent holds whatever the value of the field,    *)
(* unless it asks for the absence (`notExists`, or a `not`).               *)
(***************************************************************************)
AbsenceIsNotEvidence(input) ==
    ValidateConditionTree(input.tree, 0) /\ OnlyEvidence(input.tree) =>
      \A field \in DOMAIN FieldType :
        input.context[field] = Absent /\ EvaluateNode(input.tree, input.context) =>
          \A v \in Resolved(field) :
            EvaluateNode(input.tree, [input.context EXCEPT ![field] = v])

=============================================================================
