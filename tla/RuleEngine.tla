----------------------------- MODULE RuleEngine -----------------------------
(***************************************************************************)
(* The applicability rules of checklist items (internal/web/reviews.go):   *)
(* what a rule may look like, whether it holds for a service, and how the  *)
(* simulator explains it.                                                  *)
(*                                                                         *)
(* A rule is a tree: [all |-> nodes], [any |-> nodes], [not |-> node], or a *)
(* leaf [field, op, values].  NoRule stands for an absent or empty one,    *)
(* and Scrap for anything that is not an object.  Operators are written in *)
(* lower case, as the code compares them; values are the texts fmt.Sprint  *)
(* gives: the list of an "in", the only element of a list otherwise.       *)
(***************************************************************************)
EXTENDS Integers, Sequences, SequencesExt

CONSTANTS
    NoRule, Scrap,
    Numeral,      \* the values that read as numbers, with the number
    Part,         \* pairs of values of which the first is contained in the second
    Rules,        \* the rules told apart: Scrap and trees
    Services      \* services they are evaluated for

(* The characteristics a review form records. *)
reviewFields ==
    {"service_type", "change_type", "exposure", "has_admin_page",
     "processes_personal_data", "processes_credit_data",
     "external_customer_service", "uses_cloud", "uses_docker",
     "uses_kubernetes", "external_integration", "internet_access",
     "business_criticality"}

ruleOperators ==
    {"", "eq", "=", "neq", "!=", "in", "contains", "gt", "gte", "lt", "lte", "exists"}

Has(node, key) == key \in DOMAIN node

(* What a group or a negation is made of are rules as well. *)
ASSUME RulesAssumption ==
    /\ Scrap \in Rules /\ NoRule \notin Rules
    /\ \A node \in Rules \ {Scrap} :
          /\ \A key \in {"all", "any"} : Has(node, key) => node[key] \in Seq(Rules)
          /\ Has(node, "not") => node.not \in Rules

-----------------------------------------------------------------------------
(* What a template administrator may store *)

Filled(nodes) == nodes # <<>>

validateRule[node \in Rules] ==
    LET Every(nodes) == \A k \in DOMAIN nodes : validateRule[nodes[k]]
    IN  IF node = Scrap THEN FALSE
        ELSE IF Has(node, "all") THEN Filled(node.all) /\ Every(node.all)
        ELSE IF Has(node, "any") THEN Filled(node.any) /\ Every(node.any)
        ELSE IF Has(node, "not") THEN validateRule[node.not]
        ELSE /\ node.field \in reviewFields
             /\ node.op \in ruleOperators
             /\ node.op = "in" => node.values # <<>>

checkedRule(rule) == IF rule = NoRule THEN TRUE ELSE validateRule[rule]

-----------------------------------------------------------------------------
(* What the engine makes of it.  A service is a function on reviewFields. *)

Compared(op, a, b) ==
    \/ op = "gt" /\ a > b
    \/ op = "gte" /\ a >= b
    \/ op = "lt" /\ a < b
    \/ op = "lte" /\ a <= b

evalLeaf(leaf, service) ==
    LET known == leaf.field \in DOMAIN service
        actual == service[leaf.field]
        value == leaf.values[1]
    IN  IF leaf.op = "exists" THEN known = (value = "true")
        ELSE /\ known
             /\ \/ leaf.op \in {"", "eq", "="} /\ actual = value
                \/ leaf.op \in {"neq", "!="} /\ actual # value
                \/ leaf.op = "in" /\ \E k \in DOMAIN leaf.values : actual = leaf.values[k]
                \/ leaf.op = "contains" /\ <<value, actual>> \in Part
                \/ /\ leaf.op \in {"gt", "gte", "lt", "lte"}
                   /\ {actual, value} \subseteq DOMAIN Numeral
                   /\ Compared(leaf.op, Numeral[actual], Numeral[value])

evalNode(rule, service) ==
    LET holds[node \in Rules] ==
            IF node = Scrap THEN TRUE
            ELSE IF Has(node, "all") THEN \A k \in DOMAIN node.all : holds[node.all[k]]
            ELSE IF Has(node, "any") THEN \E k \in DOMAIN node.any : holds[node.any[k]]
            ELSE IF Has(node, "not") THEN ~ holds[node.not]
            ELSE evalLeaf(node, service)
    IN  holds[rule]

evaluateRule(rule, service) == IF rule = NoRule THEN TRUE ELSE evalNode(rule, service)

(* The items of some categories only go to services that have the feature. *)
categoryApplies(category, service) ==
    LET Is(field) == service[field] = "true"
    IN  CASE category \in {"PRIVACY", "PERSONAL_DATA"} ->
                Is("processes_personal_data") \/ Is("processes_credit_data")
          [] category = "CLOUD" -> Is("uses_cloud")
          [] category \in {"DOCKER", "CONTAINER_DOCKER"} -> Is("uses_docker")
          [] category \in {"KUBERNETES", "CONTAINER_KUBERNETES"} -> Is("uses_kubernetes")
          [] OTHER -> TRUE

-----------------------------------------------------------------------------
(* How the simulator explains the outcome: the conditions one after the      *)
(* other, each with whether the service meets it, read the other way round   *)
(* under a "not".  The first forty are listed.                               *)

Listed == 40

Heard_plain(matched, negated) == matched
Heard(matched, negated) == matched # negated

collectConditions(rule, service) ==
    LET listed[node \in Rules] ==
            [negated \in BOOLEAN |->
                IF node = Scrap THEN <<>>
                ELSE IF Has(node, "all") THEN
                    FlattenSeq([k \in DOMAIN node.all |-> listed[node.all[k]][negated]])
                ELSE IF Has(node, "any") THEN
                    FlattenSeq([k \in DOMAIN node.any |-> listed[node.any[k]][negated]])
                ELSE IF Has(node, "not") THEN listed[node.not][~ negated]
                ELSE <<Heard(evalLeaf(node, service), negated)>>]
    IN  listed[rule][FALSE]

explainRule(rule, service) ==
    LET conditions == IF rule = NoRule THEN <<>> ELSE collectConditions(rule, service)
    IN  SubSeq(conditions, 1, IF Len(conditions) < Listed THEN Len(conditions) ELSE Listed)

(* Whether the conditions of an explanation are all met, or none of them is. *)
AllMet(conditions) == \A k \in DOMAIN conditions : conditions[k]
NoneMet(conditions) == conditions # <<>> /\ \A k \in DOMAIN conditions : ~ conditions[k]

(* The explanation decides: a rule that may be stored holds for every        *)
(* service that meets all the conditions listed for it, and for none that    *)
(* meets none of them, however deep its groups and negations, as long as     *)
(* fewer are listed than there is room for: forty met conditions say nothing *)
(* of a forty-first.                                                         *)
ConditionsDecide ==
    \A rule \in Rules \cup {NoRule}, service \in Services :
        LET conditions == explainRule(rule, service)
        IN  checkedRule(rule) /\ Len(conditions) < Listed =>
              /\ AllMet(conditions) => evaluateRule(rule, service)
              /\ NoneMet(conditions) => ~ evaluateRule(rule, service)
=============================================================================
