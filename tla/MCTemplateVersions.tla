------------------------- MODULE MCTemplateVersions -------------------------
(* Model values and bounds for TemplateVersions and RuleEngine. *)
EXTENDS TemplateVersions, TLC

CONSTANTS e1, e2, c1, c2, r1

TwoEditors == {e1, e2}
OneCode == {c1}
OneReview == {r1}

(* A service outside, one inside the company. *)
Service(exposed, level) ==
    [f \in reviewFields |->
        IF f = "exposure" THEN exposed
        ELSE IF f = "business_criticality" THEN level
        ELSE IF f = "uses_cloud" THEN "true" ELSE "false"]
Profiles == {Service("INTERNET", "3"), Service("INTRANET", "1")}
OfReviews == [r \in Reviews |-> Service("INTRANET", "1")]
Numbers == [n \in {"1", "2", "3"} |-> CHOOSE k \in 1..3 : n = <<"1", "2", "3">>[k]]
Contained == {<<"INTER", "INTERNET">>}

Leaf(field, op, value) == [field |-> field, op |-> op, values |-> <<value>>]
In(field, list) == [field |-> field, op |-> "in", values |-> list]
Leaves == {Leaf("exposure", "", "INTERNET"), Leaf("exposure", "!=", "INTERNET"),
           Leaf("exposure", "contains", "INTER"), Leaf("business_criticality", "gte", "2"),
           In("exposure", <<"INTRANET", "DMZ">>), In("exposure", <<>>),
           Leaf("uses_docker", "exists", "true"), Leaf("uses_gpu", "neq", "true"), Scrap}
Over(nodes) ==
    LET lists == {<<>>} \cup {<<a>> : a \in nodes} \cup {<<a, b>> : a, b \in nodes}
    IN  nodes \cup {[all |-> l] : l \in lists} \cup {[any |-> l] : l \in lists}
              \cup {[not |-> n] : n \in nodes}
Some == {Leaf("exposure", "", "INTERNET"), Leaf("business_criticality", "gte", "2")}
Tried == Over(Leaves) \cup Over(Over(Some))

Text(category, rule, answerable) ==
    [category |-> category, rule |-> rule, answerable |-> answerable]
Plain == Text("CLOUD", NoRule, TRUE)
Blank == Text("CLOUD", [not |-> [any |-> <<Leaf("exposure", "", "INTERNET")>>]], FALSE)
Wording == {Plain, Blank}

Interchangeable == Permutations(Editors) \cup Permutations(Codes)
=============================================================================
