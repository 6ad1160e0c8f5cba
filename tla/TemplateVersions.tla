-------------------------- MODULE TemplateVersions --------------------------
(***************************************************************************)
(* Checklist templates, their versions and the snapshots reviews take of   *)
(* them: internal/web/templates.go and the creation of a review in         *)
(* internal/web/reviews.go.                                                *)
(*                                                                         *)
(* An action is one statement, or one transaction whose statements nothing *)
(* can come between.  Changing and removing an item lock the item and its  *)
(* version (SELECT ... FOR UPDATE), so each is one action.  Adding an item *)
(* locks the version against deletion only: the insert that asks whether   *)
(* the version is a draft and the commit are two steps.  Publishing,       *)
(* retiring and deleting ask first and write later, in separate steps.     *)
(*                                                                         *)
(* A template's and a version's number is the order in which they were     *)
(* created.  Sections and the wording of an item are left out: an item is  *)
(* its code and a text, of which the category, the rule and whether the    *)
(* author has something to answer with are told apart.                     *)
(***************************************************************************)
EXTENDS RuleEngine, FiniteSets, FiniteSetsExt

CONSTANTS
    Editors,      \* requests of administrators that may be under way at once
    NTemplates,   \* bound: templates ever made
    NVersions,    \* bound: versions ever made
    Codes,        \* item codes
    Texts,        \* what an item may say
    Reviews,      \* reviews that may be created
    Profile,      \* the service each of them is about
    MaxEdits      \* bound: templates and rows of change histories, for another edit

ASSUME TemplatesAssumption ==
    /\ NTemplates \in Nat /\ NVersions \in Nat /\ MaxEdits \in Nat
    /\ \A text \in Texts : /\ DOMAIN text = {"category", "rule", "answerable"}
                          /\ text.rule \in Rules \cup {NoRule}
    /\ Profile \in [Reviews -> Services]

VARIABLES
    template,     \* template -> "none", "active", "inactive" or "deleted"
    of,           \* version -> the template it belongs to, 0 before it is made
    status,       \* version -> "none", "DRAFT", "PUBLISHED", "RETIRED", "deleted"
    published,    \* version -> published_at, as the order of publications
    items,        \* version -> its checklist_items
    base,         \* version -> the items it was created with
    changes,      \* version -> its rows of template_changes, oldest first
    held,         \* review -> whether it exists, and the snapshot it holds
    request,      \* editor -> the request under way
    overlapped    \* templates written by a request that another had overtaken

rows == <<template, of, status, published, items, base, changes>>
templateVars == <<rows, held, request, overlapped>>

Templates == 1..NTemplates
Versions == 1..NVersions
Item == [code : Codes, text : Texts]
NoReview == [made |-> FALSE, given |-> [t \in Templates |-> 0], items |-> {}]
About(doing, v, t, item) ==
    [doing |-> doing, at |-> v, on |-> t, item |-> item, overtaken |-> FALSE]
Idle == About("nothing", 0, 0, {})

(* The items of a version carry different codes: UNIQUE(version_id,item_code). *)
Distinct(S) == \A i, j \in S : i.code = j.code => i = j

TemplateInit ==
    /\ template = [t \in Templates |-> "none"]
    /\ of = [v \in Versions |-> 0]
    /\ status = [v \in Versions |-> "none"]
    /\ published = [v \in Versions |-> 0]
    /\ items = [v \in Versions |-> {}]
    /\ base = [v \in Versions |-> {}]
    /\ changes = [v \in Versions |-> <<>>]
    /\ held = [r \in Reviews |-> NoReview]
    /\ request = [e \in Editors |-> Idle]
    /\ overlapped = {}

-----------------------------------------------------------------------------
(* Queries *)

Exists(t) == template[t] \in {"active", "inactive"}
VersionsOf(t) == {v \in Versions : of[v] = t}
PublishedOf(t) == {v \in VersionsOf(t) : status[v] = "PUBLISHED"}

(* The version a new review is given: the last one published. *)
Latest(t) == CHOOSE v \in PublishedOf(t) :
                \A w \in PublishedOf(t) : published[w] <= published[v]

(* itemsWithBrokenRules: a rule the engine cannot read, or a choice with     *)
(* nothing to choose from (unanswerableReason).                              *)
Usable(text) == text.answerable /\ checkedRule(text.rule)
Broken(v) == {i \in items[v] : ~ Usable(i.text)}

(* brokenRuleCounts and ruleCheck: the templates whose checklist carries one *)
Reported == {t \in Templates : PublishedOf(t) # {} /\ Broken(Latest(t)) # {}}

Stamp == 1 + Max({published[v] : v \in Versions} \cup {0})

(* The items being added to the version and not committed yet.  Each holds a *)
(* key lock on the version's row, which FOR UPDATE and DELETE wait for, and  *)
(* its code, which another insert waits for and then finds taken.            *)
Pending(v) ==
    UNION {request[e].item : e \in {e \in Editors : /\ request[e].doing = "add"
                                                    /\ request[e].at = v}}
Inserting(v) == Pending(v) # {}

NextTemplate(t) == template[t] = "none" /\ \A u \in 1..(t - 1) : template[u] # "none"
NextVersion(v) == of[v] = 0 /\ \A w \in 1..(v - 1) : of[w] # 0

(* Bound: editing goes on while the templates made and the rows of all       *)
(* change histories are MaxEdits at most.                                    *)
MayEdit ==
    FoldFunction(LAMBDA log, n : Len(log) + n,
                 Cardinality({t \in Templates : template[t] # "none"}), changes)
        <= MaxEdits

IsDraft(v) == status[v] = "DRAFT"

(* A request takes its next step, and nothing else changes. *)
Step(e, now) ==
    /\ request' = [request EXCEPT ![e] = now]
    /\ UNCHANGED <<rows, held, overlapped>>

Start(e, doing, v, t) == Step(e, About(doing, v, t, {}))

(* Editor e writes to template t: whoever asked about it earlier acts on an  *)
(* old answer from here on.                                                  *)
Writes(e, t) ==
    /\ request' = [f \in Editors |->
                     IF f = e THEN Idle
                     ELSE [request[f] EXCEPT !.overtaken = @ \/ request[f].on = t]]
    /\ overlapped' = IF request[e].overtaken THEN overlapped \cup {t} ELSE overlapped

-----------------------------------------------------------------------------
(* Making templates and versions *)

Made(t, v, content, state) ==
    /\ NextVersion(v)
    /\ of' = [of EXCEPT ![v] = t]
    /\ status' = [status EXCEPT ![v] = state]
    /\ published' = [published EXCEPT ![v] = IF state = "PUBLISHED" THEN Stamp ELSE 0]
    /\ items' = [items EXCEPT ![v] = content]
    /\ base' = [base EXCEPT ![v] = content]
    /\ UNCHANGED <<changes, held, overlapped, request>>

MadeTemplate(t, v, content, state) ==
    /\ NextTemplate(t)
    /\ template' = [template EXCEPT ![t] = "active"]
    /\ Made(t, v, content, state)

CreateTemplate(e, t, v) ==
    /\ request[e] = Idle
    /\ MadeTemplate(t, v, {}, "DRAFT")

(* An imported workbook is a template whose items are all YNNA and have no   *)
(* rule, published at once when the form says so.  It needs one item.        *)
ImportTemplate(e, t, v) ==
    /\ request[e] = Idle
    /\ \E content \in (SUBSET {i \in Item : i.text.answerable /\ i.text.rule = NoRule}) \ {{}},
          state \in {"DRAFT", "PUBLISHED"} :
          Distinct(content) /\ MadeTemplate(t, v, content, state)

(* A copy starts from the template's newest version, whatever its status. *)
CopyTemplate(e, source, t, v) ==
    /\ request[e] = Idle
    /\ Exists(source)
    /\ MadeTemplate(t, v, items[Max(VersionsOf(source))], "DRAFT")

(* A new version starts empty or from any version that was ever made. *)
CreateVersion(e, t, v) ==
    /\ request[e] = Idle
    /\ Exists(t)
    /\ \E content \in {{}} \cup {items[w] : w \in {w \in Versions : of[w] # 0}} :
          Made(t, v, content, "DRAFT")
    /\ UNCHANGED template

UpdateTemplate(e, t, active) ==
    /\ request[e] = Idle
    /\ Exists(t) /\ template[t] # active
    /\ template' = [template EXCEPT ![t] = active]
    /\ Writes(e, t)
    /\ UNCHANGED <<of, status, published, items, base, changes, held>>

-----------------------------------------------------------------------------
(* Editing a draft *)

(* What a change of the items leaves in the history. *)
Recorded_skipped(before, after) ==
    IF after = {} THEN <<>> ELSE <<[before |-> before, after |-> after]>>
Recorded(before, after) == <<[before |-> before, after |-> after]>>

(* Whether an item of the version may still be changed or removed. *)
Editable_always(v) == of[v] # 0 /\ status[v] # "deleted"
Editable(v) == IsDraft(v)

(* checkedRule of the text, and the unique index over a version's codes. *)
Fits(content) == Distinct(content) /\ \A i \in content : checkedRule(i.text.rule)

Edit(e, v, before, after) ==
    /\ items' = [items EXCEPT ![v] = (@ \ before) \cup after]
    /\ changes' = [changes EXCEPT ![v] = @ \o Recorded(before, after)]
    /\ Writes(e, of[v])
    /\ UNCHANGED <<template, of, status, published, base, held>>

(* The insert asks for a draft; the row and its history are seen by others   *)
(* once the transaction commits.                                             *)
InsertItem(e, v, item) ==
    /\ request[e] = Idle
    /\ MayEdit
    /\ IsDraft(v)
    /\ checkedRule(item.text.rule)
    /\ \A other \in items[v] \cup Pending(v) : other.code # item.code
    /\ Step(e, About("add", v, of[v], {item}))

CommitItem(e) ==
    /\ request[e].doing = "add"
    /\ Edit(e, request[e].at, {}, request[e].item)

UpdateItem(e, v, old, new) ==
    /\ request[e] = Idle
    /\ MayEdit
    /\ Editable(v)
    /\ ~ Inserting(v)
    /\ old \in items[v] /\ new # old
    /\ Fits((items[v] \ {old}) \cup {new})
    /\ Edit(e, v, {old}, {new})

DeleteItem(e, v, old) ==
    /\ request[e] = Idle
    /\ MayEdit
    /\ Editable(v)
    /\ ~ Inserting(v)
    /\ old \in items[v]
    /\ Edit(e, v, {old}, {})

-----------------------------------------------------------------------------
(* Publishing: the count, the inspection of the rules, then the write *)

PublishCount(e, v) ==
    /\ request[e] = Idle
    /\ items[v] # {}
    /\ Start(e, "count", v, of[v])

Refused_never(v) == FALSE
Refused(v) == Broken(v) # {}

PublishInspect(e) ==
    /\ request[e].doing = "count"
    /\ Step(e, IF Refused(request[e].at) THEN Idle
               ELSE [request[e] EXCEPT !.doing = "inspect"])

(* A write that finds another status than it asked for is refused. *)
PublishWrite(e) ==
    LET v == request[e].at IN
    /\ request[e].doing = "inspect"
    /\ IsDraft(v)
    /\ status' = [status EXCEPT ![v] = "PUBLISHED"]
    /\ published' = [published EXCEPT ![v] = Stamp]
    /\ Writes(e, of[v])
    /\ UNCHANGED <<template, of, items, base, changes, held>>

WriteRefused(e) ==
    /\ \/ request[e].doing = "inspect" /\ ~ IsDraft(request[e].at)
       \/ request[e].doing = "retire" /\ status[request[e].at] # "PUBLISHED"
    /\ Step(e, Idle)

(* Retiring: a template in use keeps a published version. *)
MayRetire(v) ==
    template[of[v]] = "active" => PublishedOf(of[v]) \ {v} # {}

RetireAsk(e, v) ==
    /\ request[e] = Idle
    /\ of[v] # 0 /\ Exists(of[v])
    /\ MayRetire(v)
    /\ Start(e, "retire", v, of[v])

RetireWrite(e) ==
    LET v == request[e].at IN
    /\ request[e].doing = "retire"
    /\ status[v] = "PUBLISHED"
    /\ status' = [status EXCEPT ![v] = "RETIRED"]
    /\ Writes(e, of[v])
    /\ UNCHANGED <<template, of, published, items, base, changes, held>>

(* Deleting: refused once a version was published or a review holds an item. *)
Unused_retired(t) == PublishedOf(t) = {}
Unused(t) ==
    /\ \A v \in VersionsOf(t) : IsDraft(v)
    /\ \A r \in Reviews : \A h \in held[r].items : of[h.version] # t

DeleteAsk(e, t) ==
    /\ request[e] = Idle
    /\ Exists(t)
    /\ Unused(t)
    /\ Start(e, "delete", 0, t)

(* The versions, items and history go with the template; what a review holds *)
(* stays, its reference to the source set to NULL.                           *)
DeleteWrite(e) ==
    LET t == request[e].on
        gone == VersionsOf(t)
    IN  /\ request[e].doing = "delete"
        /\ \A v \in gone : ~ Inserting(v)
        /\ template' = [template EXCEPT ![t] = "deleted"]
        /\ status' = [v \in Versions |-> IF v \in gone THEN "deleted" ELSE status[v]]
        /\ items' = [v \in Versions |-> IF v \in gone THEN {} ELSE items[v]]
        /\ base' = [v \in Versions |-> IF v \in gone THEN {} ELSE base[v]]
        /\ changes' = [v \in Versions |-> IF v \in gone THEN <<>> ELSE changes[v]]
        /\ Writes(e, t)
        /\ UNCHANGED <<of, published, held>>

-----------------------------------------------------------------------------
(* categoryApplies and evaluateRule for the service the review is about *)
Applies(r, i) ==
    /\ categoryApplies(i.text.category, Profile[r])
    /\ evaluateRule(i.text.rule, Profile[r])

(* What the simulator reports of an item: whether it applies, and with which *)
(* conditions.  An item nobody can use is reported as such, without any.     *)
simulateRules(i, service) ==
    LET considered == Usable(i.text) /\ categoryApplies(i.text.category, service)
        told == IF considered THEN explainRule(i.text.rule, service) ELSE <<>>
    IN  [applied |-> considered /\ evaluateRule(i.text.rule, service),
         conditions |-> told]

(* A review is created with the items of every active template's last        *)
(* published version that apply to it, in one transaction.                   *)
Given(t) == IF template[t] = "active" /\ PublishedOf(t) # {} THEN Latest(t) ELSE 0

CreateReview(r) ==
    /\ ~ held[r].made
    /\ held' = [held EXCEPT ![r] =
          [made |-> TRUE,
           given |-> [t \in Templates |-> Given(t)],
           items |-> UNION {{[version |-> v, item |-> i] :
                                i \in {i \in items[v] : Applies(r, i)}} :
                            v \in {Given(t) : t \in Templates} \ {0}}]]
    /\ UNCHANGED <<rows, request, overlapped>>

TemplateNext ==
    \/ \E e \in Editors, t \in Templates, v \in Versions :
          \/ CreateTemplate(e, t, v)
          \/ ImportTemplate(e, t, v)
          \/ CreateVersion(e, t, v)
          \/ \E source \in Templates : CopyTemplate(e, source, t, v)
    \/ \E e \in Editors, t \in Templates :
          \/ \E active \in {"active", "inactive"} : UpdateTemplate(e, t, active)
          \/ DeleteAsk(e, t)
    \/ \E e \in Editors, v \in Versions :
          \/ \E item \in Item : InsertItem(e, v, item)
          \/ \E old \in items[v] : DeleteItem(e, v, old)
          \/ \E old \in items[v], new \in Item : UpdateItem(e, v, old, new)
          \/ PublishCount(e, v)
          \/ RetireAsk(e, v)
    \/ \E e \in Editors :
          \/ CommitItem(e) \/ PublishInspect(e) \/ PublishWrite(e)
          \/ WriteRefused(e) \/ RetireWrite(e) \/ DeleteWrite(e)
    \/ \E r \in Reviews : CreateReview(r)

TemplateSpec == TemplateInit /\ [][TemplateNext]_templateVars

-----------------------------------------------------------------------------
(* Properties *)

(* What row n of a version's history put into it; row 0 is the version's     *)
(* creation.  Replayed is what the rows leave in it: what one of them put    *)
(* there and no later one took away.                                         *)
Put(v, n) == IF n = 0 THEN base[v] ELSE changes[v][n].after
TakenAfter(v, n) == UNION {changes[v][m].before : m \in (n + 1)..Len(changes[v])}
Replayed(v) == UNION {Put(v, n) \ TakenAfter(v, n) : n \in 0..Len(changes[v])}

(* The change history explains a version: applied in order to the items it   *)
(* was created with, the rows of template_changes give the items it has now, *)
(* and every row starts from an item that was there (templates.go:480, 543,  *)
(* 566: the row is written in the transaction that makes the change).        *)
HistoryExplains ==
    \A v \in Versions :
        /\ Replayed(v) = items[v]
        /\ \A n \in DOMAIN changes[v] :
              changes[v][n].before \subseteq UNION {Put(v, m) : m \in 0..(n - 1)}

(* What was published is never taken back: the items a published version     *)
(* had stay in it word for word, through every edit under way when it was    *)
(* published (templates.go:519, 558: the statement that changes or removes   *)
(* an item asks for a draft while it holds the version's lock).              *)
PublishedStays ==
    [][\A v \in Versions :
          status[v] \in {"PUBLISHED", "RETIRED"} /\ status'[v] # "deleted"
              => items[v] \subseteq items'[v]]_templateVars

(* The version a review was given goes on explaining what it holds: it is    *)
(* there, with exactly the items that applied to the review (architecture.md *)
(* :43, "the immutable checklist of the moment it was published";            *)
(* templates.go:161).  Only a template written by a request that another one *)
(* had overtaken is excepted: an item may then be committed after its        *)
(* version was published, or a version be deleted that just was.             *)
SnapshotsAreExplained ==
    \A r \in Reviews, t \in Templates \ overlapped :
        LET v == held[r].given[t]
        IN  v # 0 => /\ status[v] # "deleted"
                     /\ {h.item : h \in {h \in held[r].items : h.version = v}}
                           = {i \in items[v] : Applies(r, i)}

(* No review is given an item nobody can answer, and a new one would not be  *)
(* either: publishing refuses such a version (templates.go:602, 720), with   *)
(* the same exception for an item changed between its inspection and the     *)
(* write.                                                                    *)
AssignedIsAnswerable ==
    /\ Reported \subseteq overlapped
    /\ \A r \in Reviews : \A h \in held[r].items :
          Usable(h.item.text) \/ of[h.version] \in overlapped

(* The simulator tells what the engine does: the items a review was given    *)
(* are those it reports as applied for the same service, and of an item left *)
(* out for its rule it never lists only conditions the service meets, nor of *)
(* an applied one only conditions it does not, unless the list is full       *)
(* (templates.go:1275, reviews.go:561: "so that explaining a rule and        *)
(* applying it cannot drift").                                               *)
ExplanationFits ==
    /\ ConditionsDecide
    /\ \A r \in Reviews, t \in Templates \ overlapped :
          LET v == held[r].given[t]
          IN  v # 0 => \A i \in items[v] :
                LET told == simulateRules(i, Profile[r])
                IN  /\ told.applied <=> [version |-> v, item |-> i] \in held[r].items
                    /\ Len(told.conditions) < Listed =>
                          /\ told.applied => ~ NoneMet(told.conditions)
                          /\ ~ told.applied /\ told.conditions # <<>>
                                => ~ AllMet(told.conditions)
=============================================================================
