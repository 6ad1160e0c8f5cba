--------------------------- MODULE ReviewWorkflow ---------------------------
(***************************************************************************)
(* One security review, from draft to closure, as the handlers of          *)
(* internal/web/reviews.go, evidence.go, account.go and admin.go move it.  *)
(*                                                                         *)
(* The server is a set of request goroutines over one PostgreSQL database. *)
(* A handler first authenticates and runs its checks with separate         *)
(* queries, and only then issues the statement or transaction that writes. *)
(* Both halves are actions here: XxxCheck puts a request, with whatever    *)
(* the handler remembers, into a free goroutine; Xxx is the write, guarded *)
(* by exactly the conditions the SQL carries.  Between the two halves      *)
(* anything else may happen.  A statement or a committed transaction is    *)
(* atomic.                                                                 *)
(***************************************************************************)
EXTENDS Naturals, Sequences

CONSTANTS
    Users,            \* accounts
    Requester,        \* who asked for the review
    Editors,          \* requester, builder, developer, operator of the review
    InitialRoles,     \* the roles the accounts start with
    RoleChoices,      \* role sets an administrator may give
    Mutable,          \* accounts whose roles and activity may change (bound)
    Items,            \* checklist items that may be in the snapshot
    Pinned,           \* items a template administrator never excludes
    Required,         \* items that must be answered before submission
    NeedsEvidence,    \* items that must carry a file before submission
    AnswerChoices,    \* answers the author gives in this instance (bound)
    Handlers,         \* request goroutines (bound on concurrency)
    Operations,       \* operations clients issue in this instance (bound)
    Failing,          \* queries that may fail unnoticed in this instance
    ApprovalModes,    \* values the approval_enabled setting may take
    AllowSelfReview,  \* setting allow_self_review
    RequireReviewer,  \* setting require_reviewer_assignment
    MaxFiles,         \* bound on evidence files per item
    MaxChanges,       \* bound on change requests per item
    MaxDecisions,     \* bound on approver decisions
    None              \* SQL NULL in a user column

Roles     == {"REQUESTER", "SECURITY_REVIEWER", "APPROVER"}
Statuses  == {"DRAFT", "SUBMITTED", "RESUBMITTED", "REVIEWING",
              "CHANGE_REQUESTED", "APPROVAL_PENDING", "APPROVED", "REJECTED",
              "CLOSED", "CANCELLED"}
Results   == {"APPROVED", "CONDITIONAL", "REJECTED"}
\* A response row says not applicable, or is complete, or has only its
\* applicability; a row that only names an assignee is blank.
Answers   == {"na", "answered", "unfinished", "blank"}
Decisions == {"APPROVED", "REJECTED"}

\* What a handler asks and goes on without when the query fails: who asked for
\* the review, how many corrections are open, and the workflow settings.
Unnoticed == {"requester", "corrections", "settings"}

ASSUME ConstantsAssumption ==
    /\ None \notin Users
    /\ Requester \in Users
    /\ Editors \subseteq Users
    /\ Mutable \subseteq Users
    /\ InitialRoles \in [Users -> SUBSET Roles]
    /\ RoleChoices \subseteq SUBSET Roles
    /\ Pinned \subseteq Items
    /\ Required \subseteq Items
    /\ NeedsEvidence \subseteq Items
    /\ AnswerChoices \subseteq Answers \ {"blank"}
    /\ Failing \subseteq Unnoticed
    /\ ApprovalModes \subseteq BOOLEAN /\ ApprovalModes # {}
    /\ AllowSelfReview \in BOOLEAN
    /\ RequireReviewer \in BOOLEAN
    /\ MaxFiles \in Nat /\ MaxChanges \in Nat /\ MaxDecisions \in Nat

VARIABLES
    \* the row of review_requests, and of its single submissions revision
    status, submission, reviewer, approver, finalResult, approvedAt,
    \* approvals: one row per decision, oldest first
    approvals,
    \* submission_items, responses, evidences; and, as history, the items the
    \* check of the last submission, or conclusion, saw otherwise
    items, response, assignee, evidence, unseen,
    \* review_results; newer is the comparison staleVerdictSQL makes between
    \* the timestamps, moved what later transactions did to the judged content
    verdict, newer, moved,
    \* change_requests, in the order they were raised on each item
    changes,
    \* users, user_roles, review_participants, settings
    active, roles, contributors, approvalEnabled,
    \* the requests being served
    req

row       == <<status, submission, reviewer, approver, finalResult, approvedAt>>
checklist == <<items, response, assignee, evidence, unseen>>
judgement == <<verdict, newer, moved>>
people    == <<active, roles, contributors>>
stored    == <<row, approvals, checklist, judgement, changes, people,
               approvalEnabled>>
vars      == <<stored, req>>

-----------------------------------------------------------------------------
(* Requests *)

Ops == {"idle", "update", "save", "assign", "upload", "uploading", "overtaken",
        "deleteEvidence", "invite", "remove", "release", "releaseOpen",
        "submit", "begin", "result", "bulk", "judging", "change", "bulkChange",
        "done", "verify", "complete", "conclude", "requestApproval", "decide",
        "withdraw", "cancel", "reopen", "close"}

\* What a handler remembers between its checks and its write: the operation
\* and the phase it is in, the session's user, the items or the nth file or
\* change request of an item, one or two named users, and one more word.  What
\* it does not know, and only the history keeps, is since: the items others
\* wrote since its checks, and "uncounted": that one of those checks failed.
Modes   == {"overwrite", "keep"}
Words   == {"", "uncounted"} \cup Modes \cup Statuses \cup Results
Request == [op : Ops, by : Users \cup {None}, items : SUBSET Items, nth : Nat,
            to : Users \cup {None}, also : Users \cup {None}, as : Words,
            since : SUBSET Items]

Idle == [op |-> "idle", by |-> None, items |-> {}, nth |-> 0, to |-> None,
         also |-> None, as |-> "", since |-> {}]

Call(op, u) == [Idle EXCEPT !.op = op, !.by = u]

\* A client may call op on goroutine h; the handler's checks passed.
Free(h, op)     == op \in Operations /\ req[h] = Idle
Accept(h, call) == req' = [req EXCEPT ![h] = call] /\ UNCHANGED stored

Phase(h, op) == req' = [req EXCEPT ![h].op = op]
Finish(h)    == req' = [req EXCEPT ![h] = Idle]

\* The requests whose checks read the checklist and whose write does not.
Trusting == {"submit", "complete", "conclude", "requestApproval", "decide"}

Missed(r, S) == IF r.op \in Trusting THEN [r EXCEPT !.since = @ \cup S] ELSE r

\* Finish a request that wrote the items S, which the others do not notice.
Wrote(h, S) ==
    req' = [g \in Handlers |-> IF g = h THEN Idle ELSE Missed(req[g], S)]

\* An operation of a single statement or transaction with no earlier check
\* needs a goroutine only for the step itself, whatever the others are doing.
AtOnce(op) == op \in Operations

-----------------------------------------------------------------------------
(* Who may do what *)

\* stillHolds: an open account that holds the role.  Authentication asks the
\* same of the caller.
Holds(u, role) == u \in Users /\ active[u] /\ role \in roles[u]

OnDesk     == status \in {"DRAFT", "CHANGE_REQUESTED"}
CanEdit(u) == u \in Users /\ active[u] /\ OnDesk /\ u \in Editors \cup contributors

\* selfReviewBlocked, which blocks nobody when it cannot read who asked.
SelfReviewBlocked(u) == ~AllowSelfReview /\ u = Requester

LetThrough(u) == ~SelfReviewBlocked(u) \/ "requester" \in Failing

CanReview(u) == /\ Holds(u, "SECURITY_REVIEWER")
                /\ LetThrough(u)
                /\ reviewer = u

CanAccessAs(u) == u \in Editors \cup contributors \cup {reviewer, approver}

ApproverJudgedIt == ~AllowSelfReview /\ reviewer # None /\ reviewer = approver

ReviewerGone == ~Holds(reviewer, "SECURITY_REVIEWER")
ApproverGone == ~Holds(approver, "APPROVER") \/ ApproverJudgedIt

CanAccess(u) == /\ u \in Users /\ active[u]
                /\ \/ "SECURITY_REVIEWER" \in roles[u]
                   \/ CanAccessAs(u)
                   \/ /\ "APPROVER" \in roles[u]
                      /\ status = "APPROVAL_PENDING" /\ ApproverGone

OwnVerdictBlocked(u) == /\ ~AllowSelfReview
                        /\ reviewer = u \/ \E i \in items : verdict[i] = u

NamedAssigneesAcceptable(rv, ap) ==
    /\ rv = None \/ Holds(rv, "SECURITY_REVIEWER")
    /\ ap = None \/ Holds(ap, "APPROVER")
    /\ \/ AllowSelfReview
       \/ /\ rv = None \/ rv # ap
          /\ Requester \notin {rv, ap} \/ "requester" \in Failing

-----------------------------------------------------------------------------
(* What is still in the way of completion *)

Judged(i)     == verdict[i] # None
Unverified(i) == \E n \in DOMAIN changes[i] : changes[i][n].status # "VERIFIED"
OpenOn(i)     == \E n \in DOMAIN changes[i] : changes[i][n].status = "OPEN"

\* staleVerdicts joins responses with an inner join: no row, no staleness.
StaleForGuard(i) == Judged(i) /\ newer[i] /\ response[i] # "none"

GuardReady  == \A i \in items :
                  Judged(i) /\ ~Unverified(i) /\ ~StaleForGuard(i)

FilledIn ==
    /\ items # {}
    /\ \A i \in items \cap Required : response[i] \in {"na", "answered"}
    /\ \A i \in items \cap NeedsEvidence :
          \/ response[i] = "na"
          \/ i \notin Required /\ response[i] \in {"none", "blank"}
          \/ \E n \in DOMAIN evidence[i] : evidence[i][n] = "live"

Staffed == /\ RequireReviewer => reviewer # None
           /\ approvalEnabled => approver # None

\* Variant: a submission that does not ask about corrections still owed.
Submittable_changesIgnored(failed) ==
    FilledIn /\ ("settings" \notin failed => Staffed)

\* validateSubmission: a failed count of open corrections reads as zero, and
\* settings that cannot be read as settings that ask for nobody.
Submittable(failed) ==
    /\ FilledIn
    /\ "corrections" \notin failed => \A i \in items : ~OpenOn(i)
    /\ "settings" \notin failed => Staffed

-----------------------------------------------------------------------------
(* A response row touched after a verdict makes the timestamps read "newer"; *)
(* content that a transaction begun after a verdict changed has "moved".     *)

Touch(S) == newer' = [i \in Items |-> newer[i] \/ (i \in S /\ Judged(i))]
Move(S)  == moved' = [i \in Items |-> moved[i] \/ (i \in S /\ Judged(i))]

\* The verdict is stamped no earlier than anything committed on the item; a
\* transaction that began before it and commits later carries an older stamp.
Judge(h, S) ==
    /\ verdict' = [i \in Items |-> IF i \in S THEN req[h].by ELSE verdict[i]]
    /\ newer'   = [i \in Items |-> newer[i] /\ i \notin S]
    /\ moved'   = [i \in Items |-> moved[i] /\ i \notin S]
    /\ req' = [g \in Handlers |->
                 CASE g = h -> Idle
                   [] g # h /\ req[g].op = "uploading" /\ req[g].items \subseteq S
                        -> [req[g] EXCEPT !.op = "overtaken"]
                   [] OTHER -> Missed(req[g], S)]

\* A write that lands after its author handed the review over.
Late(S) == unseen' = IF OnDesk THEN unseen ELSE unseen \cup S

ReleaseRowsOf(u) ==
    LET S == {i \in items : assignee[i] = u /\ response[i] # "none"}
    IN  /\ assignee' = [i \in Items |-> IF i \in S THEN None ELSE assignee[i]]
        /\ Touch(S)

-----------------------------------------------------------------------------
(* Created by createReviewRequest: a draft with the snapshot the rules       *)
(* produced, which may hold any of the items that are not pinned, or none.   *)

Init ==
    /\ status = "DRAFT" /\ submission = "DRAFT"
    /\ reviewer = None /\ approver = None
    /\ finalResult = "" /\ approvedAt = FALSE
    /\ approvals = <<>>
    /\ items \in {S \in SUBSET Items : Pinned \subseteq S}
    /\ response = [i \in Items |-> "none"]
    /\ assignee = [i \in Items |-> None]
    /\ evidence = [i \in Items |-> <<>>]
    /\ unseen = {}
    /\ verdict = [i \in Items |-> None]
    /\ newer = [i \in Items |-> FALSE]
    /\ moved = [i \in Items |-> FALSE]
    /\ changes = [i \in Items |-> <<>>]
    /\ active = [u \in Users |-> TRUE]
    /\ roles = InitialRoles
    /\ contributors = {}
    /\ approvalEnabled \in ApprovalModes
    /\ req = [h \in Handlers |-> Idle]

-----------------------------------------------------------------------------
(* The author's desk *)

UpdateCheck(h, u, rv, ap) ==
    /\ Free(h, "update")
    /\ CanEdit(u)
    /\ NamedAssigneesAcceptable(rv, ap)
    /\ Accept(h, [Call("update", u) EXCEPT !.to = rv, !.also = ap])

Update(h) ==
    /\ req[h].op = "update"
    /\ OnDesk
    /\ reviewer' = IF req[h].to = None THEN reviewer ELSE req[h].to
    /\ approver' = IF req[h].also = None THEN approver ELSE req[h].also
    /\ Finish(h)
    /\ UNCHANGED <<status, submission, finalResult, approvedAt, approvals,
                   checklist, judgement, changes, people, approvalEnabled>>

\* The same route for an administrator who may not edit the review.
ReassignApprover(ap) ==
    /\ AtOnce("reassign")
    /\ status = "APPROVAL_PENDING"
    /\ "APPROVER" \in roles[ap]
    /\ approver' = ap
    /\ UNCHANGED <<status, submission, reviewer, finalResult, approvedAt,
                   approvals, checklist, judgement, changes, people,
                   approvalEnabled, req>>

\* A template administrator adjusts the snapshot of a draft.
IncludeItem(i) ==
    /\ AtOnce("override")
    /\ status = "DRAFT"
    /\ i \notin items
    /\ items' = items \cup {i}
    /\ req' = [h \in Handlers |-> Missed(req[h], {i})]
    /\ UNCHANGED <<row, approvals, response, assignee, evidence, unseen,
                   judgement, changes, people, approvalEnabled>>

ExcludeItem(i) ==
    /\ AtOnce("override")
    /\ status = "DRAFT"
    /\ i \in items \ Pinned
    /\ response[i] = "none" /\ evidence[i] = <<>>
    /\ items' = items \ {i}
    /\ UNCHANGED <<row, approvals, response, assignee, evidence, unseen,
                   judgement, changes, people, approvalEnabled, req>>

\* saveResponse, and bulkSaveResponses with and without overwrite.
SaveCheck(h, u, S, a, mode) ==
    /\ Free(h, "save")
    /\ CanEdit(u)
    /\ a = None \/ CanAccessAs(a) \/ (\E i \in Items : S = {i} /\ a = assignee[i])
    /\ Accept(h, [Call("save", u) EXCEPT !.items = S, !.to = a, !.as = mode])

Save(h) ==
    /\ req[h].op = "save"
    /\ LET S == {i \in req[h].items \cap items :
                    req[h].as = "overwrite" \/ response[i] = "none"}
       IN  /\ \E ans \in AnswerChoices :
                 response' = [i \in Items |-> IF i \in S THEN ans ELSE response[i]]
           /\ assignee' = [i \in Items |-> IF i \in S THEN req[h].to ELSE assignee[i]]
           /\ Touch(S) /\ Move(S)
           /\ Late(S) /\ Wrote(h, S)
    /\ UNCHANGED <<row, approvals, items, evidence, verdict, changes, people,
                   approvalEnabled>>

\* bulkAssign: the assignee only, creating the response row when there is none.
AssignCheck(h, u, S, a) ==
    /\ Free(h, "assign")
    /\ CanEdit(u)
    /\ a = None \/ CanAccessAs(a)
    /\ Accept(h, [Call("assign", u) EXCEPT !.items = S, !.to = a])

Assign(h) ==
    /\ req[h].op = "assign"
    /\ LET S == req[h].items \cap items
       IN  /\ response' = [i \in Items |-> IF i \in S /\ response[i] = "none"
                                           THEN "blank" ELSE response[i]]
           /\ assignee' = [i \in Items |-> IF i \in S THEN req[h].to ELSE assignee[i]]
           /\ Touch(S)
           /\ Wrote(h, S)
    /\ UNCHANGED <<row, approvals, items, evidence, unseen, verdict, moved,
                   changes, people, approvalEnabled>>

\* uploadEvidence (n = 0: a new file) and newEvidenceVersion (of the nth file).
UploadCheck(h, u, i, n) ==
    /\ Free(h, "upload")
    /\ CanEdit(u)
    /\ IF n = 0 THEN Len(evidence[i]) < MaxFiles
       ELSE n \in DOMAIN evidence[i] /\ evidence[i][n] = "live"
    /\ Accept(h, [Call("upload", u) EXCEPT !.items = {i}, !.nth = n])

\* The body has arrived; BEGIN fixes the timestamp the rows will carry.
UploadBegin(h) ==
    /\ req[h].op = "upload"
    /\ Phase(h, "uploading")
    /\ UNCHANGED stored

UploadCommit(h) ==
    /\ req[h].op \in {"uploading", "overtaken"}
    /\ \E i \in items :
          /\ req[h].items = {i}
          /\ IF req[h].nth = 0
             THEN /\ Len(evidence[i]) < MaxFiles
                  /\ evidence' = [evidence EXCEPT ![i] = Append(@, "live")]
             ELSE UNCHANGED evidence
          /\ LET S == {j \in {i} : req[h].op = "uploading"}
             IN  /\ Touch(S)
                 /\ Move({j \in S : req[h].nth = 0 \/ evidence[j][req[h].nth] = "live"})
          /\ Wrote(h, {i})
    /\ UNCHANGED <<row, approvals, items, response, assignee, unseen, verdict,
                   changes, people, approvalEnabled>>

DeleteEvidenceCheck(h, u, i, n) ==
    /\ Free(h, "deleteEvidence")
    /\ CanEdit(u)
    /\ n \in DOMAIN evidence[i] /\ evidence[i][n] = "live"
    /\ Accept(h, [Call("deleteEvidence", u) EXCEPT !.items = {i}, !.nth = n])

DeleteEvidence(h) ==
    /\ req[h].op = "deleteEvidence"
    /\ \E i \in Items :
          /\ req[h].items = {i}
          /\ evidence[i][req[h].nth] = "live"
          /\ evidence' = [evidence EXCEPT ![i][req[h].nth] = "deleted"]
          /\ Touch({i}) /\ Move({i})
          /\ Late({i}) /\ Wrote(h, {i})
    /\ UNCHANGED <<row, approvals, items, response, assignee, verdict, changes,
                   people, approvalEnabled>>

\* addParticipant as CONTRIBUTOR; removeParticipant, or addParticipant as
\* VIEWER, which also lets go of the person's items in a second statement.
InviteCheck(h, u, p) ==
    Free(h, "invite") /\ CanEdit(u) /\ Accept(h, [Call("invite", u) EXCEPT !.to = p])

Invite(h) ==
    /\ req[h].op = "invite"
    /\ contributors' = contributors \cup {req[h].to}
    /\ Finish(h)
    /\ UNCHANGED <<row, approvals, checklist, judgement, changes, active, roles,
                   approvalEnabled>>

RemoveCheck(h, u, p) ==
    Free(h, "remove") /\ CanEdit(u) /\ Accept(h, [Call("remove", u) EXCEPT !.to = p])

Remove(h) ==
    /\ req[h].op = "remove"
    /\ contributors' = contributors \ {req[h].to}
    /\ Phase(h, "release")
    /\ UNCHANGED <<row, approvals, checklist, judgement, changes, active, roles,
                   approvalEnabled>>

Release(h) ==
    /\ req[h].op = "release"
    /\ ReleaseRowsOf(req[h].to)
    /\ Finish(h)
    /\ UNCHANGED <<row, approvals, items, response, evidence, unseen, verdict,
                   moved, changes, people, approvalEnabled>>

\* validateSubmission runs before the transaction that locks the row.
SubmitCheck(h, u, failed) ==
    /\ Free(h, "submit")
    /\ CanEdit(u)
    /\ Submittable(failed)
    /\ Accept(h, [Call("submit", u) EXCEPT
                     !.as = IF "corrections" \in failed THEN "uncounted" ELSE ""])

\* Variant: any status but DRAFT leaves the empty string behind.
NextSubmissionState_unknown == IF status = "DRAFT" THEN "SUBMITTED" ELSE ""

NextSubmissionState == IF status = "DRAFT" THEN "SUBMITTED" ELSE "RESUBMITTED"

\* Variant: the submission row is written elsewhere, or not at all.
Submit_rowOnly(h) ==
    /\ req[h].op = "submit"
    /\ OnDesk
    /\ status' = NextSubmissionState
    /\ Finish(h)
    /\ UNCHANGED <<submission, reviewer, approver, finalResult, approvedAt,
                   approvals, checklist, judgement, changes, people,
                   approvalEnabled>>

Submit(h) ==
    /\ req[h].op = "submit"
    /\ OnDesk
    /\ status' = NextSubmissionState
    /\ submission' = NextSubmissionState
    /\ unseen' = req[h].since \cup {i \in items : req[h].as = "uncounted" /\ OpenOn(i)}
    /\ Finish(h)
    /\ UNCHANGED <<reviewer, approver, finalResult, approvedAt, approvals,
                   items, response, assignee, evidence, judgement, changes,
                   people, approvalEnabled>>

\* Only the requester cancels, from the status the handler read.
CancelCheck(h) ==
    /\ Free(h, "cancel")
    /\ Holds(Requester, "REQUESTER")
    /\ status \notin {"APPROVED", "REJECTED", "CLOSED", "CANCELLED"}
    /\ Accept(h, [Call("cancel", Requester) EXCEPT !.as = status])

Cancel(h) ==
    /\ req[h].op = "cancel"
    /\ status = req[h].as
    /\ status' = "CANCELLED"
    /\ Finish(h)
    /\ UNCHANGED <<submission, reviewer, approver, finalResult, approvedAt,
                   approvals, checklist, judgement, changes, people,
                   approvalEnabled>>

-----------------------------------------------------------------------------
(* The reviewer *)

BeginCheck(h, u) ==
    /\ Free(h, "begin")
    /\ Holds(u, "SECURITY_REVIEWER") /\ LetThrough(u)
    /\ Accept(h, Call("begin", u))

\* Variant: whoever presses the button first takes the review.
Begin_firstCome(h) ==
    /\ req[h].op = "begin"
    /\ status \in {"SUBMITTED", "RESUBMITTED"}
    /\ status' = "REVIEWING"
    /\ reviewer' = req[h].by
    /\ Finish(h)
    /\ UNCHANGED <<submission, approver, finalResult, approvedAt, approvals,
                   checklist, judgement, changes, people, approvalEnabled>>

Begin(h) ==
    /\ req[h].op = "begin"
    /\ \/ status \in {"SUBMITTED", "RESUBMITTED"} /\ (reviewer = req[h].by \/ ReviewerGone)
       \/ status = "REVIEWING" /\ ReviewerGone
    /\ status' = "REVIEWING"
    /\ reviewer' = IF ReviewerGone THEN req[h].by ELSE reviewer
    /\ Finish(h)
    /\ UNCHANGED <<submission, approver, finalResult, approvedAt, approvals,
                   checklist, judgement, changes, people, approvalEnabled>>

\* saveReviewResult: the statement itself asks for REVIEWING.
ResultCheck(h, u, i) ==
    Free(h, "result") /\ CanReview(u) /\ Accept(h, [Call("result", u) EXCEPT !.items = {i}])

SaveResult(h) ==
    /\ req[h].op = "result"
    /\ status = "REVIEWING"
    /\ Judge(h, req[h].items \cap items)
    /\ UNCHANGED <<row, approvals, checklist, changes, people, approvalEnabled>>

\* bulkSaveReviewResults: permission, body, then the status, then the insert.
BulkCheck(h, u, S, mode) ==
    Free(h, "bulk") /\ CanReview(u) /\ Accept(h, [Call("bulk", u) EXCEPT !.items = S, !.as = mode])

BulkRead(h) ==
    /\ req[h].op = "bulk"
    /\ status = "REVIEWING"
    /\ Phase(h, "judging")
    /\ UNCHANGED stored

BulkSave(h) ==
    /\ req[h].op = "judging"
    /\ Judge(h, {i \in req[h].items \cap items :
                    req[h].as = "overwrite" \/ ~Judged(i)})
    /\ UNCHANGED <<row, approvals, checklist, changes, people, approvalEnabled>>

NewChange(a) == [status |-> "OPEN", to |-> a]

RaiseOn(S, a) ==
    /\ \A i \in S : Len(changes[i]) < MaxChanges
    /\ changes' = [i \in Items |-> IF i \in S THEN Append(changes[i], NewChange(a))
                                   ELSE changes[i]]

ChangeCheck(h, u, i, a) ==
    /\ Free(h, "change")
    /\ CanReview(u) /\ (a = None \/ CanAccessAs(a)) /\ i \in items
    /\ Accept(h, [Call("change", u) EXCEPT !.items = {i}, !.to = a])

CreateChange(h) ==
    /\ req[h].op = "change"
    /\ status = "REVIEWING"
    /\ RaiseOn(req[h].items, req[h].to)
    /\ status' = "CHANGE_REQUESTED"
    /\ Wrote(h, req[h].items)
    /\ UNCHANGED <<submission, reviewer, approver, finalResult, approvedAt,
                   approvals, checklist, judgement, people, approvalEnabled>>

BulkChangeCheck(h, u, S, a) ==
    /\ Free(h, "bulkChange")
    /\ CanReview(u) /\ (a = None \/ CanAccessAs(a))
    /\ Accept(h, [Call("bulkChange", u) EXCEPT !.items = S, !.to = a])

BulkChange(h) ==
    /\ req[h].op = "bulkChange"
    /\ status = "REVIEWING"
    /\ LET S == {i \in req[h].items \cap items : ~Unverified(i)}
       IN  S # {} /\ RaiseOn(S, req[h].to) /\ Wrote(h, S)
    /\ status' = "CHANGE_REQUESTED"
    /\ UNCHANGED <<submission, reviewer, approver, finalResult, approvedAt,
                   approvals, checklist, judgement, people, approvalEnabled>>

\* updateChangeRequest to DONE, by its assignee or an editor, and to VERIFIED,
\* by the reviewer.
DoneCheck(h, u, i, n) ==
    /\ Free(h, "done")
    /\ n \in DOMAIN changes[i]
    /\ CanAccess(u) /\ (u = changes[i][n].to \/ CanEdit(u))
    /\ Accept(h, [Call("done", u) EXCEPT !.items = {i}, !.nth = n])

VerifyCheck(h, u, i, n) ==
    /\ Free(h, "verify")
    /\ n \in DOMAIN changes[i]
    /\ CanAccess(u) /\ CanReview(u)
    /\ Accept(h, [Call("verify", u) EXCEPT !.items = {i}, !.nth = n])

MoveChange(h, from, next) ==
    /\ \E i \in Items :
          /\ req[h].items = {i}
          /\ changes[i][req[h].nth].status \in from
          /\ changes' = [changes EXCEPT ![i][req[h].nth].status = next]
    /\ Finish(h)
    /\ UNCHANGED <<row, approvals, checklist, judgement, people, approvalEnabled>>

\* Variant: pressing "done" again after verification.
Done_again(h) == req[h].op = "done" /\ MoveChange(h, {"OPEN", "VERIFIED"}, "DONE")

Done(h)   == req[h].op = "done" /\ MoveChange(h, {"OPEN"}, "DONE")
Verify(h) == req[h].op = "verify" /\ MoveChange(h, {"OPEN", "DONE"}, "VERIFIED")

\* completeReview: the blockers are counted, then the body is read, then the
\* setting decides what the conclusion leads to, then the row is written.
\* Variant: a blocker count that failed reads as zero.
CompleteCheck_uncounted(h, u) ==
    Free(h, "complete") /\ CanReview(u) /\ Accept(h, Call("complete", u))

CompleteCheck(h, u) ==
    Free(h, "complete") /\ CanReview(u) /\ GuardReady /\ Accept(h, Call("complete", u))

CompleteRead(h, res, phase) ==
    /\ req[h].op = "complete"
    /\ phase = "requestApproval" => approvalEnabled
    /\ phase = "conclude" => ~approvalEnabled \/ "settings" \in Failing
    /\ req' = [req EXCEPT ![h].as = res, ![h].op = phase]
    /\ UNCHANGED stored

Conclusion(h) == IF req[h].op = "requestApproval" THEN "APPROVAL_PENDING"
                 ELSE IF req[h].as = "REJECTED" THEN "REJECTED" ELSE "APPROVED"

Complete(h) ==
    /\ req[h].op \in {"conclude", "requestApproval"}
    /\ status = "REVIEWING"
    /\ status' = Conclusion(h)
    /\ finalResult' = req[h].as
    /\ approvedAt' = (Conclusion(h) = "APPROVED")
    /\ unseen' = unseen \cup req[h].since
    /\ Finish(h)
    /\ UNCHANGED <<submission, reviewer, approver, approvals, items, response,
                   assignee, evidence, judgement, changes, people,
                   approvalEnabled>>

\* withdrawApproval and reopenRejectedReview: who may is read first, the
\* statement asks for the status alone.
MayTakeBack(u, from) ==
    /\ Holds(u, "SECURITY_REVIEWER") /\ LetThrough(u)
    /\ status = from /\ (reviewer = u \/ ReviewerGone)

WithdrawCheck(h, u) ==
    Free(h, "withdraw") /\ MayTakeBack(u, "APPROVAL_PENDING") /\ Accept(h, Call("withdraw", u))

\* Variants: the withdrawn conclusion stays; the statement trusts the check.
Withdraw_conclusionKept(h) ==
    /\ req[h].op = "withdraw"
    /\ status = "APPROVAL_PENDING"
    /\ status' = "REVIEWING"
    /\ Finish(h)
    /\ UNCHANGED <<submission, reviewer, approver, finalResult, approvedAt,
                   approvals, checklist, judgement, changes, people,
                   approvalEnabled>>

Withdraw_unguarded(h) ==
    /\ req[h].op = "withdraw"
    /\ status' = "REVIEWING"
    /\ finalResult' = ""
    /\ Finish(h)
    /\ UNCHANGED <<submission, reviewer, approver, approvedAt, approvals,
                   checklist, judgement, changes, people, approvalEnabled>>

Withdraw(h) ==
    /\ req[h].op = "withdraw"
    /\ status = "APPROVAL_PENDING"
    /\ status' = "REVIEWING"
    /\ finalResult' = ""
    /\ Finish(h)
    /\ UNCHANGED <<submission, reviewer, approver, approvedAt, approvals,
                   checklist, judgement, changes, people, approvalEnabled>>

ReopenCheck(h, u) ==
    Free(h, "reopen") /\ MayTakeBack(u, "REJECTED") /\ Accept(h, Call("reopen", u))

Reopen(h) ==
    /\ req[h].op = "reopen"
    /\ status = "REJECTED"
    /\ status' = "CHANGE_REQUESTED"
    /\ finalResult' = ""
    /\ approvedAt' = FALSE
    /\ Finish(h)
    /\ UNCHANGED <<submission, reviewer, approver, approvals, checklist,
                   judgement, changes, people, approvalEnabled>>

CloseCheck(h, u) ==
    Free(h, "close") /\ Holds(u, "SECURITY_REVIEWER") /\ Accept(h, Call("close", u))

Close(h) ==
    /\ req[h].op = "close"
    /\ reviewer = req[h].by
    /\ status \in {"APPROVED", "REJECTED"}
    /\ status' = "CLOSED"
    /\ Finish(h)
    /\ UNCHANGED <<submission, reviewer, approver, finalResult, approvedAt,
                   approvals, checklist, judgement, changes, people,
                   approvalEnabled>>

-----------------------------------------------------------------------------
(* The approver *)

\* Variant: only the reviewer column is asked, not who recorded the verdicts.
DecideCheck_reviewerOnly(h, u, d) ==
    /\ Free(h, "decide")
    /\ Holds(u, "APPROVER")
    /\ LetThrough(u) /\ reviewer # u
    /\ Accept(h, [Call("decide", u) EXCEPT !.as = d])

DecideCheck(h, u, d) ==
    /\ Free(h, "decide")
    /\ Holds(u, "APPROVER")
    /\ LetThrough(u) /\ ~OwnVerdictBlocked(u)
    /\ Accept(h, [Call("decide", u) EXCEPT !.as = d])

\* Variant: the decision is written whatever became of the review meanwhile.
Decide_unguarded(h) ==
    /\ req[h].op = "decide"
    /\ Len(approvals) < MaxDecisions
    /\ status' = req[h].as
    /\ approver' = req[h].by
    /\ finalResult' = IF req[h].as = "REJECTED" THEN "REJECTED" ELSE finalResult
    /\ approvedAt' = (approvedAt \/ req[h].as = "APPROVED")
    /\ approvals' = Append(approvals, [by |-> req[h].by, decision |-> req[h].as])
    /\ Finish(h)
    /\ UNCHANGED <<submission, reviewer, checklist, judgement, changes, people,
                   approvalEnabled>>

\* Variant: the decision taken over from a colleague stays in their name.
Decide_unrecorded(h) ==
    /\ req[h].op = "decide"
    /\ status = "APPROVAL_PENDING"
    /\ approver = req[h].by \/ ApproverGone
    /\ Len(approvals) < MaxDecisions
    /\ status' = req[h].as
    /\ finalResult' = IF req[h].as = "REJECTED" THEN "REJECTED" ELSE finalResult
    /\ approvedAt' = (approvedAt \/ req[h].as = "APPROVED")
    /\ approvals' = Append(approvals, [by |-> req[h].by, decision |-> req[h].as])
    /\ Finish(h)
    /\ UNCHANGED <<submission, reviewer, approver, checklist, judgement, changes,
                   people, approvalEnabled>>

\* One transaction: the status, the approver who takes the decision over, and
\* the approvals row.
Decide(h) ==
    /\ req[h].op = "decide"
    /\ status = "APPROVAL_PENDING"
    /\ approver = req[h].by \/ ApproverGone
    /\ Len(approvals) < MaxDecisions
    /\ status' = req[h].as
    /\ approver' = IF ApproverGone THEN req[h].by ELSE approver
    /\ finalResult' = IF req[h].as = "REJECTED" THEN "REJECTED" ELSE finalResult
    /\ approvedAt' = (approvedAt \/ req[h].as = "APPROVED")
    /\ approvals' = Append(approvals, [by |-> req[h].by, decision |-> req[h].as])
    /\ Finish(h)
    /\ UNCHANGED <<submission, reviewer, checklist, judgement, changes, people,
                   approvalEnabled>>

-----------------------------------------------------------------------------
(* Administrators *)

\* setUserActive: closing an account releases its items in a later statement.
Deactivate(h, u) ==
    /\ Free(h, "deactivate")
    /\ active[u]
    /\ active' = [active EXCEPT ![u] = FALSE]
    /\ req' = [req EXCEPT ![h] = [Idle EXCEPT !.op = "releaseOpen", !.to = u]]
    /\ UNCHANGED <<row, approvals, checklist, judgement, changes, roles,
                   contributors, approvalEnabled>>

ReleaseOpen(h) ==
    /\ req[h].op = "releaseOpen"
    /\ IF status \in {"APPROVED", "CLOSED", "CANCELLED", "REJECTED"}
       THEN UNCHANGED <<assignee, newer>>
       ELSE ReleaseRowsOf(req[h].to)
    /\ Finish(h)
    /\ UNCHANGED <<row, approvals, items, response, evidence, unseen, verdict,
                   moved, changes, people, approvalEnabled>>

Activate(u) ==
    /\ AtOnce("activate")
    /\ ~active[u]
    /\ active' = [active EXCEPT ![u] = TRUE]
    /\ UNCHANGED <<row, approvals, checklist, judgement, changes, roles,
                   contributors, approvalEnabled, req>>

SetRoles(u, rs) ==
    /\ AtOnce("roles")
    /\ roles' = [roles EXCEPT ![u] = rs]
    /\ UNCHANGED <<row, approvals, checklist, judgement, changes, active,
                   contributors, approvalEnabled, req>>

SetApproval(on) ==
    /\ AtOnce("setting")
    /\ approvalEnabled' = on
    /\ UNCHANGED <<row, approvals, checklist, judgement, changes, people, req>>

\* A request that ends without its next write: the client went away, the
\* database failed, the process was restarted, or the guard of the statement
\* matched no row and the caller was told 409.
Abandon(h) ==
    /\ req[h] # Idle
    /\ Finish(h)
    /\ UNCHANGED stored

-----------------------------------------------------------------------------

Named == Users \cup {None}
AuthorStep(h) ==
    \/ \E u \in Users, rv, ap \in Named : UpdateCheck(h, u, rv, ap)
    \/ Update(h)
    \/ \E u \in Users, S \in SUBSET Items \ {{}}, a \in Named, m \in Modes :
          SaveCheck(h, u, S, a, m)
    \/ Save(h)
    \/ \E u \in Users, S \in SUBSET Items \ {{}}, a \in Named : AssignCheck(h, u, S, a)
    \/ Assign(h)
    \/ \E u \in Users, i \in Items, n \in 0..MaxFiles : UploadCheck(h, u, i, n)
    \/ UploadBegin(h)
    \/ UploadCommit(h)
    \/ \E u \in Users, i \in Items, n \in 1..MaxFiles : DeleteEvidenceCheck(h, u, i, n)
    \/ DeleteEvidence(h)
    \/ \E u, p \in Users : InviteCheck(h, u, p)
    \/ Invite(h)
    \/ \E u, p \in Users : RemoveCheck(h, u, p)
    \/ Remove(h)
    \/ Release(h)
    \/ \E u \in Users, failed \in SUBSET (Failing \ {"requester"}) :
          SubmitCheck(h, u, failed)
    \/ Submit(h)
    \/ CancelCheck(h)
    \/ Cancel(h)
    \/ \E u \in Users, i \in Items, n \in 1..MaxChanges : DoneCheck(h, u, i, n)
    \/ Done(h)

ReviewerStep(h) ==
    \/ \E u \in Users : BeginCheck(h, u)
    \/ Begin(h)
    \/ \E u \in Users, i \in Items : ResultCheck(h, u, i)
    \/ SaveResult(h)
    \/ \E u \in Users, S \in SUBSET Items \ {{}}, m \in Modes : BulkCheck(h, u, S, m)
    \/ BulkRead(h)
    \/ BulkSave(h)
    \/ \E u \in Users, i \in Items, a \in Named : ChangeCheck(h, u, i, a)
    \/ CreateChange(h)
    \/ \E u \in Users, S \in SUBSET Items \ {{}}, a \in Named : BulkChangeCheck(h, u, S, a)
    \/ BulkChange(h)
    \/ \E u \in Users, i \in Items, n \in 1..MaxChanges : VerifyCheck(h, u, i, n)
    \/ Verify(h)
    \/ \E u \in Users : CompleteCheck(h, u)
    \/ \E res \in Results, phase \in {"requestApproval", "conclude"} :
          CompleteRead(h, res, phase)
    \/ Complete(h)
    \/ \E u \in Users : WithdrawCheck(h, u)
    \/ Withdraw(h)
    \/ \E u \in Users : ReopenCheck(h, u)
    \/ Reopen(h)
    \/ \E u \in Users : CloseCheck(h, u)
    \/ Close(h)

ApproverStep(h) ==
    \/ \E u \in Users, d \in Decisions : DecideCheck(h, u, d)
    \/ Decide(h)

AdminStep ==
    \/ \E ap \in Users : ReassignApprover(ap)
    \/ \E i \in Items : IncludeItem(i)
    \/ \E i \in Items : ExcludeItem(i)
    \/ \E h \in Handlers, u \in Mutable : Deactivate(h, u)
    \/ \E h \in Handlers : ReleaseOpen(h)
    \/ \E u \in Mutable : Activate(u)
    \/ \E u \in Mutable, rs \in RoleChoices : SetRoles(u, rs)
    \/ \E on \in ApprovalModes : SetApproval(on)

Next ==
    \/ \E h \in Handlers :
          AuthorStep(h) \/ ReviewerStep(h) \/ ApproverStep(h) \/ Abandon(h)
    \/ AdminStep

Spec == Init /\ [][Next]_vars

-----------------------------------------------------------------------------
(* Type invariant: the columns hold what their CHECK constraints allow, and  *)
(* every request in a goroutine is one the handlers can build.               *)

Change == [status : {"OPEN", "DONE", "VERIFIED"}, to : Users \cup {None}]

TypeOK ==
    /\ status \in Statuses
    /\ submission \in {"DRAFT", "SUBMITTED", "RESUBMITTED"}
    /\ reviewer \in Users \cup {None}
    /\ approver \in Users \cup {None}
    /\ finalResult \in Results \cup {""}
    /\ approvedAt \in BOOLEAN
    /\ approvals \in Seq([by : Users, decision : Decisions])
    /\ items \in SUBSET Items
    /\ response \in [Items -> Answers \cup {"none"}]
    /\ assignee \in [Items -> Users \cup {None}]
    /\ evidence \in [Items -> Seq({"live", "deleted"})]
    /\ unseen \in SUBSET Items
    /\ verdict \in [Items -> Users \cup {None}]
    /\ newer \in [Items -> BOOLEAN]
    /\ moved \in [Items -> BOOLEAN]
    /\ changes \in [Items -> Seq(Change)]
    /\ active \in [Users -> BOOLEAN]
    /\ roles \in [Users -> SUBSET Roles]
    /\ contributors \in SUBSET Users
    /\ approvalEnabled \in ApprovalModes
    /\ req \in [Handlers -> Request]

-----------------------------------------------------------------------------
(* Invariants *)

Concluded == {"APPROVAL_PENDING", "APPROVED", "REJECTED", "CLOSED"}

\* No review is concluded while an item of its checklist has no verdict
\* (completeReview, reviewBlockers).
JudgedBeforeConcluded ==
    status \in Concluded => \A i \in items : Judged(i)

\* A conclusion stands on the review exactly while it has one to show, and the
\* approval date exactly while the outcome is an approval: completing,
\* withdrawing, deciding, reopening and cancelling leave no half of it behind.
ConclusionTellsStatus ==
    /\ status \in Concluded => finalResult # ""
    /\ status \notin Concluded \cup {"CANCELLED"} => finalResult = ""
    /\ status = "REJECTED" => finalResult = "REJECTED"
    /\ status = "APPROVED" => approvedAt
    /\ approvedAt => status \in {"APPROVED", "CLOSED"}

\* The submission row never lags behind the review it belongs to
\* (submitReview writes both in one transaction).
SubmissionTellsStatus ==
    /\ status \in {"SUBMITTED", "RESUBMITTED"} => submission = status
    /\ status = "DRAFT" => submission = "DRAFT"
    /\ submission = "DRAFT" => status \in {"DRAFT", "CANCELLED"}

\* An approver's approval is the last decision of a review, and the review
\* stays approved or closed under it (decideApproval).
ApprovalIsFinal ==
    \A k \in DOMAIN approvals :
       approvals[k].decision = "APPROVED" =>
          k = Len(approvals) /\ status \in {"APPROVED", "CLOSED"} /\ approvedAt

\* A review that was handed over is whole -- required answers, their evidence,
\* no correction the author still owes -- and one that was concluded has every
\* correction verified, through any number of rounds: what does not hold of an
\* item was written past the check of that submission or conclusion, or it is
\* a correction whose count failed (validateSubmission, reviewBlockers, and a
\* change request sending the review back in its own transaction).
HandedOverWhole ==
    /\ status \in Concluded \cup {"SUBMITTED", "RESUBMITTED", "REVIEWING"} =>
          \A i \in items \ unseen :
             /\ ~OpenOn(i)
             /\ i \in Required => response[i] \in {"na", "answered"}
             /\ i \in Required \cap NeedsEvidence /\ response[i] = "answered"
                   => \E n \in DOMAIN evidence[i] : evidence[i][n] = "live"
    /\ status \in Concluded => \A i \in items \ unseen : ~Unverified(i)

\* Whoever approved a review is the approver on record from then on, also when
\* they took the decision over from somebody who can no longer give it and
\* whatever else was in flight (decideApproval).
DeciderIsOnRecord ==
    \A k \in DOMAIN approvals :
       approvals[k].decision = "APPROVED" => approver = approvals[k].by

-----------------------------------------------------------------------------
(* Action properties *)

\* A review is concluded only when every item carries a verdict, no later
\* transaction changed its answer or evidence, and every correction on it was
\* verified -- every item but those somebody wrote while this very request was
\* between its count and its write.  An item without a response row has no
\* timestamp for staleVerdictSQL to compare (reviewBlockers, completeReview).
ConcludedWhenReady ==
    [][\A h \in Handlers :
          /\ status = "REVIEWING" /\ status' \in Concluded
          /\ req[h].op \in {"conclude", "requestApproval"} /\ req'[h] = Idle
          => \A i \in items \ req[h].since :
                /\ Judged(i) /\ ~Unverified(i)
                /\ moved[i] => response[i] = "none"]_vars

\* Whoever signs a review off judged none of its items, but those they judged
\* while this very decision was between its check and its write, and did not
\* ask for it, unless the query that tells failed (ownVerdictBlocked,
\* selfReviewBlocked, decideApproval).
SecondEyes ==
    [][\A h \in Handlers :
          Len(approvals') > Len(approvals) /\ req[h].op = "decide" /\ req'[h] = Idle
          => /\ AllowSelfReview \/ \A i \in items \ req[h].since :
                                      verdict[i] # req[h].by
             /\ SelfReviewBlocked(req[h].by) => "requester" \in Failing]_vars

\* Outside the author's desk a review changes reviewer only when the named
\* one can no longer act (beginReview, stillHolds).
NobodyLosesAReview ==
    [][reviewer' # reviewer => OnDesk \/ ReviewerGone]_vars

\* A verified change request is closed: nothing reopens or rewrites it
\* (updateChangeRequest).
VerifiedIsFinal ==
    [][\A i \in Items : \A n \in DOMAIN changes[i] :
          changes[i][n].status = "VERIFIED" => changes'[i][n] = changes[i][n]]_vars

-----------------------------------------------------------------------------
(* The review implements its lifecycle: the status column is the stage, and   *)
(* the approvals rows are the decisions.                                     *)

Promise == INSTANCE ReviewLifecycle WITH
    stage <- status, conclusion <- finalResult, approved <- approvedAt,
    decisions <- [k \in DOMAIN approvals |-> approvals[k].decision]

\* Every step of the handlers is a step of the lifecycle or leaves it alone.
KeepsItsPromise == Promise!Lifecycle
=============================================================================
