# SecCheck: TLA+ models and proofs

SecCheck is a Go server that runs security reviews: a requester fills in a checklist with evidence
files, a security reviewer judges every item, an approver decides, and every step is written to a
hash-chained audit log. It is one process over one PostgreSQL database. All state is in the tables;
what runs concurrently is one goroutine per HTTP request and three workers (scanner, mail,
maintenance). This directory models the parts whose correctness depends on the order in which those
goroutines reach the database, and the two pure algorithms whose agreement the code relies on.

Paths below are relative to `src/internal/` unless they start with `src/`.

## 1. Inventory

| Component | State | Operations | What is hard | What makes it correct |
|---|---|---|---|---|
| Review workflow (`web/reviews.go`, `account.go`, `evidence.go`) | `review_requests`, `submissions`, `submission_items`, `responses`, `evidences`, `review_results`, `change_requests`, `approvals`, `review_participants` | create, update, save answers, assign, upload, delete, invite, remove, submit, begin, judge, request changes, done, verify, complete, withdraw, reopen, decide, close, cancel | each handler checks with some queries and writes with later ones; several people work on one review | a conclusion rests on current verdicts; conclusion, dates and decisions fit the status; nobody signs off their own judgement; whoever approved is the approver on record; no reviewer loses a review |
| Assignment and hand-over (`web/reviews.go`, `admin.go`) | requester, reviewer, approver, `assigned_to`, assignees of corrections, follow-ups | name, transfer, copy, take over, replace the approver, assign, hand everything over, close an account | the rules of one review applied in bulk from a list read once, by statements that may fail one by one; what is checked is not what is written | nobody comes to judge what they asked for; what a hand-over leaves it names |
| Evidence scanning (`scanner`, `web/evidence.go`, `maintenance`) | `evidences.scan_status`, `evidence_versions`, `jobs` | enqueue, claim, scan, settle, quarantine, fail, retry, requeue | crash between claim and verdict, replacement during a scan, lost jobs, retries | only a file found clean is released; no file waits for ever; row and history agree |
| Audit chain (`store/store.go`, `store/audit_verify.go`, `maintenance`, `web/admin.go`) | `audit_logs`, `audit_chain_state` | append, verify from the anchor or from the start, move the anchor | appenders at once, verification during appends, edits in the database | one unbroken chain; the anchor covers only intact rows |
| Rule engine and snapshots (`web/reviews.go`, `templates.go`) | `templates`, `template_versions`, `checklist_items`, `template_changes`, `submission_items` | make, copy, import, edit, publish, retire, delete, create a review, simulate | recursive conditions told twice, publishing and deleting that ask before they write | what is published stays; a snapshot is explained by its version; the simulator and the engine agree |
| Accounts, login, sessions, TOTP, API keys (`auth`, `web/account.go`, `web/admin.go`, `src/cmd/seccheck/recover.go`) | `users`, `user_roles`, `sessions`, `api_keys` | log in, count failures, lock, unlock, change and reset a password, enrol, save roles, close, recover, rotate a key | counters raced by several logins, sessions ended in a second statement, the last administrator | no attempt is forgotten, no early lock, a lock ends; sessions end with what opened them; an administrator remains; one key works |
| OIDC (`auth`) | `oidc_states`, `user_roles` | begin, abandon, complete, create, synchronise roles, lock the unused | an answer sent twice, roles saved meanwhile | one sign-on per state; no sign-on makes an administrator |
| Mail and notifications (`notify`, `mail`, `store/notify.go`) | `notifications`, `jobs`, `mail_deliveries`, `notification_preferences` | notify, claim, deliver, give up, digest, retry, alarm | a crash after sending, a lost answer, a record that cannot be written, two routes for one notice, alarms that look back six hours | nothing disappears without a trace; nothing goes out twice without a cause; failure is reported |
| Maintenance (`maintenance`) | everything with a date | hourly sweep: reminders, retention, purge, repair, alarms | a stop in the middle of a sweep, more rows than a sweep takes | nobody is told twice in a window; what stays due is told |
| Vault and keys (`vault`, `cryptox`) | `user_data_keys`, files | ensure, rotate, read, write | two rotations at once | one active key; old files stay readable |
| Reports, exports, analytics, MCP, OpenAPI, events, front end | none of their own | read | - | - |

Interaction: handlers call the store for every event they record (`Audit`), write jobs in the
transaction of the upload, and notify after they have committed. The workers take jobs with
`FOR UPDATE SKIP LOCKED`. Nothing that is modelled is shared between goroutines but the database, so
a step of a model is a statement or a committed transaction. Scanner and mail worker share the
table `jobs` and its repairs but take different job types; each is modelled with its own rows.

## 2. How the project is laid out

| Module | Models | Instance | Proofs |
|---|---|---|---|
| `ReviewLifecycle` | abstract: what a review promises | through `ReviewWorkflow` | `ReviewWorkflowProofs` |
| `ReviewWorkflow` | one review, all its handlers as check and write; implements `ReviewLifecycle` | `MCReviewWorkflow` | `ReviewWorkflowProofs` |
| `ReviewAssignment` | several reviews in outline; who holds which part, one by one and all at once | `MCReviewAssignment` | `ReviewAssignmentProofs` |
| `EvidenceScan` | files, versions, the scan queue and its worker | `MCEvidenceScan` | `EvidenceScanProofs` |
| `AuditChain` | the hash chain and its verification | `MCAuditChain` | `AuditChainProofs` |
| `MailQueue` | notices, the mail queue, the daily summary | `MCMailQueue` | `MailQueueProofs` |
| `RuleEngine` | validating, evaluating and explaining a rule (recursive) | through `TemplateVersions` | `AdministrationProofs` |
| `TemplateVersions` | templates, versions, publication, snapshots; extends `RuleEngine` | `MCTemplateVersions` | `AdministrationProofs` |
| `AccountLogin` | password login, lock-out, one-time code, sessions | `MCAccountLogin` | `AccountLoginProofs` |
| `AccountRoles` | roles, closing accounts, sign-on through a provider | `MCAccountRoles` | `AdministrationProofs` |
| `Reminders` | the reminders of the sweep, and API keys | `MCReminders` | `RemindersProofs` |

`ReviewWorkflow` holds one review in every detail and `ReviewAssignment` several in outline (seven
stages, one item, one correction, one follow-up each): assignments look at people and seats, hardly
at answers, and a hand-over is about several reviews. `MailQueue` takes events as they come; who
raises them is the other modules' business. `AdministrationProofs` proves about both modules in which
administrators' requests overlap, which is why the actions of `TemplateVersions` are called
`TemplateInit`, `TemplateNext` and `TemplateSpec`: a module can extend it beside `AccountRoles`.

What could follow, in the order of what it would add: the purge of deleted evidence with the reading
back of files (`maintenance/worker.go:837`), an abstract job queue that `EvidenceScan` and `MailQueue`
both implement, and the sections and the workbook import of a template.

## 3. Modules and the code

In every module a handler that asks first and writes later is two actions or more, one for each
statement or transaction others can come between. A check leaves in a variable what the handler
remembers; the write is guarded by the conditions of its SQL and nothing else. Handlers that end
without having written anything are not steps of their own unless they held something.

### ReviewWorkflow

One review. `XCheck(h, u, ...)` is authentication and the queries that decide, and leaves in `req[h]`
what the handler remembers; `X(h)` is the write. `Abandon` is every other way for a request to end -
the client left, a query or the write failed and the caller was told, the process was restarted, or
the statement matched no row and the answer was 409. Three kinds of query fail unnoticed, and `Failing`
says which of them may in an instance: who asked for the review (`selfReviewBlocked`,
`web/reviews.go:2725`, and `currentRequester`, `:795`), where the requester is let through; the count of open
corrections (`:1552`), which then reads as none; and the workflow settings of a submission or of a
completion (`:2468`), which then ask for nobody. Handlers with a single statement and no earlier query of the same data
(`ReassignApprover`, `SetRoles`, `SetApproval`, the override of the snapshot) are one action.

| Variables | Tables |
|---|---|
| `status`, `reviewer`, `approver`, `finalResult`, `approvedAt` | `review_requests` |
| `submission` | `submissions.status` of the only revision |
| `approvals` | `approvals`, oldest first |
| `items`, `response`, `assignee`, `evidence` | `submission_items`, `responses`, `evidences` |
| `verdict` | `review_results.reviewer_id` |
| `newer`, `moved`, `unseen` | see below |
| `changes` | `change_requests` |
| `active`, `roles`, `contributors`, `approvalEnabled` | `users`, `user_roles`, `review_participants`, `settings` |
| `req` | the goroutines |

A check speaks of the checklist as it was, and the write that follows does not ask again. What others
write to an item meanwhile is noted, as history, in `since` of every request that relies on such a check
(`Trusting`): a submission, a completion, a decision. When it writes, these items become `unseen`, with
those whose open corrections could not be counted, and so does an item written after its author had
handed the review over (`Late`). No guard reads either. The properties about completeness say what
holds of every other item, so that an overlap is excepted item by item and request by request, and
nothing else is.

The code decides whether a verdict is stale by comparing timestamps (`staleVerdictSQL`). `newer[i]`
is the outcome of that comparison - some row of the item was stamped after the verdict - and
`moved[i]` what it stands for: an answer or a file changed after the verdict. They differ, because
assigning an item also stamps its row, and because an upload carries the time its transaction
began: a verdict given between `BEGIN` and `COMMIT` is stamped later although the file came after it
(phase `overtaken`). The invariants speak of `moved`, the guards read `newer`.

Abstracted: texts, due dates, reasons and notifications; the kind of a verdict (any verdict counts
for completion); typed answers (a response is `na`, `answered`, `unfinished` or `blank`). Left out:
the optional `expected_updated_at` conflict check; VIEWER participants and the AUDITOR role, which
only read; the scan status of files and the submission check that reads it, and quarantine, which
belong to `EvidenceScan`. The requester's identity never changes here. Template and system
administrators are anonymous. Naming reviewer and approver at creation is an `Update` of the draft:
both go through `namedAssigneeProblems`.

### ReviewLifecycle

What a review promises, without handlers: ten stages, the conclusion, the approval date, the
decisions. `ReviewWorkflow` instantiates it (`Promise`): the stage is the status column, the
decisions are the rows of `approvals`. `KeepsItsPromise` is the refinement.

### ReviewAssignment

`seat[r]` is requester, reviewer and approver of a review, `item` and `correction` what is in
somebody's name, `followUp` and `accepted` what was promised for later and who confirmed it. A
request in flight (`calls`) remembers the row it saw. `copyReview`, `bulkAssign`, `addParticipant`
and the like, whose check and write read the same row with nothing in between that matters here, are
one action; `removeParticipant` and `setUserActive` leave a second statement behind, which releases
items. `DecideCheck` and `Decide` are here for the seat a decision takes over; that the previous approver
had judged the review is a free choice, since verdicts are `ReviewWorkflow`'s. `Passes` is
`selfReviewBlocked`, and with `blind` the check that could not be made and lets the requester through.

The hand-over is `StartHandover` (who the successor is and what they may do), `ListOpen` (the one query),
`MoveSeat` seat by seat in the order of the rows, the look-up `Reach` before the items and again before
the corrections, `MoveItems`, `MoveCorrections`, `Answer`. Each of them may fail as in the code:
`ListBreaksOff` (what was read is taken for all there is), `SeatFails` (the seat is named), `ReachFails`
and `MoveFails` (nothing is named). `MaxFailures` bounds these and the blind checks together, and `lost`
notes what kind of work a failure fell on. The variables `since` and `unasked` watch: what somebody
else changed since the list was read, and which reviews were seated without asking or on an answer
that had moved. `unasked` is entered where the seats opposite changed between check and write, where a
check was blind, and by `copyReview` (which checks nobody) and `reassignApprover` (which asks for the role
only) when they do seat the requester.

### EvidenceScan

Files, versions, job rows and one scanner goroutine with its phases: claim, load (row, version,
setting), scan, settle. `Settle` is `finish`, and takes "the version that is current by now" as the SQL
does. `Crash` loses the goroutine and keeps the database. `RequeueAbandoned` is the hourly repair and
the one at start-up; a lock counts as abandoned when no worker holds it, because a scan gives up
after ten minutes and a lock is stale after fifteen. Completed jobs are dropped at once (nothing
reads them). `RequeueLost` inserts one row at a time; it stands for the sweep's statement and for the
last statement of `retryFailedJobs`. Not modelled: purging, encryption, notifications.

### AuditChain

Appending is `Lock` (`SELECT ... FOR UPDATE`), then `Commit`; verification is the query for the rows, the
walk, the query for the head, and moving the anchor, each a step. A hash is the sequence of texts
it was computed over, which is SHA-256 without collisions. `Edit` is what verification exists for:
a row edited with or without its own hash, or the latest rows lost in a restore. Columns beside the
canonical payload are not modelled; nothing verifies them.

### MailQueue

`notice`, `job`, `records` are rows of `notifications`, `jobs` (type SEND_EMAIL, one per notice) and
`mail_deliveries`; `copies` counts what the relay really took, which no table knows. `Notify` is
`notifyTx`: the notice, its mark and its job in one transaction. The worker claims, loads, sends and
settles; `Taken`, `TakenUnheard` and `Refused` are the relay's answers, one of them lost on the way.
`ReadFails` is an error of `deliver` before anything was sent (`notify/worker.go:244`): the attempt
fails and no delivery is recorded. `RecordLost` is a record that cannot be written, after which the worker
goes on all the same (`:290`). Both leave "lost" among the records of that notice, as history. The daily
summary collects its readers, then for each the notices, sends, marks, stamps the day.

`SweepJob`, `SweepNotice`, `RequeueAbandoned` and `AlertFailedJobs` belong to maintenance, `RetryJob` and
`RetryFailedJobs` to the console. `age` and `told` count the hourly sweeps since a job failed and since
an administrator was last told of failed jobs, up to `Window`, the six hours both queries look back
(`maintenance/worker.go:390`, `:421`): an older failure is asked about no more, and an older alarm no
longer stands in the way. The alarm writes a notice and no mail, so that notice is not a row of its own
here. A sweep may fail for some administrators or for all. A crash, a failing write and a lost answer are
`Mishaps`, bounded together; failing reads, records and alarms are bounded by `MaxLosses`. Left out: the
test mail, which belongs to no notice, and reading a notice.

### RuleEngine and TemplateVersions

`validateRule`, `evalNode` and the simulator's flattening (`collectConditions`) are the three recursive functions
of the code, with a node as a record; values are the texts `fmt.Sprint` gives. They are recursive
functions over `Rules`, the set of the rules told apart, which holds with a rule its branches
(`RulesAssumption`). The simulator lists forty conditions at most, so `ConditionsDecide` speaks of rules with
fewer: forty met conditions say nothing of a forty-first. `TemplateVersions` has
a template's and a version's status, its items, the items it began with (`base`), its history
(`changes`), and what each review was given (`held`). Changing and removing an item lock version and
item and are one action each; adding one locks the version against deletion only and is two, any number of which may be under way.
`publishVersion` is three statements (count, inspect, write), `retireVersion` and `deleteTemplate` two.
`overlapped` notes the templates written by a request another one had overtaken between its question
and its write. Left out: sections, wording, the export, reading a workbook, the control catalogue.

### AccountLogin

One local account, its row, the sessions by browser and what each login in flight has read. The
lock-out follows `lockedUntil` and `registerLoginFailure` statement by statement. Passwords are numbers in the order they
were set, secrets likewise, 0 being the empty one; a session carries the password and the factor it
was opened with, and `late` if its login overlapped a change. `LockPasses` is time; `SweepLockouts` the
sweep. Administrators (`ResetPassword`, `Unlock`, `ResetTOTP`, `SetActive`) and the command line
(`Recover`) act on the same row. `desk` is what is left of their work: the parts of a recovery, a
statement each in the order of `src/cmd/seccheck/recover.go`, and the end of the sessions. Statements fail
up to `MaxMishaps` times: a login goes on without them (`StatementFails` - a lock-out that cannot be read
is none, an attempt that cannot be counted is not counted, `auth/auth.go:306` and `:329`), while an
administrator, the command line and an enrolment end with an error and the sessions stay (`DeskFails`,
`SweepFails`); these are marked `late`. `wrong` counts the attempts that were registered.

### AccountRoles

Accounts with roles as a set of rows. A save of roles is a READ COMMITTED transaction: it deletes what
it finds and inserts its own, so rows somebody else inserted meanwhile survive it (`unseen`). A
sign-on takes the state row (`TakeState`), looks the account up, perhaps locks it, writes it and
synchronises the roles; each step may fail. `hand` is what administrators granted, as opposed to what
the table holds; the command line grants too, at any time (`RecoverAdmin`).

### Reminders

Five kinds of rows with a date and a stamp. One statement stamps what is due and returns it, then the
worker looks up whom to tell and writes one notice after the other; `Stop` loses what it holds. Time
is three values for a date (far, near, past) and three for a stamp (never, within the window, older). A
correction nobody was assigned is chased with the one who raised it. A key is warned once: it is stamped
in the last seven days of its life and the window is seven days as well
(`maintenance/worker.go:297-306`), so `WindowPasses` waits for its end; `silenced` (history) are the keys
whose one warning was lost.
API keys are the fifth kind, so their creation, expiry and rotation - a revocation and an insert in
two statements - are here too.

## 4. Runs

All twelve pass, with no symmetry in the runs that check liveness.

| Run | Instance | Distinct states |
|---|---|---|
| `review_corrections` | 3 accounts, 1 item, 1 file, 1 correction, 1 request at a time, all of the author's, reviewer's and approver's operations | 188 496 |
| `review_concurrent` | as above without corrections and files, 2 requests overlapping, 2 decisions, no closing | 632 269 |
| `review_governance` | 1 request with administrators between its check and its write; accounts, roles, setting, snapshot change | 525 984 |
| `handover` | 3 people, 2 reviews (one there, one to be copied) from 6 starting points, 2 requests in flight, 1 hand-over, 1 change of an account or stage | 583 251 |
| `evidence_scan` | 1 file of up to 2 versions, 2 jobs, 2 attempts, 1 crash, 1 retry, scanner switched on and off | 289 140 |
| `audit_chain` | 2 processes, 3 events, 2 edits | 2 028 703 |
| `mail_queue` | 1 reader who is the administrator, 2 notices and an alarm, 2 attempts, summaries of 2, 1 switch, 1 retry, 1 mishap | 1 486 663 |
| `mail_progress` | the same with summaries of 1, no switch and no retry, a crash | 21 919 |
| `templates` | 2 templates, 2 versions, 1 item code with 2 texts, 1 review, 2 administrators, 2 edits; about 900 rules on 2 services | 1 028 202 |
| `login` | 2 browsers, a budget of 2, 4 logins, 1 new password, 1 secret, 1 turn of the administrator or the command line | 481 410 |
| `roles` | 4 accounts (2 administrators, 2 of the directory), 2 callbacks, 1 sign-on, 2 saves or closings, 2 changes of directory or mapping | 122 829 |
| `reminders` | 3 people, 2 rows of 5 combinations of kinds, 1 row stamped at a time, 1 fault, 1 move | 164 818 |

What they show:

- `review_corrections`: `HandedOverWhole`, `ConcludedWhenReady`, `VerifiedIsFinal`. Through any sequence
  of submissions, corrections and rework, what reaches the reviewer is whole and a conclusion is
  drawn only over verdicts that still describe the answers. Of overlapping requests each of the two
  holds exactly as far as section 6 says.
- `review_concurrent`: `JudgedBeforeConcluded`, `ConclusionTellsStatus`, `SubmissionTellsStatus`,
  `ApprovalIsFinal`, `KeepsItsPromise`. The guards in the SQL are enough for these; they hold with
  overlapping requests.
- `review_governance`: `SecondEyes`, `NobodyLosesAReview`. Administrators interleave with the check and
  the write of the one request in flight.
- `handover`: `OwnWorkOnlyByOverlap`, `HandoverAccounts`. The checks before each assignment, one at a
  time and in bulk, keep requester and judge apart, except where two assignments overlapped, a
  review was copied, or an administrator replaced the approver; and a hand-over names what it leaves.
- `evidence_scan`: `UnreplacedIsFailClosed`, `HistoryAgrees`, `EveryUploadIsDecided`.
- `audit_chain`: `ChainUnbroken`, `AnchorOnChain`, `ProvedRowsAreIntact`.
- `mail_queue`: `NoMailIsLost`, `CopiesHaveCauses`. A notice marked as mailed went out, is in the queue,
  or says why not; the number of copies is bounded by what went wrong, although the reader may move
  between immediate mail and the summary with the mail already queued.
- `mail_progress`: `QueuedMailEnds`, `DigestReachesAll`, `FailureIsReported`. The bound of a summary is
  set to one notice, so that the second has to wait for another day.
- `templates`: `HistoryExplains`, `PublishedStays`, `SnapshotsAreExplained`, `AssignedIsAnswerable`,
  `RetirementLeavesOne`, and `ExplanationFits`, which compares the engine with the simulator's
  flattening on every rule of one operator over nine leaves and of two nested ones over two leaves,
  with lists of up to two nodes.
- `login`: `NoAttemptIsLost`, `LockMeetsCount`, `SessionsAreCurrent`, `LockoutEnds`.
- `roles`: `AdministratorsAreMadeByHand`, `SignOnCompletesOnce`, `LastAdministratorStays`.
- `reminders`: `OncePerWindow`, `OneKeyWorks`, `DueIsTold`.

Bounds. One item is enough for the rules of the workflow, which are conjunctions over items; two
accounts who both review and approve, beside the author, are the fewest with which second eyes can
succeed or fail. Two requests in flight give every pair of handlers each overlap of check and write.
Two versions, two jobs and two attempts are the fewest with a replacement, a duplicate job and a last
attempt. Three events let a walk start behind the first one and end before the last. Two notices let
one be overtaken by another within a summary, and one alarm needs a row more. Two templates and two
versions give copies, imports and a second version to retire; a budget of two failures has a first
and a last attempt, and four logins are both browsers' twice. Three people are the fewest for a
hand-over in which the successor sits opposite in one review and not in the other. Every bound is a
constant (`Max...`, `NTemplates`, `NVersions`, `Limit`, `DigestLimit`) and a guard of the actions named
beside it; a request whose operation a run leaves out of `Operations` is not issued in that run.

`CHECK_DEADLOCK FALSE` is set where people may simply stop: with the bounds used up nothing need be
left to do in mail, templates, login, roles, reminders and hand-over.

## 5. Fairness

The workflow, assignment, templates and the audit chain have none: their steps are people's.

- `EvidenceScan`: weak fairness of the worker (it polls every five seconds and each call it makes has
  a deadline), of the pause between attempts, and of the three repairs of the hourly sweep. Uploads,
  deletions and retries are not fair, and a scan need not ever succeed: `EveryUploadIsDecided` holds
  because a failing scan ends in ERROR.
- `MailQueue`: weak fairness of the worker's own next step, of time (`NextDay`, `BecomeDue`) and of the
  sweep (`RequeueAbandoned`, `AlertFailedJobs`). Strong fairness of claiming, because the worker's loop
  asks the queue after every round of summaries, so it is not always at that place; and of
  `DigestTaken`, an assumption about the environment - a relay that is asked day after day takes a
  summary now and then. `QueuedMailEnds` and `FailureIsReported` need nothing of the relay.
- `AccountLogin`: strong fairness of `LockPasses` (a lock-out has an end, and a login takes seconds where
  the shortest lock-out takes a minute), weak fairness of the sweep and of a request that has begun.
  That a login is shorter than the shortest lock-out is also the guard of `LockPasses`: somebody who
  passed the check before the lock was put is gone when it ends.
- `AccountRoles`: weak fairness of requests that have begun; its properties do not use it.
- `Reminders`: weak fairness of the sweep, which comes every hour, and strong fairness of a window's end:
  it is disabled and enabled again by other stamps.

## 6. Proofs

TLAPS proves, for every value of the constants that the module's ASSUME admits - any number of people,
items, requests in flight, crashes and retries, without symmetry - the theorems below. Each rests on
an inductive invariant, since what the property says now is threatened by what somebody read before.

| Module | Theorems | The invariant, and why it is needed |
|---|---|---|
| `ReviewWorkflowProofs` | `TypeCorrect`, `ConclusionTold`, `SubmissionTold`, `ApprovalFinal`, `LifecycleKept` (refinement of `ReviewLifecycle`), `ReviewKept`, `VerifiedFinal`, `Judgement`; `WholeTold`, `ReadyTold`, `ConcludedReady`, `SecondEyesTold`, `OneAtATime` | `Inv`: types, `RequestsPhrased` (what a request will write is a legal word), `StatusTold` (the three status properties together: that an undecided status has no approval is what lets a decision append one). `JudgedInOrder` for `Judgement`: while a completion is in flight every item is judged, and the snapshot changes only in DRAFT. `Fresh` (a review not yet handed over has no verdicts), `WholeInv`, `CountInv` and `SecondInv`: what a submission, a completion or a decision found when it asked holds until it writes. |
| `ReviewAssignmentProofs` | `OwnWorkTold`, `HandoverTold` | `SeatsApart` with `Checked` (what a request asked still holds of the row it saw) and `Listing` (where nobody else reseated a review, the list tells who sits there but for what the hand-over moved): a seat is decided by the stale row. `Left`: what the hand-over has not come to is on its list, in its answer, or was changed by others; `Vacant`: a review not yet there can hide nothing. |
| `EvidenceScanProofs` | `HistoryTold`, `GateTold`; `TypesTold`, `AttemptsTold`, `RowTold` | `Uploaded`: a status means a version, and the scanner looks at a version of its file. The first two ask nothing of the queue: whatever job the worker takes and however often, row and history agree. `QueueInv` for the others: numbers are apart, the worker's row is there as the worker knows it, and no waiting or abandoned row has used its last attempt but for those a crash took. |
| `AuditChainProofs` | `TypesTold`, `ChainTold`, `AnchorTold`, `TailTold`, `MarksTold` | `Positions`: head, anchor and every place a process holds are points of the chain; who holds the row lock holds the head, and nobody else does. `Linked`: the rows are those meant. `RowsInv` adds `Ordered` (numbers grow along the log, whatever was lost) and `Reads` (what a walk holds was read from rows as they then were). `MarksTold` goes from the head back to the first row: equal hashes force equal texts, one row at a time. |
| `MailQueueProofs` | `TypesTold`, `MailTold`, `CopiesTold` | `Apart` (a summary takes up only what has no job), `Counted` (a notice that may still be mailed has one copy to spare - `Armed` says when), `Explained` (what is about to be marked was taken, what is given up has its reason on record). |
| `AccountLoginProofs` | `TypesTold`, `AttemptsTold`, `LockTold`, `BudgetTold`, `SessionsTold` | `EndedLockIsEmpty` (nobody is past the check of a lock that ended but is not cleared), `LoginsAreCurrent` (a login nothing overtook goes by the password and factor of now). |
| `AdministrationProofs` | roles: `AccountTypesTold`, `AdministratorsTold`, `SignOnTold`, `LastAdministratorTold` | `RolesInv` for the types; `Assigned`; `Spent` (the browser's sign-on is worth one session: its row, the callback that took it, or the session); `Guarded` (a save under way never takes the actor's own role). |
| | templates: `ChangesTold`, `SnapshotsTold`, `AnswerableTold`, `ExplanationTold`, `PublishedTold`, `RetirementTold` | `TemplatesInv`: `TemplatesOrdered` (types; a version has one template, and publications are numbered apart), `Truthful` (what a request found when it asked still holds, unless another wrote to the template since), `PublishedFits` (nothing that was published is unusable), `GivenFits` and `HeldFits` (the version a review was given is there and says what the review holds) - the last three but for a template in `overlapped`. |
| | rules: `RulesTold` | induction over the depth of a rule; `Decides` is stronger than `ConditionsDecide`, since under a "not" both directions and some condition at all are needed. |
| `RemindersProofs` | `WindowTold`, `KeysTold` | `InHand` and `Windows` (what the worker holds is stamped, in one place, and told to nobody yet); `Rotations` (a key has one successor, and none while the rotation is under way). |

The three promises of a review that overlapping requests can break are proved with what it takes to
keep them, for any number of requests at once. `Beside` says that a request is in flight beside
another; each condition forbids one kind of crossing and nothing else:

| Condition | Forbids | Needed by |
|---|---|---|
| `SubmittedAlone` | an answer saved, a file deleted or a correction asked for between a submission's check and its write | `WholeTold`, `ReadyTold` |
| `CorrectedAlone` | a correction between a completion's count and its write | `WholeTold`, `ReadyTold` |
| `CountedAlone` | an answer or a file written or committed in the same gap | `ReadyTold` |
| `UploadedAlone` | a verdict while the transaction of an upload is open | `ReadyTold` |
| `DecidedAlone` | a new reviewer or verdict between a decision's check and its write | `SecondEyesTold` |
| `Unadjusted` | an administrator's new item while a submission is in flight | `WholeTold`, `ReadyTold` |

Without any of the first five TLC finds the property broken with two requests in flight, so each
names a crossing the code does not exclude (section 8). `OneAtATime` draws the conclusion for a server
that serves one request at a time. `ConcludedWhenReady` speaks of every item; for an optional item
nobody answered the inner join of `staleVerdicts` blocks nothing, so `ReadyTold` excepts those and
`ConcludedReady` assumes there are none (`Required = Items`).

Induction. The library's induction theorems take an operator and cannot be used here; that a nonempty
set of numbers has a least one (`LeastNumber`) is a statement about a set and can. It serves for the
tail of the log, the newest version, and the depth of a rule. `RecursionIsDefined` derives from it
that a recursive definition over something that has a height is met by a function, from which
`ValidateFollows`, `HoldingFollows` and `ListingFollows` get that the three walks of `RuleEngine` are what
their definitions say, and `FlattenSays` what the flattening of a list of lists contains.

Assumptions worth knowing. `RulesTold` and `ExplanationTold` are about rules that are nested finitely
deep (`Nested`: there is a height above that of the branches), as every JSON document is. `Judgement`
needs a pinned item: a draft with an empty checklist passes the completion guard, because
`completeReview` does not ask for the status before it counts. `OwnWorkTold` assumes that the reviews
there are at the start seat nobody opposite themselves, as every check before an assignment does.
`AuditChainProofs` rests on SHA-256 having no collisions, which is the representation of hashes; edits
of the tables are allowed in it, and what they make of the rows is excepted where the property says so.

## 7. Only model-checked

- Liveness (`EveryUploadIsDecided`, `QueuedMailEnds`, `DigestReachesAll`, `FailureIsReported`, `LockoutEnds`,
  `DueIsTold`) is out of the proof system's reach. Every other property of the runs has its theorem.
- The hypotheses of the theorems of section 6 about crossings are not discharged by the code; the runs
  `review_corrections` and `review_governance` show the properties for one request at a time.
- `ConcludedWhenReady` is neither proved nor checked for an optional item: it is false of one nobody
  answered (section 8).
- What the theorems call collision-free, finitely nested or pinned is assumed of every instance and true
  of those the runs use.

## 8. Where code and words part

Found while modelling; the properties are stated so that they hold, with the exception named.

- A save admitted before submission (`saveResponse` asks `canEditReview` and writes later,
  `web/reviews.go:1329`) can change an answer between the count and the write of `completeReview`, and the
  bulk verdict (`:1769`) asks for REVIEWING in an earlier query. The comment of `reviewBlockers` says the
  guard refuses exactly this; it does for one request at a time (`ConcludedWhenReady`).
- `staleVerdicts` joins `responses` with an inner join, the screen with a left join (`:1162`): for an
  optional item nobody answered, evidence added after the verdict is stale on the screen only.
- A draft with an empty checklist counts no blockers (`:2277`); only submission refuses it. An approval
  leaves `final_result` REJECTED standing (`:2771`). Removing a participant and closing an account
  release items in a second statement (`:2877`).
- Requeueing an abandoned scan does not look at its attempts (`maintenance/worker.go:280`), so a job is tried
  once more for every crash; `AttemptsTold` says by how much the limit of `fail` can be exceeded.
- A file replaced during its scan takes over its predecessor's verdict: `finish` marks the version that
  is current when it ends (`scanner/worker.go:137`). `requeueLostScans` enqueues files in ERROR, which the
  scan then skips (`:98`). The older version of a file replaced before its first scan ended stays PENDING
  for good (`web/evidence.go:154`).
- An append of the audit log that fails is only counted (`store/store.go:501`). An event appended between
  the two queries of a verification reads as "chain head state mismatch" without any tampering.
- A summary whose QUIT fails counts as refused and goes out again (`mail/mail.go:364`, against the comment
  at `notify/worker.go:93`): one of the causes in `CopiesHaveCauses`.
- Restarting an enrolment replaces the secret a factor is proved with (`auth/auth.go:268`); roles granted
  by hand are taken away by the next synchronisation if they are assignable (`:724`); an account
  reopened by an administrator is closed again by the inactivity lock at its next sign-on (`:800`).
- The simulator has nothing to say about an item that is left out for having no way to be answered.
- Hand-over: where the leaver is both requester and reviewer of a review (copying checks nobody), each
  column is decided by the row as it was listed, so the successor gets both seats, against the comment
  at `web/admin.go:1114`. Follow-ups of concluded reviews stay, though `openWorkOf` counts them and the
  comment at `:1111` says everything goes in one go. Transferring a review leaves items with the
  old requester, who may no longer open it (compare `web/reviews.go:2870`). `reassignApprover` asks for
  the role only. `updateReviewRequest` compares reviewer and approver only among the names it is given.

## 9. Not modelled

- Purging deleted files, reading stored files back, the alarms about space and a standing queue
  (`maintenance/worker.go`): a purge is a sequence of separate deletions of a row nobody can reach any
  more; what it could get wrong is on the disk, which no table describes.
- Vault and keys: the cryptography is out of TLC's reach; of the tables there is one insert on conflict
  and one transaction, the second of two rotations being refused by the primary key.
- Live events and rate limits are in memory and decide nothing that lasts.
- Reports, exports, analytics, MCP, OpenAPI and the front end read; the handlers enforce every rule
  again.
- Migrations, seeds, configuration and start-up run before anybody else does.
- Within modelled components: see the note of each in `PROJECT.json` and section 3.
