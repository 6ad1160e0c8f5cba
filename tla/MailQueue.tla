------------------------------- MODULE MailQueue -------------------------------
(***************************************************************************)
(* Notices and the mail about them: Store.Notify of internal/store, the    *)
(* worker of internal/notify with its queue and its daily summary, the     *)
(* preferences of a reader, the switches of the administrator, the         *)
(* retries of internal/web/admin.go and the repairs, alarms and retention  *)
(* of internal/maintenance.                                                *)
(*                                                                         *)
(* Every statement and every committed transaction is one step.  The       *)
(* worker is one goroutine.  What the relay answers is the environment's   *)
(* choice, and an answer may be lost after the relay took the mail.        *)
(***************************************************************************)
EXTENDS Naturals, FiniteSets

CONSTANTS
    People,       \* rows of users
    Admins,       \* those who hold SYSTEM_ADMIN
    Addressed,    \* those with a valid e-mail address
    Raised,       \* events the handlers raise
    Readers,      \* the preferences a reader may save
    Settings,     \* what the mail setting may be
    MaxAttempts,  \* a job that failed so often is FAILED
    DigestLimit,  \* notices in one summary
    Window,       \* hourly sweeps in stallReminder
    MaxNotices,   \* bound on notices
    MaxSwitches,  \* bound on saved preferences, settings and closed accounts
    MaxRetries,   \* bound on the administrator's retries
    Mishaps,      \* of "crash", "write" (one that fails) and "answer" (one lost)
    MaxMishaps,   \* bound on all of them together
    MaxLosses,    \* bound on what fails besides: a read, a record, an alarm
    None, Gone

\* One event for each kind of switch and one that no switch covers.
Events == {"turn", "service", "bell"}

ASSUME MailAssumption ==
    /\ Admins \subseteq People /\ Addressed \subseteq People
    /\ Raised \subseteq Events
    /\ Readers \subseteq [email_enabled : BOOLEAN, daily : BOOLEAN, muted : SUBSET Events]
    /\ Settings \subseteq [enabled : BOOLEAN, allowed : SUBSET (Events \ {"bell"})]
    /\ Settings # {}
    /\ MaxAttempts \in Nat \ {0} /\ DigestLimit \in Nat \ {0}
    /\ Mishaps \subseteq {"crash", "write", "answer"}
    /\ Window \in Nat \ {0}
    /\ {MaxNotices, MaxSwitches, MaxRetries, MaxMishaps, MaxLosses} \subseteq Nat
    /\ None \notin People /\ None # Gone

\* Rows in the order of created_at.
Ids == 1..MaxNotices

VARIABLES
    notice,   \* rows of notifications: None, Gone or the row
    job,      \* the SEND_EMAIL row of a notice, a notice has at most one
    records,  \* mail_deliveries: the statuses recorded for a notice; "lost"
              \* (history) where a read or a record about it failed
    copies,   \* how often the relay took a mail with this notice in it
    age,      \* sweeps since a job became FAILED, 0 for every other job
    told,     \* sweeps since an administrator's last JOB_FAILED notice
    pref,     \* notification_preferences, digest_sent_at aside
    today,    \* digest_sent_at lies on this day
    active,   \* users.active
    mail,     \* the mail setting
    worker,   \* what the worker holds
    budget    \* what is left of the bounds

rows   == <<notice, job, records, copies>>
alarms == <<age, told>>
people == <<pref, today, active>>
vars   == <<rows, alarms, people, mail, worker, budget>>

Notice   == [to : People, event : Events, emailed : BOOLEAN, own : BOOLEAN]

ASSUME NoticeAssumption == \A n \in Notice : n \notin {None, Gone}

Statuses == {"none", "PENDING", "RUNNING", "COMPLETED", "FAILED", "deleted"}
Job      == [status : Statuses, attempts : Nat, due : BOOLEAN, notSent : BOOLEAN]
Records  == {"SENT", "FAILED", "SKIPPED", "lost"}
Phases   == {"idle", "claimed", "sending", "taken", "refused", "givingUp", "completing",
             "failing", "digesting", "summing", "marking", "stamping"}
Holding  == [phase : Phases, id : Ids \cup {0}, attempt : Nat, reader : People \cup {None},
             todo : SUBSET People, muted : [People -> SUBSET Events],
             allowed : SUBSET Events, included : SUBSET Ids]
Budget   == [switches : 0..MaxSwitches, retries : 0..MaxRetries, mishaps : 0..MaxMishaps,
             losses : 0..MaxLosses]

NoJob   == [status |-> "none", attempts |-> 0, due |-> FALSE, notSent |-> FALSE]
Default == [email_enabled |-> TRUE, daily |-> FALSE, muted |-> {}]
Nothing == [p \in People |-> {}]
Resting == [phase |-> "idle", id |-> 0, attempt |-> 0, reader |-> None, todo |-> {},
            muted |-> Nothing, allowed |-> {}, included |-> {}]

Init ==
    /\ notice = [i \in Ids |-> None]
    /\ job = [i \in Ids |-> NoJob]
    /\ records = [i \in Ids |-> {}]
    /\ copies = [i \in Ids |-> 0]
    /\ age = [i \in Ids |-> 0]
    /\ told = [p \in Admins |-> Window]
    /\ pref \in [People -> Readers \cup {Default}]
    /\ today = [p \in People |-> FALSE]
    /\ active = People
    /\ mail \in Settings
    /\ worker = Resting
    /\ budget = [switches |-> 0, retries |-> 0, mishaps |-> 0, losses |-> 0]

\* A bounded event happens once more.
Spend(what, most) ==
    /\ budget[what] < most
    /\ budget' = [budget EXCEPT ![what] = @ + 1]

Happens(mishap) == mishap \in Mishaps /\ Spend("mishaps", MaxMishaps)
Fails           == Spend("losses", MaxLosses)

Stands(i)  == notice[i] \notin {None, Gone}
NewId      == CHOOSE i \in Ids : notice[i] = None /\ \A k \in Ids : notice[k] = None => i <= k

-----------------------------------------------------------------------------
(* Recording a notice *)

AboutTheService(event) == event = "service"

\* WantsImmediateMail: bell-only events stand in no switch.
WantsImmediateMail(p, event) ==
    /\ mail.enabled /\ event \in mail.allowed
    /\ pref[p].email_enabled /\ event \notin pref[p].muted
    /\ ~pref[p].daily

\* A notice whose mail is queued is marked with the job.
MarkOf_later(own, mailed) == own
MarkOf(own, mailed) == own \/ mailed

\* notifyTx: the notice, its job and the mark are one transaction.
NotifyTx(p, event, actor) ==
    LET own  == actor = p /\ ~AboutTheService(event)
        mailed == ~own /\ WantsImmediateMail(p, event)
    IN  /\ notice' = [notice EXCEPT ![NewId] =
                        [to |-> p, event |-> event, emailed |-> MarkOf(own, mailed), own |-> own]]
        /\ job' = IF mailed THEN [job EXCEPT ![NewId].status = "PENDING", ![NewId].due = TRUE]
                            ELSE job

Notify(p, event, actor) ==
    /\ \E i \in Ids : notice[i] = None
    /\ NotifyTx(p, event, actor)
    /\ UNCHANGED <<records, copies, alarms, people, mail, worker, budget>>

HasFailed_once(i) == job[i].status = "FAILED" /\ age[i] = 0
HasFailed(i) == job[i].status = "FAILED" /\ age[i] < Window

\* uninformedAdmins leaves these out.
IsTold(p) == told[p] < Window

Older(n) == IF n < Window THEN n + 1 ELSE n

\* alertFailedJobs an hour after the last one; the insert fails for some, or
\* the count or the look-up for all of them.  It writes a notice and no job:
\* an alarm about the queue must not depend on the queue.
AlertFailedJobs(unheard) ==
    /\ IF unheard = {} THEN budget' = budget ELSE Fails
    /\ told' = [p \in Admins |->
                  IF (\E i \in Ids : HasFailed(i)) /\ ~IsTold(p) /\ p \notin unheard
                  THEN 0 ELSE Older(told[p])]
    /\ age' = [i \in Ids |-> IF job[i].status = "FAILED" THEN Older(age[i]) ELSE age[i]]
    /\ UNCHANGED <<rows, people, mail, worker>>

-----------------------------------------------------------------------------
(* What people and administrators change *)

\* updateNotificationPreferences leaves digest_sent_at alone.
UpdatePreferences(p, wish) ==
    /\ pref[p] # wish
    /\ pref' = [pref EXCEPT ![p] = wish]
    /\ Spend("switches", MaxSwitches)
    /\ UNCHANGED <<rows, alarms, today, active, mail, worker>>

UpdateMailSetting(setting) ==
    /\ mail # setting
    /\ mail' = setting
    /\ Spend("switches", MaxSwitches)
    /\ UNCHANGED <<rows, alarms, people, worker>>

CloseAccount(p) ==
    /\ p \in active
    /\ active' = active \ {p}
    /\ Spend("switches", MaxSwitches)
    /\ UNCHANGED <<rows, alarms, pref, today, mail, worker>>

\* retryJob; a RUNNING row has to be older than fifteen minutes.
RetryJob(i) ==
    /\ job[i].status \in {"FAILED", "PENDING", "RUNNING"}
    /\ job[i].status = "RUNNING" => worker.phase = "idle"
    /\ job' = [job EXCEPT ![i] = [NoJob EXCEPT !.status = "PENDING", !.due = TRUE]]
    /\ age' = [age EXCEPT ![i] = 0]
    /\ Spend("retries", MaxRetries)
    /\ UNCHANGED <<notice, records, copies, told, people, mail, worker>>

\* retryFailedJobs
RetryFailedJobs ==
    /\ \E i \in Ids : job[i].status = "FAILED"
    /\ job' = [i \in Ids |-> IF job[i].status # "FAILED" THEN job[i]
                             ELSE [NoJob EXCEPT !.status = "PENDING", !.due = TRUE]]
    /\ age' = [i \in Ids |-> IF job[i].status = "FAILED" THEN 0 ELSE age[i]]
    /\ Spend("retries", MaxRetries)
    /\ UNCHANGED <<notice, records, copies, told, people, mail, worker>>

-----------------------------------------------------------------------------
(* The queue *)

\* The back-off of fail() has passed.
BecomeDue(i) ==
    /\ job[i].status = "PENDING" /\ ~job[i].due
    /\ job' = [job EXCEPT ![i].due = TRUE]
    /\ UNCHANGED <<notice, records, copies, alarms, people, mail, worker, budget>>

Claimable(i) == job[i].status = "PENDING" /\ job[i].due

Claim(i) ==
    /\ worker.phase = "idle"
    /\ Claimable(i) /\ \A k \in Ids : Claimable(k) => i <= k
    /\ job' = [job EXCEPT ![i].status = "RUNNING", ![i].attempts = @ + 1]
    /\ worker' = [Resting EXCEPT !.phase = "claimed", !.id = i, !.attempt = job[i].attempts + 1]
    /\ UNCHANGED <<notice, records, copies, alarms, people, mail, budget>>

\* deliver() asks the switches again: whatever was queued before they were
\* turned is skipped, on record.  The preference is not asked again, nor is
\* whether the account is open.
Deliverable(i) ==
    /\ notice[i].to \in Addressed
    /\ mail.enabled /\ notice[i].event \in mail.allowed

DeliverGone ==
    /\ worker.phase = "claimed" /\ ~Stands(worker.id)
    /\ worker' = [worker EXCEPT !.phase = "givingUp"]
    /\ UNCHANGED <<rows, alarms, people, mail, budget>>

Skip ==
    /\ worker.phase = "claimed" /\ Stands(worker.id) /\ ~Deliverable(worker.id)
    /\ records' = [records EXCEPT ![worker.id] = @ \cup {"SKIPPED"}]
    /\ worker' = [worker EXCEPT !.phase = "givingUp"]
    /\ UNCHANGED <<notice, job, copies, alarms, people, mail, budget>>

\* The notice or the mail setting cannot be read: fail() without a record.
ReadFails ==
    /\ worker.phase = "claimed"
    /\ records' = [records EXCEPT ![worker.id] = @ \cup {"lost"}]
    /\ worker' = [worker EXCEPT !.phase = "failing"]
    /\ Fails
    /\ UNCHANGED <<notice, job, copies, alarms, people, mail>>

Deliver ==
    /\ worker.phase = "claimed" /\ Stands(worker.id) /\ Deliverable(worker.id)
    /\ worker' = [worker EXCEPT !.phase = "sending"]
    /\ UNCHANGED <<rows, alarms, people, mail, budget>>

\* The relay takes the mail and says so.
Taken ==
    /\ worker.phase = "sending"
    /\ copies' = [copies EXCEPT ![worker.id] = @ + 1]
    /\ worker' = [worker EXCEPT !.phase = "taken"]
    /\ UNCHANGED <<notice, job, records, alarms, people, mail, budget>>

\* Send ends in client.Quit(): the relay holds the mail already when that fails.
TakenUnheard ==
    /\ worker.phase = "sending"
    /\ copies' = [copies EXCEPT ![worker.id] = @ + 1]
    /\ worker' = [worker EXCEPT !.phase = "refused"]
    /\ Happens("answer")
    /\ UNCHANGED <<notice, job, records, alarms, people, mail>>

Refused ==
    /\ worker.phase = "sending"
    /\ worker' = [worker EXCEPT !.phase = "refused"]
    /\ UNCHANGED <<rows, alarms, people, mail, budget>>

\* sendMail's record and the mark, which stands since the notice was written
\* and is set again in case it does not.
RecordSent ==
    /\ worker.phase = "taken"
    /\ records' = [records EXCEPT ![worker.id] = @ \cup {"SENT"}]
    /\ notice' = IF Stands(worker.id) THEN [notice EXCEPT ![worker.id].emailed = TRUE] ELSE notice
    /\ worker' = [worker EXCEPT !.phase = "completing"]
    /\ UNCHANGED <<job, copies, alarms, people, mail, budget>>

RecordFailed ==
    /\ worker.phase = "refused"
    /\ records' = [records EXCEPT ![worker.id] = @ \cup {"FAILED"}]
    /\ worker' = [worker EXCEPT !.phase = "failing"]
    /\ UNCHANGED <<notice, job, copies, alarms, people, mail, budget>>

\* A record that fails is logged, and the worker goes on without it.
RecordLost ==
    /\ \/ /\ worker.phase = "claimed" /\ Stands(worker.id) /\ ~Deliverable(worker.id)
          /\ worker' = [worker EXCEPT !.phase = "givingUp"]
       \/ worker.phase = "taken" /\ worker' = [worker EXCEPT !.phase = "completing"]
       \/ worker.phase = "refused" /\ worker' = [worker EXCEPT !.phase = "failing"]
    /\ records' = [records EXCEPT ![worker.id] = @ \cup {"lost"}]
    /\ Fails
    /\ UNCHANGED <<notice, job, copies, alarms, people, mail>>

\* An UPDATE by id finds nothing once retention has taken the row.
Close(i, row) == IF job[i].status = "deleted" THEN job ELSE [job EXCEPT ![i] = row]

Complete ==
    /\ worker.phase = "completing"
    /\ job' = Close(worker.id, [job[worker.id] EXCEPT !.status = "COMPLETED"])
    /\ worker' = Resting
    /\ UNCHANGED <<notice, records, copies, alarms, people, mail, budget>>

GiveUp ==
    /\ worker.phase = "givingUp"
    /\ job' = Close(worker.id, [job[worker.id] EXCEPT !.status = "COMPLETED", !.notSent = TRUE])
    /\ worker' = Resting
    /\ UNCHANGED <<notice, records, copies, alarms, people, mail, budget>>

\* fail() puts the job back or ends it.
Fail ==
    /\ worker.phase = "failing"
    /\ job' = Close(worker.id,
                    [job[worker.id] EXCEPT
                       !.status = IF worker.attempt >= MaxAttempts THEN "FAILED" ELSE "PENDING",
                       !.due = FALSE])
    /\ worker' = Resting
    /\ UNCHANGED <<notice, records, copies, alarms, people, mail, budget>>

\* The errors of these three writes are thrown away; the row stays RUNNING.
ClosingLost ==
    /\ worker.phase \in {"completing", "givingUp", "failing"}
    /\ worker' = Resting
    /\ Happens("write")
    /\ UNCHANGED <<rows, alarms, people, mail>>

-----------------------------------------------------------------------------
(* The daily summary *)

\* A notice the summary of p would carry, under what p muted and what the
\* switches let through.
Collectable(i, p, muted, allowed) ==
    /\ Stands(i) /\ notice[i].to = p /\ ~notice[i].emailed
    /\ notice[i].event \notin muted /\ notice[i].event \in allowed

\* digestRecipients
DigestRecipients ==
    {p \in active \cap Addressed :
        /\ pref[p].daily /\ pref[p].email_enabled
        /\ ~today[p]
        /\ \E i \in Ids : Collectable(i, p, pref[p].muted, mail.allowed)}

StartDigests ==
    /\ worker.phase = "idle"
    /\ mail.enabled
    /\ DigestRecipients # {}
    /\ worker' = [Resting EXCEPT !.phase = "digesting", !.todo = DigestRecipients,
                    !.muted = [p \in People |-> IF p \in DigestRecipients THEN pref[p].muted ELSE {}],
                    !.allowed = mail.allowed]
    /\ UNCHANGED <<rows, alarms, people, mail, budget>>

Oldest(S) == {i \in S : Cardinality({k \in S : k < i}) < DigestLimit}

\* What the worker read with the recipients still holds for it here.
CollectDigest(p) ==
    /\ worker.phase = "digesting" /\ p \in worker.todo
    /\ LET found == Oldest({i \in Ids : Collectable(i, p, worker.muted[p], worker.allowed)})
       IN  worker' = IF found = {} THEN [worker EXCEPT !.todo = @ \ {p}]
                     ELSE [worker EXCEPT !.phase = "summing", !.reader = p,
                                         !.todo = @ \ {p}, !.included = found]
    /\ UNCHANGED <<rows, alarms, people, mail, budget>>

NextReader == [worker EXCEPT !.phase = "digesting", !.reader = None, !.included = {}]

HandOverDigest ==
    /\ copies' = [i \in Ids |-> IF i \in worker.included THEN copies[i] + 1 ELSE copies[i]]

DigestTaken ==
    /\ worker.phase = "summing"
    /\ HandOverDigest
    /\ worker' = [worker EXCEPT !.phase = "marking"]
    /\ UNCHANGED <<notice, job, records, alarms, pref, today, active, mail, budget>>

\* Nothing is marked, and the reader is a recipient again in ten minutes.
DigestUnheard ==
    /\ worker.phase = "summing"
    /\ HandOverDigest
    /\ worker' = NextReader
    /\ Happens("answer")
    /\ UNCHANGED <<notice, job, records, alarms, pref, today, active, mail>>

DigestRefused ==
    /\ worker.phase = "summing"
    /\ worker' = NextReader
    /\ UNCHANGED <<rows, alarms, people, mail, budget>>

\* Exactly what was sent is marked as sent.
Marked_allUnsent == {i \in Ids : Stands(i) /\ notice[i].to = worker.reader}
Marked == {i \in worker.included : Stands(i)}

MarkDigest ==
    /\ worker.phase = "marking"
    /\ notice' = [i \in Ids |-> IF i \in Marked THEN [notice[i] EXCEPT !.emailed = TRUE]
                                ELSE notice[i]]
    /\ worker' = [worker EXCEPT !.phase = "stamping"]
    /\ UNCHANGED <<job, records, copies, alarms, people, mail, budget>>

StampDigest ==
    /\ worker.phase = "stamping"
    /\ today' = [today EXCEPT ![worker.reader] = TRUE]
    /\ worker' = NextReader
    /\ UNCHANGED <<rows, alarms, pref, active, mail, budget>>

\* Either update may fail; the worker logs it and goes on.
MarkLost ==
    /\ worker.phase \in {"marking", "stamping"}
    /\ worker' = IF worker.phase = "marking" THEN [worker EXCEPT !.phase = "stamping"]
                 ELSE NextReader
    /\ Happens("write")
    /\ UNCHANGED <<rows, alarms, people, mail>>

EndDigests ==
    /\ worker.phase = "digesting" /\ worker.todo = {}
    /\ worker' = Resting
    /\ UNCHANGED <<rows, alarms, people, mail, budget>>

\* The digest hour of the next day in the reader's zone.
IsStale_never(p) == FALSE
IsStale(p) == today[p]

NextDay ==
    /\ today' = [p \in People |-> today[p] /\ ~IsStale(p)]
    /\ today' # today
    /\ UNCHANGED <<rows, alarms, pref, active, mail, worker, budget>>

-----------------------------------------------------------------------------
(* Maintenance and crashes *)

\* requeueAbandonedJobs, and the worker's own repair when it starts.  A slow
\* relay holds a lock longer than that, so the worker may still be at it.
IsOverdue_never(i) == FALSE
IsOverdue(i) == job[i].status = "RUNNING"

RequeueAbandoned ==
    /\ \E i \in Ids : IsOverdue(i)
    /\ job' = [i \in Ids |-> IF IsOverdue(i)
                             THEN [job[i] EXCEPT !.status = "PENDING", !.due = TRUE] ELSE job[i]]
    /\ UNCHANGED <<notice, records, copies, alarms, people, mail, worker, budget>>

\* Sweep: retention of jobs and of notifications, days after the alarm.
SweepJob(i) ==
    /\ job[i].status \in {"COMPLETED", "FAILED"}
    /\ job[i].status = "FAILED" => age[i] = Window
    /\ job' = [job EXCEPT ![i] = [NoJob EXCEPT !.status = "deleted"]]
    /\ age' = [age EXCEPT ![i] = 0]
    /\ UNCHANGED <<notice, records, copies, told, people, mail, worker, budget>>

SweepNotice(i) ==
    /\ Stands(i)
    /\ notice' = [notice EXCEPT ![i] = Gone]
    /\ UNCHANGED <<job, records, copies, alarms, people, mail, worker, budget>>

Crash ==
    /\ worker.phase # "idle"
    /\ worker' = Resting
    /\ Happens("crash")
    /\ UNCHANGED <<rows, alarms, people, mail>>

-----------------------------------------------------------------------------

Send      == Taken \/ TakenUnheard \/ Refused
SendDigest == DigestTaken \/ DigestUnheard \/ DigestRefused

Work ==
    \/ \E i \in Ids : Claim(i)
    \/ DeliverGone \/ Skip \/ ReadFails \/ Deliver \/ Send
    \/ RecordSent \/ RecordFailed \/ RecordLost
    \/ Complete \/ GiveUp \/ Fail \/ ClosingLost
    \/ StartDigests \/ (\E p \in People : CollectDigest(p))
    \/ SendDigest \/ MarkDigest \/ StampDigest \/ MarkLost \/ EndDigests

Next ==
    \/ \E p \in People, event \in Raised, actor \in People \cup {None} : Notify(p, event, actor)
    \/ \E p \in People : CloseAccount(p)
    \/ \E p \in People, wish \in Readers : UpdatePreferences(p, wish)
    \/ \E setting \in Settings : UpdateMailSetting(setting)
    \/ \E i \in Ids : RetryJob(i) \/ BecomeDue(i) \/ SweepJob(i) \/ SweepNotice(i)
    \/ \E unheard \in SUBSET Admins : AlertFailedJobs(unheard)
    \/ RetryFailedJobs \/ RequeueAbandoned \/ NextDay \/ Crash
    \/ Work

\* The worker runs on and looks at the queue between summaries, time passes,
\* the sweep comes every hour, and a relay that is asked again and again takes
\* a mail now and then.
Fairness ==
    /\ WF_vars(Work)
    /\ SF_vars(\E i \in Ids : Claim(i))
    /\ WF_vars(RequeueAbandoned)
    /\ WF_vars(NextDay)
    /\ SF_vars(DigestTaken)
    /\ \A i \in Ids : WF_vars(BecomeDue(i))
    /\ WF_vars(\E unheard \in SUBSET Admins : AlertFailedJobs(unheard))

Spec == Init /\ [][Next]_vars /\ Fairness

-----------------------------------------------------------------------------
(* Properties *)

\* Every variable holds what the code may put there.
TypeOK ==
    /\ notice \in [Ids -> Notice \cup {None, Gone}]
    /\ job \in [Ids -> Job]
    /\ records \in [Ids -> SUBSET Records]
    /\ copies \in [Ids -> Nat]
    /\ age \in [Ids -> 0..Window]
    /\ told \in [Admins -> 0..Window]
    /\ pref \in [People -> Readers \cup {Default}]
    /\ today \in [People -> BOOLEAN]
    /\ active \subseteq People
    /\ mail \in Settings
    /\ worker \in Holding
    /\ budget \in Budget

\* A notice marked as mailed is the reader's own doing, or reached the relay,
\* or is still in the queue, or its row or the delivery record says why it
\* never went out, unless a read or a record about this very notice failed
\* (worker.go, deliver, skip and giveUp; sendDigests' list of ids).
IsAccountedFor(i) ==
    \/ notice[i].own
    \/ copies[i] > 0
    \/ job[i].status \in {"PENDING", "RUNNING", "FAILED"}
    \/ job[i].status = "COMPLETED" /\ job[i].notSent
    \/ job[i].status = "deleted" /\ records[i] # {}

NoMailIsLost == \A i \in Ids : Stands(i) /\ notice[i].emailed => IsAccountedFor(i)

\* The queue and the summary never both mail one notice, and the queue mails
\* it once: every further copy had a crash, a failed write or a lost answer
\* before it (notifyTx marks the notice with the job it queues).
CopiesHaveCauses ==
    \A i \in Ids : copies[i] <= 1 + budget.mishaps

\* What is in the queue leaves it: sent, given up or out of attempts.
QueuedMailEnds ==
    \A i \in Ids : job[i].status \in {"PENDING", "RUNNING"}
                    ~> job[i].status \in {"COMPLETED", "FAILED", "deleted"}

\* A notice a daily reader goes on wanting is not left out of every summary,
\* however many came before it and whatever the relay refused.
IsAwaited(i) ==
    /\ Stands(i)
    /\ notice[i].to \in active \cap Addressed
    /\ pref[notice[i].to].daily /\ pref[notice[i].to].email_enabled
    /\ mail.enabled
    /\ Collectable(i, notice[i].to, pref[notice[i].to].muted, mail.allowed)

DigestReachesAll == \A i \in Ids : ~<>[]IsAwaited(i)

\* Mail that ran out of attempts is on the bell of every administrator: one
\* who has not been told of failed jobs within the window is told before the
\* failure is too old to be asked about, though a sweep fails in between
\* (alertFailedJobs, uninformedAdmins).
FailureIsReported ==
    \A i \in Ids, p \in Admins :
        job[i].status = "FAILED" /\ age[i] = 0 ~> job[i].status # "FAILED" \/ IsTold(p)

=============================================================================
