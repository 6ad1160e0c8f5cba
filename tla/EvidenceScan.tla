----------------------------- MODULE EvidenceScan -----------------------------
(***************************************************************************)
(* Malware scanning of evidence: the upload handlers of                    *)
(* internal/web/evidence.go, the queue in table jobs, the worker of        *)
(* internal/scanner, the repairs of internal/maintenance and the           *)
(* administrator's retries in internal/web/admin.go.                       *)
(*                                                                         *)
(* Every statement and every committed transaction is one step.  The       *)
(* worker is one goroutine; a crash of the process loses what it holds     *)
(* and leaves what the database was told.                                  *)
(***************************************************************************)
EXTENDS Naturals, Sequences, SequencesExt

CONSTANTS
    Files,        \* rows of evidences
    Handlers,     \* uploads in flight at a time (bound)
    ScannerModes, \* values the clamav_enabled setting may take
    MaxAttempts,  \* maxAttempts: a job that failed so often is FAILED
    MaxVersions,  \* bound on the versions of a file
    MaxJobs,      \* bound on the rows of jobs at a time
    MaxCrashes,   \* bound on crashes of the worker
    MaxRetries,   \* bound on the administrator's retries
    None

ASSUME ScanAssumption ==
    /\ None \notin Files
    /\ ScannerModes \subseteq BOOLEAN /\ ScannerModes # {}
    /\ MaxAttempts \in Nat \ {0}
    /\ MaxVersions \in Nat /\ MaxJobs \in Nat
    /\ MaxCrashes \in Nat /\ MaxRetries \in Nat

VARIABLES
    scan,      \* evidences.scan_status, "none" before the upload
    deleted,   \* evidences.deleted_at is set
    versions,  \* evidence_versions: what was uploaded and its scan_status
    jobs,      \* SCAN_EVIDENCE rows in the order they were created
    worker,    \* what the scanner goroutine holds
    arriving,  \* uploads between the settings they read and their commit
    reopening, \* files the administrator's retry still has to reopen
    enabled,   \* setting clamav_enabled
    crashes, retries

files == <<scan, deleted, versions>>
bounds == <<crashes, retries>>
vars  == <<files, jobs, worker, arriving, reopening, enabled, bounds>>

ScanStatuses == {"PENDING", "CLEAN", "INFECTED", "ERROR", "SKIPPED"}
Contents     == {"clean", "infected"}
JobIds       == 1..MaxJobs
Phases       == {"idle", "claimed", "scanning", "releasing", "failing",
                 "marking", "done"}

Version == [content : Contents, scan : ScanStatuses]
Job     == [id : JobIds, file : Files, status : {"PENDING", "RUNNING", "FAILED"},
            attempts : Nat, due : BOOLEAN]
Upload  == [file : Files, scan : {"PENDING", "SKIPPED"}]
Holding == [phase : Phases, job : JobIds \cup {0}, file : Files \cup {None},
            attempt : Nat, version : Nat]

\* What no later step reads is not kept.
Resting == [phase |-> "idle", job |-> 0, file |-> None, attempt |-> 0,
            version |-> 0]

Init ==
    /\ scan = [f \in Files |-> "none"]
    /\ deleted = [f \in Files |-> FALSE]
    /\ versions = [f \in Files |-> <<>>]
    /\ jobs = <<>>
    /\ worker = Resting
    /\ arriving = [h \in Handlers |-> None]
    /\ reopening = {}
    /\ enabled \in ScannerModes
    /\ crashes = 0 /\ retries = 0

-----------------------------------------------------------------------------
(* The queue.  A completed row is read by nobody and is dropped at once. *)

FreeIds == JobIds \ {jobs[k].id : k \in DOMAIN jobs}

Enqueue(f) ==
    \E id \in FreeIds :
       /\ \A other \in FreeIds : id <= other
       /\ jobs' = Append(jobs, [id |-> id, file |-> f, status |-> "PENDING",
                                attempts |-> 0, due |-> TRUE])

Drop(j) == \E k \in DOMAIN jobs : jobs[k].id = j /\ jobs' = RemoveAt(jobs, k)

Back(row) == [row EXCEPT !.status = "PENDING", !.due = TRUE]

IsLive(row)  == row.status \in {"PENDING", "RUNNING"}
Waits(f)     == ~deleted[f] /\ scan[f] \in {"PENDING", "ERROR"}
Lost         == {f \in Files : /\ Waits(f)
                               /\ \A k \in DOMAIN jobs : IsLive(jobs[k]) => jobs[k].file # f}

\* A lock older than fifteen minutes: its worker is gone, since a scan gives
\* up after ten.
Abandoned(row) == /\ row.status = "RUNNING"
                  /\ ~(worker.phase # "idle" /\ worker.job = row.id)

-----------------------------------------------------------------------------
(* Uploading *)

\* readAndValidateEvidence: the setting decides here whether there is a scan.
Receive(h, f) ==
    /\ arriving[h] = None
    /\ Len(versions[f]) < MaxVersions
    /\ \/ scan[f] # "none" /\ ~deleted[f]
       \/ scan[f] = "none" /\ \A g \in Handlers : arriving[g] # None => arriving[g].file # f
    /\ arriving' = [arriving EXCEPT ![h] =
                      [file |-> f, scan |-> IF enabled THEN "PENDING" ELSE "SKIPPED"]]
    /\ UNCHANGED <<files, jobs, worker, reopening, enabled, bounds>>

\* uploadEvidence and newEvidenceVersion commit the row, the version and the
\* job together.  The row is locked, its deletion is not asked about again.
Store(h) ==
    /\ arriving[h] # None
    /\ LET f == arriving[h].file
           s == arriving[h].scan
       IN  /\ Len(versions[f]) < MaxVersions
           /\ scan' = [scan EXCEPT ![f] = s]
           /\ \E c \in Contents :
                 versions' = [versions EXCEPT ![f] = Append(@, [content |-> c, scan |-> s])]
           /\ IF s = "PENDING" THEN Enqueue(f) ELSE UNCHANGED jobs
    /\ arriving' = [arriving EXCEPT ![h] = None]
    /\ UNCHANGED <<deleted, worker, reopening, enabled, bounds>>

GiveUp(h) ==
    /\ arriving[h] # None
    /\ arriving' = [arriving EXCEPT ![h] = None]
    /\ UNCHANGED <<files, jobs, worker, reopening, enabled, bounds>>

\* deleteEvidence
Delete(f) ==
    /\ scan[f] # "none" /\ ~deleted[f]
    /\ deleted' = [deleted EXCEPT ![f] = TRUE]
    /\ UNCHANGED <<scan, versions, jobs, worker, arriving, reopening, enabled, bounds>>

-----------------------------------------------------------------------------
(* The scanner *)

Over     == [Resting EXCEPT !.phase = "done", !.job = worker.job]
Ready(k) == jobs[k].status = "PENDING" /\ jobs[k].due

Claim ==
    /\ worker.phase = "idle"
    /\ \E k \in DOMAIN jobs :
          /\ Ready(k) /\ \A earlier \in 1..k-1 : ~Ready(earlier)
          /\ jobs' = [jobs EXCEPT ![k].status = "RUNNING", ![k].attempts = @ + 1]
          /\ worker' = [Resting EXCEPT !.phase = "claimed", !.job = jobs[k].id,
                          !.file = jobs[k].file, !.attempt = jobs[k].attempts + 1]
    /\ UNCHANGED <<files, arriving, reopening, enabled, bounds>>

\* scan: a file that is not waiting is left alone; with scanning switched off
\* it is released; otherwise the version that is current now goes to clamd.
Load ==
    /\ worker.phase = "claimed"
    /\ worker' = CASE scan[worker.file] # "PENDING" -> Over
                   [] scan[worker.file] = "PENDING" /\ ~enabled
                        -> [worker EXCEPT !.phase = "releasing"]
                   [] OTHER -> [worker EXCEPT !.phase = "scanning",
                                              !.version = Len(versions[worker.file])]
    /\ UNCHANGED <<files, jobs, arriving, reopening, enabled, bounds>>

\* Variant: the row alone, as long as nothing read the history.
Settle_rowOnly(s) ==
    /\ scan' = [scan EXCEPT ![worker.file] = s]
    /\ worker' = Over
    /\ UNCHANGED <<deleted, versions, jobs, arriving, reopening, enabled, bounds>>

\* finish: the row, and the version that is current by now.
Settle(s) ==
    LET f == worker.file
    IN  /\ scan' = [scan EXCEPT ![f] = s]
        /\ versions' = [versions EXCEPT ![f][Len(versions[f])].scan = s]
        /\ worker' = Over
        /\ UNCHANGED <<deleted, jobs, arriving, reopening, enabled, bounds>>

Scanned == versions[worker.file][worker.version].content

\* Variant: any reply from clamd counts as OK.
FoundClean_anyReply == worker.phase = "scanning" /\ Settle("CLEAN")

FoundClean == worker.phase = "scanning" /\ Scanned = "clean" /\ Settle("CLEAN")
Released   == worker.phase = "releasing" /\ Settle("SKIPPED")

\* quarantine: the row, its deletion and every version.
Quarantine ==
    /\ worker.phase = "scanning" /\ Scanned = "infected"
    /\ LET f == worker.file
       IN  /\ scan' = [scan EXCEPT ![f] = "INFECTED"]
           /\ deleted' = [deleted EXCEPT ![f] = TRUE]
           /\ versions' = [versions EXCEPT ![f] =
                 [v \in DOMAIN versions[f] |-> [versions[f][v] EXCEPT !.scan = "INFECTED"]]]
    /\ worker' = Over
    /\ UNCHANGED <<jobs, arriving, reopening, enabled, bounds>>

\* clamd, the key, the file or the database failed.
ScanFails ==
    /\ worker.phase \in {"claimed", "scanning", "releasing"}
    /\ worker' = [worker EXCEPT !.phase = "failing", !.version = 0]
    /\ UNCHANGED <<files, jobs, arriving, reopening, enabled, bounds>>

Complete ==
    /\ worker.phase = "done"
    /\ Drop(worker.job)
    /\ worker' = Resting
    /\ UNCHANGED <<files, arriving, reopening, enabled, bounds>>

\* fail: back in the queue after a pause, or FAILED; the file is marked in a
\* statement of its own.
Fail ==
    /\ worker.phase = "failing"
    /\ LET final == worker.attempt >= MaxAttempts
       IN  /\ jobs' = [k \in DOMAIN jobs |->
                         IF jobs[k].id # worker.job THEN jobs[k]
                         ELSE [jobs[k] EXCEPT !.status = IF final THEN "FAILED" ELSE "PENDING",
                                              !.due = FALSE]]
           /\ worker' = IF final THEN [worker EXCEPT !.phase = "marking"] ELSE Resting
    /\ UNCHANGED <<files, arriving, reopening, enabled, bounds>>

MarkError ==
    /\ worker.phase = "marking"
    /\ scan' = [scan EXCEPT ![worker.file] = IF @ = "PENDING" THEN "ERROR" ELSE @]
    /\ worker' = Resting
    /\ UNCHANGED <<deleted, versions, jobs, arriving, reopening, enabled, bounds>>

\* The process stops, or the statement that closes the job fails: Run drops
\* the error, and the row stays RUNNING either way.
Crash ==
    /\ crashes < MaxCrashes
    /\ worker.phase # "idle"
    /\ crashes' = crashes + 1
    /\ worker' = Resting
    /\ UNCHANGED <<files, jobs, arriving, reopening, enabled, retries>>

-----------------------------------------------------------------------------
(* Time and the hourly sweep *)

PauseEnds ==
    /\ \E k \in DOMAIN jobs :
          /\ jobs[k].status = "PENDING" /\ ~jobs[k].due
          /\ jobs' = [jobs EXCEPT ![k].due = TRUE]
    /\ UNCHANGED <<files, worker, arriving, reopening, enabled, bounds>>

\* Variant: only failed rows are looked at, a lock is for ever.
Requeueable_failed(row) == row.status = "FAILED"
Requeueable(row) == Abandoned(row)

\* requeueAbandonedJobs, and Run when the process starts.
RequeueAbandoned ==
    /\ \E k \in DOMAIN jobs : Requeueable(jobs[k])
    /\ jobs' = [k \in DOMAIN jobs |-> IF Requeueable(jobs[k]) THEN Back(jobs[k]) ELSE jobs[k]]
    /\ UNCHANGED <<files, worker, arriving, reopening, enabled, bounds>>

\* requeueLostScans of the sweep, and the last statement of retryFailedJobs;
\* the rows of the INSERT ... SELECT do not depend on each other.
RequeueLost ==
    /\ \E f \in Lost : Enqueue(f)
    /\ UNCHANGED <<files, worker, arriving, reopening, enabled, bounds>>

\* A failed row is deleted after ninety days.
ForgetFailed ==
    /\ \E k \in DOMAIN jobs :
          /\ jobs[k].status = "FAILED"
          /\ ~(worker.phase = "marking" /\ worker.job = jobs[k].id)
          /\ Drop(jobs[k].id)
    /\ UNCHANGED <<files, worker, arriving, reopening, enabled, bounds>>

-----------------------------------------------------------------------------
(* The administrator *)

\* retryJob: the job first, the file in a second statement.
RetryJob ==
    /\ retries < MaxRetries /\ reopening = {}
    /\ \E k \in DOMAIN jobs :
          /\ jobs[k].status \in {"FAILED", "PENDING"} \/ Abandoned(jobs[k])
          /\ jobs' = [jobs EXCEPT ![k] = [Back(@) EXCEPT !.attempts = 0]]
          /\ reopening' = {jobs[k].file}
    /\ retries' = retries + 1
    /\ UNCHANGED <<files, worker, arriving, enabled, crashes>>

\* retryFailedJobs
RetryAll ==
    /\ retries < MaxRetries /\ reopening = {}
    /\ jobs' = [k \in DOMAIN jobs |-> IF jobs[k].status = "FAILED"
                                      THEN [Back(jobs[k]) EXCEPT !.attempts = 0]
                                      ELSE jobs[k]]
    /\ reopening' = {f \in Files : ~deleted[f]}
    /\ retries' = retries + 1
    /\ UNCHANGED <<files, worker, arriving, enabled, crashes>>

Reopen ==
    /\ reopening # {}
    /\ scan' = [f \in Files |-> IF f \in reopening /\ scan[f] = "ERROR"
                                THEN "PENDING" ELSE scan[f]]
    /\ reopening' = {}
    /\ UNCHANGED <<deleted, versions, jobs, worker, arriving, enabled, bounds>>

\* The second statement failed, or the process stopped before it.
NotReopened ==
    /\ reopening # {}
    /\ reopening' = {}
    /\ UNCHANGED <<files, jobs, worker, arriving, enabled, bounds>>

SwitchScanner ==
    /\ enabled' \in ScannerModes \ {enabled}
    /\ UNCHANGED <<files, jobs, worker, arriving, reopening, bounds>>

-----------------------------------------------------------------------------

Uploads == \/ \E h \in Handlers, f \in Files : Receive(h, f)
           \/ \E h \in Handlers : Store(h)
           \/ \E h \in Handlers : GiveUp(h)
           \/ \E f \in Files : Delete(f)

Run == \/ Claim \/ Load \/ FoundClean \/ Released \/ Quarantine \/ ScanFails
       \/ Complete \/ Fail \/ MarkError

Sweep == PauseEnds \/ RequeueAbandoned \/ RequeueLost \/ ForgetFailed

Admin == RetryJob \/ RetryAll \/ Reopen \/ NotReopened \/ SwitchScanner

Next == Uploads \/ Run \/ Crash \/ Sweep \/ Admin

\* The worker polls every five seconds and every call of its has a deadline;
\* the clock goes on; the sweep runs every hour.  Nobody has to upload, to
\* delete or to press retry, and a scan need not succeed.
Fairness == /\ WF_vars(Run)
            /\ WF_vars(PauseEnds)
            /\ WF_vars(RequeueAbandoned)
            /\ WF_vars(RequeueLost)
            /\ WF_vars(ForgetFailed)

Spec == Init /\ [][Next]_vars /\ Fairness

-----------------------------------------------------------------------------
(* Type invariant: the columns hold what the queries expect to find. *)

TypeOK ==
    /\ scan \in [Files -> ScanStatuses \cup {"none"}]
    /\ deleted \in [Files -> BOOLEAN]
    /\ versions \in [Files -> Seq(Version)]
    /\ jobs \in Seq(Job)
    /\ worker \in Holding
    /\ arriving \in [Handlers -> Upload \cup {None}]
    /\ reopening \in SUBSET Files
    /\ enabled \in ScannerModes
    /\ crashes \in Nat /\ retries \in Nat

Latest(f) == versions[f][Len(versions[f])]

\* A file that may be downloaded as CLEAN is one clamd found clean: until then
\* downloads, the archive and submission refuse it (package scanner).  A file
\* replaced during its scan is excepted (finish marks the newest version);
\* for the others no crash, retry, requeue
\* or switching of the scanner opens the gate.
UnreplacedIsFailClosed ==
    \A f \in Files : scan[f] = "CLEAN" /\ ~deleted[f] /\ Len(versions[f]) = 1
                        => Latest(f).content = "clean"

\* The row and its current version tell the same story, except that a failed
\* scan is noted on the row alone (finish, quarantine, fail).
HistoryAgrees ==
    \A f \in Files : versions[f] # <<>> =>
        Latest(f).scan = IF scan[f] = "ERROR" THEN "PENDING" ELSE scan[f]

\* No file waits for its scan for ever: the job written with the upload, the
\* repair of abandoned locks and that of lost jobs reach it (enqueueScan,
\* requeueAbandonedJobs, requeueLostScans).
EveryUploadIsDecided ==
    \A f \in Files : (scan[f] = "PENDING" /\ ~deleted[f])
                        ~> (scan[f] # "PENDING" \/ deleted[f])
=============================================================================
