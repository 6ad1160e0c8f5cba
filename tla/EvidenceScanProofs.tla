-------------------------- MODULE EvidenceScanProofs --------------------------
(***************************************************************************)
(* Proofs about EvidenceScan, for any number of files, uploads, versions,  *)
(* jobs, crashes and retries.  The first part asks nothing of the queue:   *)
(* whatever job the worker takes and however often, the row and the        *)
(* history agree and the gate stays shut.  The second is about the queue.  *)
(***************************************************************************)
EXTENDS EvidenceScan, SequenceTheorems, TLAPS

Holds(w) ==
    w = [phase |-> w.phase, job |-> w.job, file |-> w.file, attempt |-> w.attempt,
         version |-> w.version]

Typed ==
    /\ scan \in [Files -> ScanStatuses \cup {"none"}]
    /\ deleted \in [Files -> BOOLEAN]
    /\ versions \in [Files -> Seq(Version)]
    /\ arriving \in [Handlers -> Upload \cup {None}]
    /\ Holds(worker)

(* A file with a status has been uploaded, and what the scanner looks at is  *)
(* a version of its file.                                                    *)
Uploaded ==
    /\ \A f \in Files : scan[f] # "none" => versions[f] # << >>
    /\ worker.phase \in {"scanning", "releasing"} /\ worker.file \in Files =>
          versions[worker.file] # << >>
    /\ worker.phase = "scanning" /\ worker.file \in Files =>
          worker.version \in 1..Len(versions[worker.file])

Inv == Typed /\ Uploaded /\ HistoryAgrees /\ UnreplacedIsFailClosed

-----------------------------------------------------------------------------
(* Whatever leaves the files alone and keeps the scanner at a version.       *)
LEMMA FilesAlone ==
    ASSUME Inv, UNCHANGED files,
           arriving' \in [Handlers -> Upload \cup {None}],
           Holds(worker'), worker' = worker \/ worker'.phase \notin {"scanning", "releasing"}
    PROVE  Inv'
<1>1. Typed'
  BY DEF Inv, Typed, files, Holds
<1>2. Uploaded'
  <2>1. scan' = scan /\ versions' = versions
    BY DEF files
  <2>2. CASE worker' = worker
    BY <2>1, <2>2 DEF Inv, Uploaded
  <2>3. CASE worker'.phase \notin {"scanning", "releasing"}
    BY <2>1, <2>3 DEF Inv, Uploaded
  <2> QED
    BY <2>2, <2>3
<1>3. HistoryAgrees' /\ UnreplacedIsFailClosed'
  BY DEF Inv, HistoryAgrees, UnreplacedIsFailClosed, Latest, files
<1> QED
  BY <1>1, <1>2, <1>3 DEF Inv

(* One file gets a history and a status that fit.                            *)
LEMMA FileSettled ==
    ASSUME Inv, NEW f, NEW s \in ScanStatuses, NEW history \in Seq(Version),
           deleted' \in [Files -> BOOLEAN],
           scan' = [scan EXCEPT ![f] = s],
           versions' = [versions EXCEPT ![f] = history],
           f \in Files => /\ history # << >> /\ Len(history) >= Len(versions[f])
                          /\ history[Len(history)].scan = s
                          /\ s = "CLEAN" /\ Len(history) = 1
                                => history[Len(history)].content = "clean",
           s # "ERROR", \A g \in Files : g # f /\ deleted[g] => deleted'[g],
           arriving' \in [Handlers -> Upload \cup {None}],
           worker' = worker \/ worker' = Over
    PROVE  Inv'
<1>1. Typed'
  <2>1. Holds(worker')
    <3>1. CASE worker' = worker
      BY <3>1 DEF Inv, Typed, Holds
    <3>2. CASE worker' = Over
      BY <3>2 DEF Holds, Over, Resting
    <3> QED
      BY <3>1, <3>2
  <2>2. /\ scan' \in [Files -> ScanStatuses \cup {"none"}]
        /\ versions' \in [Files -> Seq(Version)]
    BY DEF Inv, Typed
  <2> QED
    BY <2>1, <2>2 DEF Typed, Holds
<1>2. \A g \in Files : /\ scan'[g] = IF g = f THEN s ELSE scan[g]
                       /\ versions'[g] = IF g = f THEN history ELSE versions[g]
  BY DEF Inv, Typed
<1>3. Uploaded'
  <2>1. \A g \in Files : scan'[g] # "none" => versions'[g] # << >>
    BY <1>2 DEF Inv, Uploaded
  <2>2. CASE worker' = Over
    BY <2>1, <2>2 DEF Uploaded, Over, Resting
  <2>3. CASE worker' = worker
    <3>1. ASSUME worker.phase = "scanning", worker.file \in Files
          PROVE  worker.version \in 1..Len(versions'[worker.file])
      <4>1. worker.version \in 1..Len(versions[worker.file])
        BY <3>1 DEF Inv, Uploaded
      <4>2. versions[worker.file] \in Seq(Version)
        BY <3>1 DEF Inv, Typed
      <4> QED
        BY <1>2, <3>1, <4>1, <4>2
    <3>2. ASSUME worker.phase = "releasing", worker.file \in Files
          PROVE  versions'[worker.file] # << >>
      BY <1>2, <3>2 DEF Inv, Uploaded
    <3>3. ASSUME worker.phase = "scanning", worker.file \in Files
          PROVE  versions'[worker.file] # << >>
      BY <1>2, <3>3 DEF Inv, Uploaded
    <3> QED
      BY <2>1, <2>3, <3>1, <3>2, <3>3 DEF Uploaded
  <2> QED
    BY <2>2, <2>3
<1>4. HistoryAgrees'
  BY <1>2 DEF Inv, HistoryAgrees, Latest
<1>5. UnreplacedIsFailClosed'
  BY <1>2 DEF Inv, UnreplacedIsFailClosed, Latest
<1> QED
  BY <1>1, <1>3, <1>4, <1>5 DEF Inv

(* The scanner's steps.                                                      *)
LEMMA Shapes ==
    ASSUME Inv
    PROVE  /\ Holds(worker) /\ Holds(Resting) /\ Holds(Over)
           /\ Resting.phase = "idle" /\ Over.phase = "done"
           /\ \A phase : LET new == [worker EXCEPT !.phase = phase]
                         IN  Holds(new) /\ new.phase = phase
<1>1. Holds(worker)
  BY DEF Inv, Typed
<1>2. Holds(Resting) /\ Resting.phase = "idle"
  BY DEF Holds, Resting
<1>3. Holds(Over) /\ Over.phase = "done"
  <2>1. ASSUME NEW new, new = Over
        PROVE  Holds(new) /\ new.phase = "done"
    BY <2>1 DEF Holds, Over, Resting
  <2> QED
    BY <2>1
<1>4. \A phase : LET new == [worker EXCEPT !.phase = phase]
                 IN  Holds(new) /\ new.phase = phase
  BY <1>1 DEF Holds
<1> QED
  BY <1>1, <1>2, <1>3, <1>4

(* Claiming, loading, failing and closing a job leave the files alone.       *)
LEMMA WorkerMoves ==
    ASSUME Inv, Claim \/ Load \/ ScanFails \/ Complete \/ Fail
    PROVE  Inv'
<1>1. arriving' \in [Handlers -> Upload \cup {None}]
  BY DEF Inv, Typed, Claim, Load, ScanFails, Complete, Fail
<1>2. UNCHANGED files
  BY DEF Claim, Load, ScanFails, Complete, Fail
<1>3. CASE Claim
  <2>1. PICK k \in DOMAIN jobs :
           worker' = [Resting EXCEPT !.phase = "claimed", !.job = jobs[k].id,
                        !.file = jobs[k].file, !.attempt = jobs[k].attempts + 1]
    BY <1>3 DEF Claim
  <2>2. Holds(worker') /\ worker'.phase \notin {"scanning", "releasing"}
    BY <2>1 DEF Holds, Resting
  <2> QED
    BY <1>1, <1>2, <2>2, FilesAlone
<1>4. CASE Load
  <2>1. CASE worker' = Over
    <3>1. Holds(worker') /\ worker'.phase \notin {"scanning", "releasing"}
      BY <2>1, Shapes
    <3> QED
      BY <1>1, <1>2, <3>1, FilesAlone
  <2>2. CASE /\ scan[worker.file] = "PENDING"
             /\ \/ worker' = [worker EXCEPT !.phase = "releasing"]
                \/ worker' = [worker EXCEPT !.phase = "scanning",
                                            !.version = Len(versions[worker.file])]
    <3>1. /\ scan' = scan /\ deleted' = deleted /\ versions' = versions
      BY <1>2 DEF files
    <3>2. /\ worker'.file = worker.file
          /\ worker'.phase = "scanning" => worker'.version = Len(versions[worker.file])
      BY <2>2, Shapes DEF Holds
    <3>3. ASSUME worker.file \in Files
          PROVE  /\ versions[worker.file] \in Seq(Version) /\ versions[worker.file] # << >>
                 /\ Len(versions[worker.file]) \in 1..Len(versions[worker.file])
      BY <2>2, <3>3 DEF Inv, Typed, Uploaded
    <3>4. Uploaded'
      BY <3>1, <3>2, <3>3 DEF Inv, Uploaded
    <3>5. HistoryAgrees' /\ UnreplacedIsFailClosed'
      BY <3>1 DEF Inv, HistoryAgrees, UnreplacedIsFailClosed, Latest
    <3>6. Holds(worker')
      BY <2>2, Shapes DEF Holds
    <3>7. Typed'
      BY <1>1, <3>1, <3>6 DEF Inv, Typed, Holds
    <3> QED
      BY <3>4, <3>5, <3>7 DEF Inv
  <2> QED
    BY <1>4, <2>1, <2>2 DEF Load
<1>5. CASE ScanFails
  <2>1. worker' = [worker EXCEPT !.phase = "failing", !.version = 0]
    BY <1>5 DEF ScanFails
  <2>2. Holds(worker') /\ worker'.phase \notin {"scanning", "releasing"}
    BY <2>1, Shapes DEF Holds
  <2> QED
    BY <1>1, <1>2, <2>2, FilesAlone
<1>6. CASE Complete \/ Fail
  <2>1. worker' = Resting \/ worker' = [worker EXCEPT !.phase = "marking"]
    BY <1>6 DEF Complete, Fail
  <2>2. Holds(worker') /\ worker'.phase \notin {"scanning", "releasing"}
    BY <2>1, Shapes
  <2> QED
    BY <1>1, <1>2, <2>2, FilesAlone
<1> QED
  BY <1>3, <1>4, <1>5, <1>6

(* A verdict goes to the row and to the version that is current by then; the *)
(* one version of an unreplaced file is the one that was looked at.          *)
LEMMA Settled ==
    ASSUME Inv, NEW s \in {"CLEAN", "SKIPPED"}, Settle(s),
           worker.phase \in {"scanning", "releasing"},
           s = "CLEAN" => worker.phase = "scanning" /\ Scanned = "clean"
    PROVE  Inv'
<1> DEFINE f == worker.file
           n == Len(versions[f])
           history == [versions[f] EXCEPT ![n].scan = s]
<1>1. /\ scan' = [scan EXCEPT ![f] = s] /\ deleted' = deleted
      /\ versions' = [versions EXCEPT ![f][n].scan = s]
      /\ worker' = Over /\ arriving' = arriving
  BY DEF Settle
<1>2. /\ deleted' \in [Files -> BOOLEAN]
      /\ arriving' \in [Handlers -> Upload \cup {None}]
      /\ s \in ScanStatuses /\ s # "ERROR"
  BY <1>1 DEF Inv, Typed, ScanStatuses
<1>3. CASE f \in Files /\ versions[f] # << >>
  <2>1. versions[f] \in Seq(Version) /\ n \in Nat /\ n \in 1..n
    BY <1>3 DEF Inv, Typed
  <2>2. /\ history \in Seq(Version) /\ Len(history) = n
        /\ \A k \in 1..n : /\ history[k].content = versions[f][k].content
                           /\ history[k].scan = IF k = n THEN s ELSE versions[f][k].scan
    <3>1. \A v \in Version : /\ [v EXCEPT !.scan = s] \in Version
                             /\ [v EXCEPT !.scan = s].content = v.content
                             /\ [v EXCEPT !.scan = s].scan = s
      BY <1>2 DEF Version
    <3>2. \A k \in 1..n : history[k] = IF k = n THEN [versions[f][k] EXCEPT !.scan = s]
                                                ELSE versions[f][k]
      BY <2>1
    <3>3. DOMAIN history = 1..n /\ history = [k \in 1..n |-> history[k]]
      BY <2>1
    <3>4. \A k \in 1..n : /\ history[k] \in Version
                          /\ history[k].content = versions[f][k].content
                          /\ history[k].scan = IF k = n THEN s ELSE versions[f][k].scan
      BY <2>1, <3>1, <3>2
    <3>5. [k \in 1..n |-> history[k]] \in Seq(Version)
          /\ Len([k \in 1..n |-> history[k]]) = n
      BY <2>1, <3>4
    <3> QED
      BY <3>3, <3>4, <3>5
  <2>3. versions' = [versions EXCEPT ![f] = history]
    BY <1>1
  <2>4. s = "CLEAN" /\ n = 1 => versions[f][n].content = "clean"
    <3>1. s = "CLEAN" => worker.version \in 1..n /\ versions[f][worker.version].content = "clean"
      BY <1>3 DEF Inv, Uploaded, Scanned
    <3> QED
      BY <3>1
  <2>5. /\ history # << >> /\ Len(history) >= Len(versions[f])
        /\ history[Len(history)].scan = s
        /\ s = "CLEAN" /\ Len(history) = 1 => history[Len(history)].content = "clean"
    BY <2>1, <2>2, <2>4
  <2> HIDE DEF f, n, history
  <2> QED
    BY <1>1, <1>2, <2>2, <2>3, <2>5, FileSettled DEF n
<1>4. CASE f \notin Files
  <2>1. scan' = scan /\ versions' = versions
    BY <1>1, <1>4 DEF Inv, Typed
  <2>2. Holds(worker') /\ worker'.phase \notin {"scanning", "releasing"} /\ UNCHANGED files
    BY <1>1, <2>1, Shapes DEF files
  <2> QED
    BY <1>2, <2>2, FilesAlone
<1> QED
  BY <1>3, <1>4 DEF Inv, Uploaded

(* A file found infected takes its current version with it.                  *)
LEMMA Quarantined ==
    ASSUME Inv, Quarantine
    PROVE  Inv'
<1> DEFINE f == worker.file
           n == Len(versions[f])
           history == [v \in DOMAIN versions[f] |-> [versions[f][v] EXCEPT !.scan = "INFECTED"]]
<1>1. /\ scan' = [scan EXCEPT ![f] = "INFECTED"]
      /\ deleted' = [deleted EXCEPT ![f] = TRUE]
      /\ versions' = [versions EXCEPT ![f] = history]
      /\ worker' = Over /\ arriving' = arriving /\ worker.phase = "scanning"
  BY DEF Quarantine
<1>2. /\ deleted' \in [Files -> BOOLEAN]
      /\ arriving' \in [Handlers -> Upload \cup {None}]
      /\ "INFECTED" \in ScanStatuses
      /\ \A g \in Files : g # f /\ deleted[g] => deleted'[g]
  BY <1>1 DEF Inv, Typed, ScanStatuses
<1>3. CASE f \in Files
  <2>1. versions[f] \in Seq(Version) /\ n \in Nat /\ n \in 1..n /\ versions[f] # << >>
        /\ n = Len(versions[f])
    BY <1>1, <1>3 DEF Inv, Typed, Uploaded
  <2>2. \A v \in Version : /\ [v EXCEPT !.scan = "INFECTED"] \in Version
                           /\ [v EXCEPT !.scan = "INFECTED"].scan = "INFECTED"
    BY <1>2 DEF Version
  <2>3. DOMAIN history = 1..n
        /\ \A k \in 1..n : history[k] \in Version /\ history[k].scan = "INFECTED"
    BY <2>1, <2>2
  <2>4. history = [k \in 1..n |-> history[k]]
    BY <2>1
  <2> HIDE DEF f, n, history
  <2>5. [k \in 1..n |-> history[k]] \in Seq(Version) /\ Len([k \in 1..n |-> history[k]]) = n
    BY <2>1, <2>3
  <2>6. /\ history \in Seq(Version) /\ history # << >> /\ Len(history) >= Len(versions[f])
        /\ history[Len(history)].scan = "INFECTED"
    <3>1. history \in Seq(Version) /\ Len(history) = n
      BY <2>4, <2>5
    <3>2. history # << >>
      BY <2>1, <2>3
    <3> QED
      BY <2>1, <2>3, <3>1, <3>2
  <2> QED
    BY <1>1, <1>2, <2>6, FileSettled
<1>4. CASE f \notin Files
  <2>1. scan' = scan /\ versions' = versions /\ deleted' = deleted
    BY <1>1, <1>4 DEF Inv, Typed
  <2>2. Holds(worker') /\ worker'.phase \notin {"scanning", "releasing"} /\ UNCHANGED files
    BY <1>1, <2>1, Shapes DEF files
  <2> QED
    BY <1>2, <2>2, FilesAlone
<1> QED
  BY <1>3, <1>4

(* A failed scan, and the administrator who asks for another, change the row *)
(* alone.                                                                    *)
LEMMA Failing ==
    ASSUME Inv, MarkError \/ Reopen
    PROVE  Inv'
<1>1. /\ UNCHANGED <<deleted, versions, arriving>>
      /\ worker' = worker \/ worker' = Resting
  BY DEF MarkError, Reopen
<1>2. /\ scan' \in [Files -> ScanStatuses \cup {"none"}]
      /\ \A f \in Files : \/ scan'[f] = scan[f]
                          \/ scan[f] = "PENDING" /\ scan'[f] = "ERROR"
                          \/ scan[f] = "ERROR" /\ scan'[f] = "PENDING"
  <2>1. CASE MarkError
    BY <2>1 DEF MarkError, Inv, Typed, ScanStatuses
  <2>2. CASE Reopen
    BY <2>2 DEF Reopen, Inv, Typed, ScanStatuses
  <2> QED
    BY <2>1, <2>2
<1>3. Holds(worker')
  BY <1>1, Shapes DEF Holds
<1>4. Typed'
  BY <1>1, <1>2, <1>3 DEF Inv, Typed, Holds
<1>5. Uploaded'
  <2>1. CASE worker' = worker
    BY <1>1, <1>2, <2>1 DEF Inv, Uploaded
  <2>2. CASE worker' = Resting
    BY <1>1, <1>2, <2>2, Shapes DEF Inv, Uploaded
  <2> QED
    BY <1>1, <2>1, <2>2
<1>6. HistoryAgrees'
  BY <1>1, <1>2 DEF Inv, HistoryAgrees, Latest
<1>7. UnreplacedIsFailClosed'
  BY <1>1, <1>2 DEF Inv, UnreplacedIsFailClosed, Latest
<1> QED
  BY <1>4, <1>5, <1>6, <1>7 DEF Inv

(* Storing a file, or a new version of one, keeps the invariant.             *)
LEMMA Uploading ==
    ASSUME Inv, Uploads
    PROVE  Inv'
<1>1. ASSUME NEW h \in Handlers, Store(h)
      PROVE  Inv'
  <2> DEFINE f == arriving[h].file
             s == arriving[h].scan
  <2>1. f \in Files /\ s \in {"PENDING", "SKIPPED"} /\ s \in ScanStatuses
    BY <1>1 DEF Store, Inv, Typed, Upload, ScanStatuses
  <2>2. PICK c \in Contents :
          /\ versions' = [versions EXCEPT ![f] = Append(@, [content |-> c, scan |-> s])]
          /\ scan' = [scan EXCEPT ![f] = s] /\ deleted' = deleted /\ worker' = worker
          /\ arriving' = [arriving EXCEPT ![h] = None]
    BY <1>1 DEF Store
  <2> DEFINE version == [content |-> c, scan |-> s]
             history == Append(versions[f], version)
  <2>3. version \in Version /\ version.scan = s /\ versions[f] \in Seq(Version)
    BY <2>1 DEF Version, Inv, Typed
  <2>4. versions' = [versions EXCEPT ![f] = history]
    BY <2>2
  <2>5. /\ deleted' \in [Files -> BOOLEAN]
        /\ arriving' \in [Handlers -> Upload \cup {None}]
        /\ \A g \in Files : g # f /\ deleted[g] => deleted'[g]
    BY <2>2 DEF Inv, Typed
  <2> HIDE DEF version
  <2>6. /\ history \in Seq(Version) /\ history # << >> /\ Len(history) >= Len(versions[f])
        /\ history[Len(history)].scan = s /\ s # "CLEAN" /\ s # "ERROR"
    BY <2>1, <2>3
  <2>7. scan' = [scan EXCEPT ![f] = s] /\ worker' = worker
    BY <2>2
  <2> HIDE DEF f, s, history
  <2> QED
    BY <2>1, <2>4, <2>5, <2>6, <2>7, FileSettled
<1>2. ASSUME NEW f \in Files, Delete(f)
      PROVE  Inv'
  <2>1. /\ UNCHANGED <<scan, versions, worker, arriving>>
        /\ deleted' \in [Files -> BOOLEAN]
        /\ \A g \in Files : deleted[g] => deleted'[g]
    BY <1>2 DEF Delete, Inv, Typed
  <2> QED
    BY <2>1 DEF Inv, Typed, Holds, Uploaded, HistoryAgrees, UnreplacedIsFailClosed, Latest
<1>3. ASSUME NEW h \in Handlers, GiveUp(h) \/ \E f \in Files : Receive(h, f)
      PROVE  Inv'
  <2>1. arriving' \in [Handlers -> Upload \cup {None}]
    BY <1>3 DEF GiveUp, Receive, Inv, Typed, Upload
  <2>2. UNCHANGED files /\ worker' = worker
    BY <1>3 DEF GiveUp, Receive
  <2> QED
    BY <2>1, <2>2, Shapes, FilesAlone DEF Holds
<1> QED
  BY <1>1, <1>2, <1>3 DEF Uploads

(* Every step keeps the invariant.                                           *)
LEMMA Kept ==
    ASSUME Inv, [Next]_vars
    PROVE  Inv'
<1>1. CASE Run
  <2>1. CASE FoundClean
    BY <2>1, Settled DEF FoundClean
  <2>2. CASE Released
    BY <2>2, Settled DEF Released
  <2> QED
    BY <1>1, <2>1, <2>2, WorkerMoves, Quarantined, Failing DEF Run
<1>2. CASE Crash \/ PauseEnds \/ RequeueAbandoned \/ RequeueLost \/ ForgetFailed
           \/ RetryJob \/ RetryAll \/ NotReopened \/ SwitchScanner \/ UNCHANGED vars
  <2>1. UNCHANGED files /\ arriving' = arriving /\ (worker' = worker \/ worker' = Resting)
    BY <1>2 DEF Crash, PauseEnds, RequeueAbandoned, RequeueLost, ForgetFailed, RetryJob, RetryAll,
       NotReopened, SwitchScanner, vars
  <2>2. arriving' \in [Handlers -> Upload \cup {None}] /\ Holds(worker')
    BY <2>1, Shapes DEF Inv, Typed, Holds
  <2> QED
    BY <2>1, <2>2, Shapes, FilesAlone
<1> QED
  BY <1>1, <1>2, Uploading, Failing DEF Next, Sweep, Admin

(* No file is stored at first.                                               *)
LEMMA Start == Init => Inv
<1> SUFFICES ASSUME Init PROVE Inv
  OBVIOUS
<1>1. Typed
  BY DEF Init, Typed, Holds, Resting
<1>2. Uploaded /\ HistoryAgrees /\ UnreplacedIsFailClosed
  BY DEF Init, Uploaded, Resting, HistoryAgrees, UnreplacedIsFailClosed
<1> QED
  BY <1>1, <1>2 DEF Inv

-----------------------------------------------------------------------------
(* The row the worker holds, and how often a row may have been tried: the    *)
(* last attempt is never waiting, but for one lost in a crash.               *)
Held(row, w) ==
    /\ row.id = w.job
    /\ w.phase # "done" => row.file = w.file
    /\ row.status = "RUNNING" <=> w.phase # "marking"
    /\ w.phase \notin {"marking", "done"} => row.attempts = w.attempt

Tried(row, w, lost) ==
    /\ row.attempts <= MaxAttempts + lost
    /\ row.status = "PENDING" \/ (row.status = "RUNNING" /\ ~(w.phase # "idle" /\ w.job = row.id))
          => row.attempts < MaxAttempts + lost

Apart == \A k, l \in DOMAIN jobs : jobs[k].id = jobs[l].id => k = l

QueueInv ==
    /\ jobs \in Seq(Job) /\ worker \in Holding /\ crashes \in Nat
    /\ Apart
    /\ worker.phase # "idle" => \E k \in DOMAIN jobs : Held(jobs[k], worker)
    /\ \A k \in DOMAIN jobs : Tried(jobs[k], worker, crashes)

(* What the fields of a row become.                                          *)
LEMMA BackIs ==
    ASSUME NEW row \in Job
    PROVE  /\ Back(row) \in Job /\ Back(row).id = row.id /\ Back(row).file = row.file
           /\ Back(row).status = "PENDING" /\ Back(row).attempts = row.attempts
  BY DEF Back, Job

(* The same with the attempts counted anew.                                  *)
LEMMA AgainIs ==
    ASSUME NEW row \in Job
    PROVE  LET again == [Back(row) EXCEPT !.attempts = 0]
           IN  /\ again \in Job /\ again.id = row.id /\ again.file = row.file
               /\ again.status = "PENDING" /\ again.attempts = 0
  BY DEF Back, Job

(* What is in the queue is a row.                                           *)
LEMMA RowsAreJobs ==
    ASSUME NEW queue \in Seq(Job), NEW k \in DOMAIN queue
    PROVE  k \in Nat /\ queue[k] \in Job /\ queue[k].attempts \in Nat
<1>1. k \in Nat /\ queue[k] \in Job
  OBVIOUS
<1>2. \A row \in Job : row.attempts \in Nat
  BY DEF Job
<1> QED
  BY <1>1, <1>2

(* A queue whose rows keep their numbers.                                    *)
LEMMA Rewritten ==
    ASSUME jobs \in Seq(Job), NEW queue, DOMAIN queue = DOMAIN jobs,
           queue = [k \in DOMAIN jobs |-> queue[k]],
           \A k \in DOMAIN jobs : queue[k] \in Job
    PROVE  queue \in Seq(Job)
<1>1. DOMAIN jobs = 1..Len(jobs) /\ Len(jobs) \in Nat
  OBVIOUS
<1>2. [k \in 1..Len(jobs) |-> queue[k]] \in Seq(Job)
  BY <1>1
<1> QED
  BY <1>1, <1>2

(* A row taken out of the queue.                                             *)
LEMMA TakenOut ==
    ASSUME jobs \in Seq(Job), NEW k \in DOMAIN jobs
    PROVE  LET rest == RemoveAt(jobs, k)
           IN  /\ rest \in Seq(Job)
               /\ \A x \in DOMAIN rest : \E y \in DOMAIN jobs \ {k} :
                     /\ rest[x] = jobs[y]
                     /\ y = IF x < k THEN x ELSE x + 1
               /\ \A y \in DOMAIN jobs \ {k} : \E x \in DOMAIN rest : rest[x] = jobs[y]
<1> DEFINE n == Len(jobs)
           s == SubSeq(jobs, 1, k - 1)
           t == SubSeq(jobs, k + 1, n)
           rest == s \o t
<1>1. n \in Nat /\ k \in 1..n /\ DOMAIN jobs = 1..n /\ \A x \in 1..n : jobs[x] \in Job
  OBVIOUS
<1>2. /\ s \in Seq(Job) /\ Len(s) = k - 1
      /\ \A x \in 1..(k - 1) : s[x] = jobs[x]
  BY <1>1, SubSeqProperties
<1>3. /\ t \in Seq(Job) /\ Len(t) = n - k
      /\ \A x \in 1..(n - k) : t[x] = jobs[k + x]
  <2>1. t \in Seq(Job) /\ Len(t) = IF k + 1 <= n THEN n - (k + 1) + 1 ELSE 0
    BY <1>1, SubSeqProperties
  <2>2. \A x \in 1..(n - k) : t[x] = jobs[(k + 1) + x - 1]
    BY <1>1, SubSeqProperties
  <2> QED
    BY <1>1, <2>1, <2>2
<1> HIDE DEF n, s, t
<1>4. /\ rest \in Seq(Job) /\ DOMAIN rest = 1..(n - 1)
      /\ \A x \in 1..(n - 1) : rest[x] = IF x < k THEN jobs[x] ELSE jobs[x + 1]
  <2>1. /\ rest \in Seq(Job) /\ Len(rest) = (k - 1) + (n - k)
        /\ \A x \in 1..((k - 1) + (n - k)) : rest[x] = IF x <= k - 1 THEN s[x] ELSE t[x - (k - 1)]
    <3>1. /\ rest \in Seq(Job) /\ Len(rest) = Len(s) + Len(t)
          /\ \A x \in 1..(Len(s) + Len(t)) : rest[x] = IF x <= Len(s) THEN s[x] ELSE t[x - Len(s)]
      BY <1>2, <1>3, ConcatProperties
    <3> QED
      BY <1>2, <1>3, <3>1
  <2>2. (k - 1) + (n - k) = n - 1 /\ DOMAIN rest = 1..(n - 1)
    BY <1>1, <2>1
  <2>3. ASSUME NEW x \in 1..(n - 1), x < k PROVE rest[x] = jobs[x]
    BY <1>1, <1>2, <2>1, <2>2, <2>3
  <2>4. ASSUME NEW x \in 1..(n - 1), ~ (x < k) PROVE rest[x] = jobs[x + 1]
    <3>1. x - (k - 1) \in 1..(n - k) /\ k + (x - (k - 1)) = x + 1 /\ ~ (x <= k - 1)
      BY <1>1, <2>4
    <3> QED
      BY <1>3, <2>1, <2>2, <3>1
  <2> QED
    BY <2>1, <2>2, <2>3, <2>4
<1> HIDE DEF rest
<1>5. \A x \in DOMAIN rest : LET y == IF x < k THEN x ELSE x + 1
                             IN  y \in DOMAIN jobs \ {k} /\ rest[x] = jobs[y]
  BY <1>1, <1>4
<1>6. \A y \in DOMAIN jobs \ {k} : LET x == IF y < k THEN y ELSE y - 1
                                   IN  x \in DOMAIN rest /\ rest[x] = jobs[y]
  BY <1>1, <1>4
<1>7. rest = RemoveAt(jobs, k)
  BY DEF RemoveAt, rest, s, t, n
<1> QED
  BY <1>4, <1>5, <1>6, <1>7

(* Where the rows stay and the worker goes on with its own, or loses it in a *)
(* crash, or is done with one that is no longer running.                     *)
LEMMA RowsStay ==
    ASSUME QueueInv, jobs' = jobs, worker' \in Holding,
           \/ crashes' = crashes /\ worker' = worker
           \/ crashes' = crashes + 1 /\ worker'.phase = "idle"
           \/ crashes' = crashes /\ worker.phase = "marking" /\ worker'.phase = "idle"
           \/ /\ crashes' = crashes
              /\ worker.phase \notin {"idle", "marking", "done"}
              /\ worker'.phase \notin {"idle", "marking"} /\ worker'.job = worker.job
              /\ worker'.phase # "done" =>
                    worker'.file = worker.file /\ worker'.attempt = worker.attempt
    PROVE  QueueInv'
<1>1. crashes' \in Nat /\ Apart' /\ MaxAttempts \in Nat
  BY ScanAssumption DEF QueueInv, Apart
<1>2. \A k \in DOMAIN jobs : jobs[k].attempts \in Nat
  BY RowsAreJobs DEF QueueInv
<1>3. worker'.phase # "idle" => \E k \in DOMAIN jobs : Held(jobs[k], worker')
  BY DEF QueueInv, Held
<1>4. ASSUME NEW k \in DOMAIN jobs PROVE Tried(jobs[k], worker', crashes')
  <2>1. Tried(jobs[k], worker, crashes) /\ crashes \in Nat
    BY DEF QueueInv
  <2>2. CASE crashes' = crashes + 1
    BY <1>1, <1>2, <2>1, <2>2 DEF Tried
  <2>3. CASE worker.phase = "marking" /\ worker'.phase = "idle" /\ crashes' = crashes
    <3>1. PICK l \in DOMAIN jobs : Held(jobs[l], worker)
      BY <2>3 DEF QueueInv
    <3>2. jobs[k].id = worker.job => jobs[k].status # "RUNNING"
      BY <2>3, <3>1 DEF QueueInv, Apart, Held
    <3> QED
      BY <2>1, <2>3, <3>2 DEF Tried
  <2> QED
    BY <2>1, <2>2, <2>3 DEF Tried
<1> QED
  BY <1>1, <1>3, <1>4 DEF QueueInv

(* Where rows are rewritten beside the worker.                               *)
LEMMA RowsRewritten ==
    ASSUME QueueInv, worker' = worker, crashes' = crashes,
           DOMAIN jobs' = DOMAIN jobs, jobs' = [k \in DOMAIN jobs |-> jobs'[k]],
           \A k \in DOMAIN jobs :
              \/ jobs'[k] = jobs[k]
              \/ /\ jobs'[k] \in Job /\ jobs'[k].id = jobs[k].id /\ jobs'[k].file = jobs[k].file
                 /\ jobs'[k].status = "PENDING"
                 /\ jobs[k].status # "RUNNING" \/ Abandoned(jobs[k])
                 /\ \/ jobs'[k].attempts = 0
                    \/ /\ jobs'[k].attempts = jobs[k].attempts
                       /\ jobs[k].status = "PENDING" \/ Abandoned(jobs[k])
    PROVE  QueueInv'
<1>1. jobs' \in Seq(Job)
  <2>1. \A k \in DOMAIN jobs : jobs'[k] \in Job
    BY DEF QueueInv
  <2> QED
    BY <2>1, Rewritten DEF QueueInv
<1>2. Apart'
  BY DEF QueueInv, Apart
<1>3. ASSUME worker.phase # "idle" PROVE \E k \in DOMAIN jobs : Held(jobs'[k], worker)
  <2>1. PICK k \in DOMAIN jobs : Held(jobs[k], worker)
    BY <1>3 DEF QueueInv
  <2>2. CASE jobs'[k] = jobs[k]
    BY <2>1, <2>2
  <2>3. CASE jobs'[k] # jobs[k]
    <3>1. worker.phase = "marking"
      BY <1>3, <2>1, <2>3 DEF Held, Abandoned
    <3> QED
      BY <2>1, <2>3, <3>1 DEF Held
  <2> QED
    BY <2>2, <2>3
<1>4. ASSUME NEW k \in DOMAIN jobs PROVE Tried(jobs'[k], worker, crashes)
  <2>1. Tried(jobs[k], worker, crashes) /\ crashes \in Nat /\ MaxAttempts \in Nat \ {0}
    BY ScanAssumption DEF QueueInv
  <2>2. jobs[k].attempts \in Nat
    BY RowsAreJobs DEF QueueInv
  <2> QED
    BY <2>1, <2>2 DEF Tried, Abandoned
<1> QED
  BY <1>1, <1>2, <1>3, <1>4 DEF QueueInv

(* Where a row the worker does not need any more is deleted.                 *)
LEMMA RowDropped ==
    ASSUME QueueInv, NEW id, Drop(id), crashes' = crashes,
           \/ worker' = worker /\ (worker.phase # "idle" => worker.job # id)
           \/ worker' = Resting /\ worker.job = id
    PROVE  QueueInv'
<1>1. PICK k \in DOMAIN jobs : jobs[k].id = id /\ jobs' = RemoveAt(jobs, k)
  BY DEF Drop
<1>2. /\ jobs' \in Seq(Job)
      /\ \A x \in DOMAIN jobs' : \E y \in DOMAIN jobs \ {k} :
            jobs'[x] = jobs[y] /\ y = IF x < k THEN x ELSE x + 1
      /\ \A y \in DOMAIN jobs \ {k} : \E x \in DOMAIN jobs' : jobs'[x] = jobs[y]
  BY <1>1, TakenOut DEF QueueInv
<1>3. Apart'
  <2>1. SUFFICES ASSUME NEW x \in DOMAIN jobs', NEW z \in DOMAIN jobs', jobs'[x].id = jobs'[z].id
                 PROVE  x = z
    BY DEF Apart
  <2>2. PICK y \in DOMAIN jobs : jobs'[x] = jobs[y] /\ y = IF x < k THEN x ELSE x + 1
    BY <1>2
  <2>3. PICK u \in DOMAIN jobs : jobs'[z] = jobs[u] /\ u = IF z < k THEN z ELSE z + 1
    BY <1>2
  <2>4. y = u
    BY <2>1, <2>2, <2>3 DEF QueueInv, Apart
  <2>5. x \in Nat /\ z \in Nat /\ k \in Nat
    BY <1>2, RowsAreJobs DEF QueueInv
  <2> QED
    BY <2>2, <2>3, <2>4, <2>5
<1>4. worker' \in Holding
  BY DEF QueueInv, Holding, Resting, Phases
<1>5. ASSUME worker'.phase # "idle" PROVE \E x \in DOMAIN jobs' : Held(jobs'[x], worker')
  <2>1. worker' = worker /\ worker.job # id
    BY <1>5 DEF Resting
  <2>2. PICK y \in DOMAIN jobs : Held(jobs[y], worker)
    BY <1>5, <2>1 DEF QueueInv
  <2>3. y # k
    BY <1>1, <2>1, <2>2 DEF Held
  <2> QED
    BY <1>2, <2>1, <2>2, <2>3
<1>6. ASSUME NEW x \in DOMAIN jobs' PROVE Tried(jobs'[x], worker', crashes)
  <2>1. PICK y \in DOMAIN jobs \ {k} : jobs'[x] = jobs[y]
    BY <1>2
  <2>2. jobs[y].id # id /\ Tried(jobs[y], worker, crashes)
    BY <1>1, <2>1 DEF QueueInv, Apart
  <2> QED
    BY <2>1, <2>2 DEF Tried
<1> QED
  BY <1>2, <1>3, <1>4, <1>5, <1>6 DEF QueueInv

(* A new row has a number nobody has.                                        *)
LEMMA RowAdded ==
    ASSUME QueueInv, NEW f \in Files, Enqueue(f), worker' = worker, crashes' = crashes
    PROVE  QueueInv'
<1>1. PICK id \in FreeIds :
         jobs' = Append(jobs, [id |-> id, file |-> f, status |-> "PENDING",
                               attempts |-> 0, due |-> TRUE])
  BY DEF Enqueue
<1> DEFINE row == [id |-> id, file |-> f, status |-> "PENDING", attempts |-> 0, due |-> TRUE]
           n == Len(jobs)
<1>2. row \in Job /\ row.id = id /\ row.status = "PENDING" /\ row.attempts = 0
  BY <1>1 DEF Job, FreeIds
<1> HIDE DEF row
<1>3. jobs \in Seq(Job) /\ n \in Nat /\ DOMAIN jobs = 1..n
  BY DEF QueueInv
<1>4. /\ jobs' \in Seq(Job) /\ DOMAIN jobs' = 1..(n + 1) /\ jobs'[n + 1] = row
      /\ \A k \in 1..n : jobs'[k] = jobs[k] /\ jobs[k].id # id
  BY <1>1, <1>2, <1>3 DEF row, FreeIds
<1>5. Apart'
  BY <1>2, <1>3, <1>4 DEF QueueInv, Apart
<1>6. worker.phase # "idle" => \E k \in DOMAIN jobs' : Held(jobs'[k], worker)
  BY <1>3, <1>4 DEF QueueInv
<1>7. Tried(row, worker, crashes)
  BY <1>2, ScanAssumption DEF Tried, QueueInv
<1>8. \A k \in DOMAIN jobs' : Tried(jobs'[k], worker, crashes)
  BY <1>3, <1>4, <1>7 DEF QueueInv
<1> QED
  BY <1>4, <1>5, <1>6, <1>8 DEF QueueInv

-----------------------------------------------------------------------------
(* The worker claims a row it may still try.                                 *)
LEMMA Claiming ==
    ASSUME QueueInv, Claim
    PROVE  QueueInv'
<1>1. PICK k \in DOMAIN jobs :
         /\ jobs[k].status = "PENDING"
         /\ jobs' = [jobs EXCEPT ![k].status = "RUNNING", ![k].attempts = @ + 1]
         /\ worker' = [Resting EXCEPT !.phase = "claimed", !.job = jobs[k].id,
                         !.file = jobs[k].file, !.attempt = jobs[k].attempts + 1]
  BY DEF Claim, Ready
<1>2. worker.phase = "idle" /\ crashes' = crashes
  BY DEF Claim, bounds
<1>3. jobs[k] \in Job /\ jobs[k].attempts \in Nat /\ jobs[k].id \in JobIds /\ jobs[k].file \in Files
  <2>1. jobs[k] \in Job
    BY RowsAreJobs DEF QueueInv
  <2> QED
    BY <2>1 DEF Job
<1>4. /\ jobs'[k] \in Job /\ jobs'[k].id = jobs[k].id /\ jobs'[k].file = jobs[k].file
      /\ jobs'[k].status = "RUNNING" /\ jobs'[k].attempts = jobs[k].attempts + 1
  <2>1. jobs'[k] = [jobs[k] EXCEPT !.status = "RUNNING", !.attempts = jobs[k].attempts + 1]
    BY <1>1
  <2>2. PICK n \in Nat : n = jobs[k].attempts + 1
    BY <1>3
  <2>3. PICK row \in Job : row = jobs[k]
    BY <1>3
  <2>4. jobs'[k] = [row EXCEPT !.status = "RUNNING", !.attempts = n]
    BY <2>1, <2>2, <2>3
  <2> QED
    BY <2>2, <2>3, <2>4 DEF Job
<1>5. \A x \in DOMAIN jobs \ {k} : jobs'[x] = jobs[x]
  BY <1>1
<1>6. DOMAIN jobs' = DOMAIN jobs /\ jobs' = [x \in DOMAIN jobs |-> jobs'[x]]
  BY <1>1
<1>7. jobs' \in Seq(Job)
  <2>1. \A x \in DOMAIN jobs : jobs'[x] \in Job
    BY <1>4, <1>5, RowsAreJobs DEF QueueInv
  <2> QED
    BY <1>6, <2>1, Rewritten DEF QueueInv
<1>8. Apart'
  BY <1>4, <1>5, <1>6 DEF QueueInv, Apart
<1>9. /\ worker' \in Holding /\ worker'.phase = "claimed" /\ worker'.job = jobs[k].id
      /\ worker'.file = jobs[k].file /\ worker'.attempt = jobs[k].attempts + 1
  <2>1. PICK n \in Nat : n = jobs[k].attempts + 1
    BY <1>3
  <2>2. PICK id \in JobIds, f \in Files : id = jobs[k].id /\ f = jobs[k].file
    BY <1>3
  <2>3. worker' = [Resting EXCEPT !.phase = "claimed", !.job = id, !.file = f, !.attempt = n]
    BY <1>1, <2>1, <2>2
  <2>4. worker' = [phase |-> "claimed", job |-> id, file |-> f, attempt |-> n, version |-> 0]
    BY <2>3 DEF Resting
  <2> QED
    BY <2>1, <2>2, <2>4 DEF Holding, Phases
<1>10. Held(jobs'[k], worker')
  BY <1>4, <1>9 DEF Held
<1>11. ASSUME NEW x \in DOMAIN jobs PROVE Tried(jobs'[x], worker', crashes)
  <2>1. Tried(jobs[x], worker, crashes) /\ Tried(jobs[k], worker, crashes)
    BY DEF QueueInv
  <2>2. crashes \in Nat /\ MaxAttempts \in Nat
    BY ScanAssumption DEF QueueInv
  <2>3. CASE x = k
    BY <1>1, <1>3, <1>4, <1>9, <2>1, <2>2, <2>3 DEF Tried
  <2>4. CASE x # k
    BY <1>2, <1>5, <1>9, <2>1, <2>4 DEF Tried
  <2> QED
    BY <2>3, <2>4
<1> QED
  BY <1>2, <1>6, <1>7, <1>8, <1>9, <1>10, <1>11 DEF QueueInv

(* A failed row waits again, unless that was the last attempt.               *)
LEMMA FailKeeps ==
    ASSUME QueueInv, Fail
    PROVE  QueueInv'
<1> DEFINE final == worker.attempt >= MaxAttempts
           row(k) == [jobs[k] EXCEPT !.status = IF final THEN "FAILED" ELSE "PENDING",
                                     !.due = FALSE]
<1>1. /\ worker.phase = "failing" /\ crashes' = crashes
      /\ jobs' = [k \in DOMAIN jobs |-> IF jobs[k].id # worker.job THEN jobs[k] ELSE row(k)]
      /\ worker' = IF final THEN [worker EXCEPT !.phase = "marking"] ELSE Resting
  BY DEF Fail, bounds
<1>2. PICK j \in DOMAIN jobs : Held(jobs[j], worker)
  BY <1>1 DEF QueueInv
<1>3. /\ jobs[j].id = worker.job /\ jobs[j].file = worker.file
      /\ jobs[j].attempts = worker.attempt
  BY <1>1, <1>2 DEF Held
<1>4. \A k \in DOMAIN jobs : jobs[k].id = worker.job <=> k = j
  BY <1>3 DEF QueueInv, Apart
<1>5. jobs[j] \in Job /\ worker.attempt \in Nat /\ worker \in Holding
      /\ MaxAttempts \in Nat /\ crashes \in Nat
  BY RowsAreJobs, ScanAssumption DEF QueueInv, Holding
<1>6. /\ row(j) \in Job /\ row(j).id = worker.job /\ row(j).file = worker.file
      /\ row(j).attempts = worker.attempt
      /\ row(j).status = IF final THEN "FAILED" ELSE "PENDING"
  BY <1>3, <1>5 DEF Job
<1> HIDE DEF row
<1>7. jobs'[j] = row(j) /\ \A k \in DOMAIN jobs \ {j} : jobs'[k] = jobs[k]
  BY <1>1, <1>4
<1>8. DOMAIN jobs' = DOMAIN jobs /\ jobs' = [k \in DOMAIN jobs |-> jobs'[k]]
  BY <1>1
<1>9. jobs' \in Seq(Job)
  <2>1. \A k \in DOMAIN jobs : jobs'[k] \in Job
    BY <1>6, <1>7, RowsAreJobs DEF QueueInv
  <2> QED
    BY <1>8, <2>1, Rewritten DEF QueueInv
<1>10. Apart'
  BY <1>3, <1>6, <1>7, <1>8 DEF QueueInv, Apart
<1>11. CASE final
  <2>1. /\ worker' \in Holding /\ worker'.phase = "marking" /\ worker'.job = worker.job
        /\ worker'.file = worker.file
    BY <1>1, <1>5, <1>11 DEF Holding, Phases
  <2>2. Held(jobs'[j], worker')
    BY <1>6, <1>7, <1>11, <2>1 DEF Held
  <2>3. ASSUME NEW k \in DOMAIN jobs PROVE Tried(jobs'[k], worker', crashes)
    <3>1. Tried(jobs[k], worker, crashes)
      BY DEF QueueInv
    <3>2. CASE k = j
      BY <1>3, <1>6, <1>7, <1>11, <3>1, <3>2 DEF Tried
    <3>3. CASE k # j
      BY <1>1, <1>7, <2>1, <3>1, <3>3 DEF Tried
    <3> QED
      BY <3>2, <3>3
  <2> QED
    BY <1>1, <1>8, <1>9, <1>10, <2>1, <2>2, <2>3 DEF QueueInv
<1>12. CASE ~ final
  <2>1. worker' \in Holding /\ worker'.phase = "idle"
    BY <1>1, <1>12 DEF Holding, Phases, Resting
  <2>2. ASSUME NEW k \in DOMAIN jobs PROVE Tried(jobs'[k], worker', crashes)
    <3>1. Tried(jobs[k], worker, crashes)
      BY DEF QueueInv
    <3>2. CASE k = j
      BY <1>5, <1>6, <1>7, <1>12, <3>2 DEF Tried
    <3>3. CASE k # j
      BY <1>4, <1>7, <3>1, <3>3 DEF Tried
    <3> QED
      BY <3>2, <3>3
  <2> QED
    BY <1>1, <1>8, <1>9, <1>10, <2>1, <2>2 DEF QueueInv
<1> QED
  BY <1>11, <1>12

(* The steps of the worker that leave the queue alone.                       *)
LEMMA WorkingKeeps ==
    ASSUME Inv, QueueInv,
           Load \/ FoundClean \/ Released \/ Quarantine \/ ScanFails \/ MarkError \/ Crash
    PROVE  QueueInv'
<1>1. jobs' = jobs /\ worker \in Holding /\ (Crash \/ crashes' = crashes)
  BY DEF QueueInv, Load, FoundClean, Released, Settle, Quarantine, ScanFails, MarkError, Crash, bounds
<1>2. /\ Over \in Holding /\ Over.phase = "done" /\ Over.job = worker.job
      /\ Resting \in Holding /\ Resting.phase = "idle"
  <2>1. PICK id \in JobIds \cup {0} : id = worker.job
    BY <1>1 DEF Holding
  <2>2. Over = [Resting EXCEPT !.phase = "done", !.job = id]
    BY <2>1 DEF Over
  <2>3. Over = [phase |-> "done", job |-> id, file |-> None, attempt |-> 0, version |-> 0]
    BY <2>2 DEF Resting
  <2> QED
    BY <2>1, <2>3 DEF Holding, Phases, Resting
<1>3. CASE Crash
  <2>1. worker' = Resting /\ crashes' = crashes + 1
    BY <1>3 DEF Crash
  <2> QED
    BY <1>1, <1>2, <2>1, RowsStay
<1>4. CASE MarkError
  <2>1. worker.phase = "marking" /\ worker' = Resting /\ crashes' = crashes
    BY <1>4 DEF MarkError, bounds
  <2> QED
    BY <1>1, <1>2, <2>1, RowsStay
<1>5. CASE Load \/ FoundClean \/ Released \/ Quarantine \/ ScanFails
  <2>1. /\ worker.phase \in {"claimed", "scanning", "releasing"} /\ crashes' = crashes
        /\ \/ worker' = Over
           \/ worker' = [worker EXCEPT !.phase = "releasing"]
           \/ worker' = [worker EXCEPT !.phase = "scanning",
                                       !.version = Len(versions[worker.file])]
           \/ worker' = [worker EXCEPT !.phase = "failing", !.version = 0]
    BY <1>5 DEF Load, FoundClean, Released, Settle, Quarantine, ScanFails, bounds
  <2>2. PICK k \in DOMAIN jobs : Held(jobs[k], worker)
    BY <2>1 DEF QueueInv
  <2>3. worker.file \in Files /\ Len(versions[worker.file]) \in Nat
    <3>1. jobs[k] \in Job
      BY RowsAreJobs DEF QueueInv
    <3> QED
      BY <2>1, <2>2, <3>1 DEF Held, Job, Inv, Typed
  <2>4. worker' \in Holding
    <3>1. PICK n \in Nat : n = Len(versions[worker.file])
      BY <2>3
    <3>2. \A w \in Holding :
             /\ [w EXCEPT !.phase = "releasing"] \in Holding
             /\ [w EXCEPT !.phase = "scanning", !.version = n] \in Holding
             /\ [w EXCEPT !.phase = "failing", !.version = 0] \in Holding
      BY DEF Holding, Phases
    <3> QED
      BY <1>1, <1>2, <2>1, <3>1, <3>2
  <2>5. /\ worker'.phase \notin {"idle", "marking"} /\ worker'.job = worker.job
        /\ worker'.phase # "done" => worker'.file = worker.file /\ worker'.attempt = worker.attempt
    BY <1>1, <1>2, <2>1 DEF Holding
  <2> QED
    BY <1>1, <2>1, <2>4, <2>5, RowsStay
<1> QED
  BY <1>3, <1>4, <1>5

(* The sweep and the administrator leave the row being worked on alone.      *)
LEMMA RepairKeeps ==
    ASSUME QueueInv, PauseEnds \/ RequeueAbandoned \/ RetryJob \/ RetryAll
    PROVE  QueueInv'
<1>1. worker' = worker /\ crashes' = crashes /\ \A k \in DOMAIN jobs : jobs[k] \in Job
  BY RowsAreJobs DEF QueueInv, PauseEnds, RequeueAbandoned, RetryJob, RetryAll, bounds
<1>2. CASE PauseEnds
  <2>1. PICK k \in DOMAIN jobs : /\ jobs[k].status = "PENDING"
                                 /\ jobs' = [jobs EXCEPT ![k].due = TRUE]
    BY <1>2 DEF PauseEnds
  <2>2. /\ jobs'[k] = [jobs[k] EXCEPT !.due = TRUE]
        /\ \A x \in DOMAIN jobs \ {k} : jobs'[x] = jobs[x]
        /\ DOMAIN jobs' = DOMAIN jobs /\ jobs' = [x \in DOMAIN jobs |-> jobs'[x]]
    BY <2>1
  <2>3. /\ jobs'[k] \in Job /\ jobs'[k].id = jobs[k].id /\ jobs'[k].file = jobs[k].file
        /\ jobs'[k].status = "PENDING" /\ jobs'[k].attempts = jobs[k].attempts
    BY <1>1, <2>1, <2>2 DEF Job
  <2> QED
    BY <1>1, <2>1, <2>2, <2>3, RowsRewritten
<1>3. CASE RequeueAbandoned
  <2>1. jobs' = [k \in DOMAIN jobs |-> IF Requeueable(jobs[k]) THEN Back(jobs[k]) ELSE jobs[k]]
    BY <1>3 DEF RequeueAbandoned
  <2>2. DOMAIN jobs' = DOMAIN jobs /\ jobs' = [x \in DOMAIN jobs |-> jobs'[x]]
    BY <2>1
  <2> QED
    BY <1>1, <2>1, <2>2, BackIs, RowsRewritten DEF Requeueable
<1>4. CASE RetryJob
  <2>1. PICK k \in DOMAIN jobs :
           /\ jobs[k].status \in {"FAILED", "PENDING"} \/ Abandoned(jobs[k])
           /\ jobs' = [jobs EXCEPT ![k] = [Back(@) EXCEPT !.attempts = 0]]
    BY <1>4 DEF RetryJob
  <2>2. /\ jobs'[k] = [Back(jobs[k]) EXCEPT !.attempts = 0]
        /\ \A x \in DOMAIN jobs \ {k} : jobs'[x] = jobs[x]
        /\ DOMAIN jobs' = DOMAIN jobs /\ jobs' = [x \in DOMAIN jobs |-> jobs'[x]]
    BY <2>1
  <2>3. /\ jobs'[k] \in Job /\ jobs'[k].id = jobs[k].id /\ jobs'[k].file = jobs[k].file
        /\ jobs'[k].status = "PENDING" /\ jobs'[k].attempts = 0
    BY <1>1, <2>2, AgainIs
  <2> QED
    BY <1>1, <2>1, <2>2, <2>3, RowsRewritten
<1>5. CASE RetryAll
  <2>1. jobs' = [k \in DOMAIN jobs |-> IF jobs[k].status = "FAILED"
                                       THEN [Back(jobs[k]) EXCEPT !.attempts = 0] ELSE jobs[k]]
    BY <1>5 DEF RetryAll
  <2>2. DOMAIN jobs' = DOMAIN jobs /\ jobs' = [x \in DOMAIN jobs |-> jobs'[x]]
    BY <2>1
  <2> QED
    BY <1>1, <2>1, <2>2, AgainIs, RowsRewritten
<1> QED
  BY <1>2, <1>3, <1>4, <1>5

(* So every step keeps the queue in order.                                   *)
LEMMA QueueKept == Inv /\ QueueInv /\ [Next]_vars => QueueInv'
<1> SUFFICES ASSUME Inv, QueueInv, [Next]_vars PROVE QueueInv'
  OBVIOUS
<1>1. CASE Complete
  <2>1. Drop(worker.job) /\ worker' = Resting /\ crashes' = crashes
    BY <1>1 DEF Complete, bounds
  <2> QED
    BY <2>1, RowDropped
<1>2. CASE ForgetFailed
  <2>1. PICK k \in DOMAIN jobs : /\ jobs[k].status = "FAILED"
                                 /\ ~(worker.phase = "marking" /\ worker.job = jobs[k].id)
                                 /\ Drop(jobs[k].id)
    BY <1>2 DEF ForgetFailed
  <2>2. worker' = worker /\ crashes' = crashes
    BY <1>2 DEF ForgetFailed, bounds
  <2>3. worker.phase # "idle" => worker.job # jobs[k].id
    BY <2>1 DEF QueueInv, Held, Apart
  <2> QED
    BY <2>1, <2>2, <2>3, RowDropped
<1>3. CASE RequeueLost
  <2>1. PICK f \in Files : Enqueue(f) /\ worker' = worker /\ crashes' = crashes
    BY <1>3 DEF RequeueLost, Lost, bounds
  <2> QED
    BY <2>1, RowAdded
<1>4. CASE Uploads
  <2>1. worker' = worker /\ crashes' = crashes /\ (jobs' = jobs \/ \E f \in Files : Enqueue(f))
    BY <1>4 DEF Uploads, Receive, Store, GiveUp, Delete, bounds, Inv, Typed, Upload
  <2>2. CASE jobs' = jobs
    BY <2>1, <2>2, RowsStay DEF QueueInv
  <2>3. ASSUME NEW f \in Files, Enqueue(f) PROVE QueueInv'
    BY <2>1, <2>3, RowAdded
  <2> QED
    BY <2>1, <2>2, <2>3
<1>5. CASE Reopen \/ NotReopened \/ SwitchScanner \/ UNCHANGED vars
  <2>1. worker' = worker /\ crashes' = crashes /\ jobs' = jobs
    BY <1>5 DEF Reopen, NotReopened, SwitchScanner, vars, bounds
  <2> QED
    BY <2>1, RowsStay DEF QueueInv
<1> QED
  BY <1>1, <1>2, <1>3, <1>4, <1>5, Claiming, FailKeeps, WorkingKeeps, RepairKeeps
     DEF Next, Run, Sweep, Admin

(* The queue is empty at first.                                             *)
LEMMA QueueStart == Init => QueueInv
<1> SUFFICES ASSUME Init PROVE QueueInv
  OBVIOUS
<1>1. jobs = << >> /\ worker = Resting /\ crashes = 0
  BY DEF Init
<1>2. jobs \in Seq(Job) /\ DOMAIN jobs = {}
  BY <1>1, EmptySeq
<1> QED
  BY <1>1, <1>2 DEF QueueInv, Apart, Resting, Holding, Phases

(* The bounds, the switch and the files whose retry has been asked for.      *)
Rest ==
    /\ reopening \in SUBSET Files /\ enabled \in ScannerModes
    /\ crashes \in Nat /\ retries \in Nat

(* They keep their types.                                                    *)
LEMMA RestKept == QueueInv /\ Rest /\ [Next]_vars => Rest'
<1> SUFFICES ASSUME QueueInv, Rest, [Next]_vars PROVE Rest'
  OBVIOUS
<1>1. CASE UNCHANGED vars \/ Uploads \/ Run
  BY <1>1 DEF vars, bounds, Rest, Uploads, Receive, Store, GiveUp, Delete, Run, Claim, Load,
     FoundClean, Released, Settle, Quarantine, ScanFails, Complete, Fail, MarkError
<1>2. CASE Crash \/ Sweep \/ RetryAll \/ Reopen \/ NotReopened \/ SwitchScanner
  BY <1>2 DEF bounds, Rest, Crash, Sweep, PauseEnds, RequeueAbandoned, RequeueLost,
     ForgetFailed, RetryAll, Reopen, NotReopened, SwitchScanner
<1>3. CASE RetryJob
  <2>1. PICK k \in DOMAIN jobs : reopening' = {jobs[k].file}
    BY <1>3 DEF RetryJob
  <2>2. jobs[k] \in Job
    BY RowsAreJobs DEF QueueInv
  <2> QED
    BY <1>3, <2>1, <2>2 DEF RetryJob, Rest, Job
<1> QED
  BY <1>1, <1>2, <1>3 DEF Next, Admin

ScanInv == Inv /\ QueueInv /\ Rest

(* Everything that is invariant here.                                        *)
LEMMA ScanAlways == Spec => []ScanInv
<1>1. Init => Rest
  BY DEF Init, Rest
<1>2. Init => ScanInv
  BY <1>1, Start, QueueStart DEF ScanInv
<1>3. ScanInv /\ [Next]_vars => ScanInv'
  BY Kept, QueueKept, RestKept DEF ScanInv
<1> QED
  BY <1>2, <1>3, PTL DEF Spec

-----------------------------------------------------------------------------
(* The row and its current version tell the same story, for any number of    *)
(* overlapping uploads, replacements, scans, crashes and retries (finish,    *)
(* quarantine, newEvidenceVersion).                                          *)
THEOREM HistoryTold == Spec => []HistoryAgrees
<1>1. Inv => HistoryAgrees
  BY DEF Inv
<1> QED
  BY Start, Kept, <1>1, PTL DEF Spec

(* A file that was not replaced is CLEAN only when clamd found it clean.     *)
THEOREM GateTold == Spec => []UnreplacedIsFailClosed
<1>1. Inv => UnreplacedIsFailClosed
  BY DEF Inv
<1> QED
  BY Start, Kept, <1>1, PTL DEF Spec

(* The columns, the queue and what the worker and the uploads hold are what  *)
(* the queries expect to find.                                               *)
THEOREM TypesTold == Spec => []TypeOK
<1>1. ScanInv => TypeOK
  BY DEF ScanInv, Inv, Typed, QueueInv, Rest, TypeOK
<1> QED
  BY ScanAlways, <1>1, PTL

(* Whatever the sweep and the administrator put back meanwhile, no job is    *)
(* tried more often than fail allows, and once more for every crash (and     *)
(* every closing statement that failed): requeueAbandonedJobs does not look  *)
(* at the attempts, so the bound grows with the crashes and cannot be less.  *)
AttemptsAreCounted ==
    \A k \in DOMAIN jobs : jobs[k].attempts <= MaxAttempts + crashes

THEOREM AttemptsTold == Spec => []AttemptsAreCounted
<1>1. ScanInv => AttemptsAreCounted
  BY DEF ScanInv, QueueInv, Tried, AttemptsAreCounted
<1> QED
  BY ScanAlways, <1>1, PTL

(* The row a worker claimed stays its own: from the claim to the verdict or  *)
(* the failure it is in the queue, RUNNING, under the file and the attempt   *)
(* the worker goes by, whatever is retried, requeued or forgotten meanwhile; *)
(* so completing and failing (Run, fail) meet exactly that one row.          *)
RowStaysInHand ==
    worker.phase \in {"claimed", "scanning", "releasing", "failing"} =>
        \E k \in DOMAIN jobs :
            /\ jobs[k].id = worker.job /\ jobs[k].status = "RUNNING"
            /\ jobs[k].file = worker.file /\ jobs[k].attempts = worker.attempt
            /\ \A l \in DOMAIN jobs \ {k} : jobs[l].id # worker.job

THEOREM RowTold == Spec => []RowStaysInHand
<1>1. ScanInv => RowStaysInHand
  <2> SUFFICES ASSUME ScanInv, worker.phase \in {"claimed", "scanning", "releasing", "failing"}
               PROVE  RowStaysInHand
    BY DEF RowStaysInHand
  <2>1. PICK k \in DOMAIN jobs : Held(jobs[k], worker)
    BY DEF ScanInv, QueueInv
  <2> QED
    BY <2>1 DEF ScanInv, QueueInv, Apart, Held, RowStaysInHand
<1> QED
  BY ScanAlways, <1>1, PTL
=============================================================================
