---------------------------- MODULE MailQueueProofs ----------------------------
(***************************************************************************)
(* Proofs about MailQueue, for any people, any number of notices and any   *)
(* bounds on what goes wrong.                                              *)
(***************************************************************************)
EXTENDS MailQueue, TLAPS, FiniteSetTheorems, WellFoundedInduction

AtJob == {"claimed", "sending", "taken", "refused", "givingUp", "completing", "failing"}
Open  == {"PENDING", "RUNNING", "FAILED"}

(* Whoever has a job is marked, the worker's job stays in the queue until    *)
(* the worker closes it, and a summary takes up only what has no job.        *)
Apart ==
    /\ \A i \in Ids : job[i].status # "none" =>
          notice[i] # None /\ (Stands(i) => notice[i].emailed)
    /\ worker.phase \in AtJob =>
          worker.id \in Ids /\ job[worker.id].status \in {"PENDING", "RUNNING"}
    /\ worker.phase \in {"summing", "marking"} =>
          \A i \in worker.included : notice[i] # None /\ job[i].status = "none"

(* A notice may be mailed again although nothing goes wrong any more.        *)
Armed(i) ==
    \/ notice[i] = None
    \/ job[i].status \in Open
          /\ ~(worker.phase \in {"taken", "completing"} /\ worker.id = i)
    \/ Stands(i) /\ ~notice[i].emailed /\ ~(worker.phase = "marking" /\ i \in worker.included)
    \/ worker.phase = "summing" /\ i \in worker.included

Counted ==
    \A i \in Ids : /\ copies[i] <= 1 + budget.mishaps
                   /\ Armed(i) => copies[i] <= budget.mishaps

(* What the worker is about to mark has been mailed, and what it gives up or *)
(* fails has its reason on record, or lost it.                               *)
Explained ==
    /\ NoMailIsLost
    /\ worker.phase \in {"taken", "completing"} => copies[worker.id] > 0
    /\ worker.phase = "marking" => \A i \in worker.included : copies[i] > 0
    /\ worker.phase \in {"givingUp", "failing"} =>
          records[worker.id] # {} \/ notice[worker.id] = Gone
    /\ \A i \in Ids :
          job[i].notSent \/ job[i].status = "FAILED" => records[i] # {} \/ notice[i] = Gone

-----------------------------------------------------------------------------
(* There is a next row while one is empty.                                   *)
LEMMA Room ==
    ASSUME \E i \in Ids : notice[i] = None
    PROVE  NewId \in Ids /\ notice[NewId] = None
<1> DEFINE S == {i \in Ids : notice[i] = None}
<1>1. S # {} /\ S \subseteq Nat
  BY DEF Ids
<1>2. \E i \in S : \A k \in S : i <= k
  <2> HIDE DEF S
  <2>1. IsWellFoundedOn(OpToRel(<, Nat), Nat)
    BY NatLessThanWellFounded
  <2>2. PICK i \in S : \A k \in S : <<k, i>> \notin OpToRel(<, Nat)
    BY <1>1, <2>1, WFMin
  <2> QED
    <3>1. ASSUME NEW k \in S PROVE ~(k < i)
      <4>1. <<k, i>> \in OpToRel(<, Nat) <=> k < i
        BY <1>1 DEF OpToRel
      <4> QED
        BY <4>1, <2>2
    <3> QED
      BY <1>1, <3>1
<1>3. \E i \in Ids : notice[i] = None /\ \A k \in Ids : notice[k] = None => i <= k
  BY <1>2
<1> QED
  BY <1>3 DEF NewId

(* Setting the mark leaves a notice a notice.                                *)
LEMMA MarkedNotice ==
    ASSUME NEW n \in Notice
    PROVE  /\ [n EXCEPT !.emailed = TRUE] \in Notice
           /\ [n EXCEPT !.emailed = TRUE] \notin {None, Gone}
           /\ [n EXCEPT !.emailed = TRUE].emailed
           /\ [n EXCEPT !.emailed = TRUE].own = n.own
<1>1. [n EXCEPT !.emailed = TRUE] \in Notice
  BY DEF Notice
<1> QED
  BY <1>1, NoticeAssumption DEF Notice

(* The row notifyTx writes is a notice.                                      *)
LEMMA Written ==
    ASSUME NEW p \in People, NEW event \in Raised, NEW own \in BOOLEAN, NEW mailed \in BOOLEAN
    PROVE  [to |-> p, event |-> event, emailed |-> MarkOf(own, mailed), own |-> own] \in Notice
BY MailAssumption DEF MarkOf, Notice

(* Putting a job back in the queue.                                          *)
LEMMA PutBack ==
    ASSUME NEW j \in Job
    PROVE  LET put == [j EXCEPT !.status = "PENDING", !.due = TRUE]
           IN  put \in Job /\ put.status = "PENDING" /\ put.notSent = j.notSent
BY DEF Job, Statuses

(* What the parts of a statement write.                                      *)
LEMMA Writes ==
    ASSUME TypeOK
    PROVE  /\ Resting \in Holding /\ NextReader \in Holding /\ NoJob \in Job
           /\ [NoJob EXCEPT !.status = "PENDING", !.due = TRUE] \in Job
           /\ [NoJob EXCEPT !.status = "deleted"] \in Job
           /\ \A phase \in Phases : [worker EXCEPT !.phase = phase] \in Holding
           /\ \A i \in Ids, row \in Job : [job EXCEPT ![i] = row] \in [Ids -> Job]
           /\ \A i \in Ids, status \in Statuses, due \in BOOLEAN :
                 /\ [job EXCEPT ![i].status = status] \in [Ids -> Job]
                 /\ [job EXCEPT ![i].due = due] \in [Ids -> Job]
                 /\ [job EXCEPT ![i].status = status, ![i].due = due] \in [Ids -> Job]
<1>1. \A w \in Holding, phase \in Phases : [w EXCEPT !.phase = phase] \in Holding
  BY DEF Holding
<1>2. \A j \in Job, status \in Statuses, due \in BOOLEAN :
         /\ [j EXCEPT !.status = status] \in Job
         /\ [j EXCEPT !.due = due] \in Job
         /\ [j EXCEPT !.status = status, !.due = due] \in Job
  BY DEF Job
<1>3. NoJob \in Job
  BY DEF NoJob, Job, Statuses
<1>4. {"PENDING", "deleted"} \subseteq Statuses
  BY DEF Statuses
<1>5. Resting \in Holding
  BY DEF Resting, Holding, Phases, Nothing
<1>6. NextReader \in Holding
  <2>1. \A w \in Holding :
           [w EXCEPT !.phase = "digesting", !.reader = None, !.included = {}] \in Holding
    BY DEF Holding, Phases
  <2> QED
    BY <2>1 DEF NextReader, TypeOK
<1>7. \A phase \in Phases : [worker EXCEPT !.phase = phase] \in Holding
  BY <1>1 DEF TypeOK
<1>8. job \in [Ids -> Job]
  BY DEF TypeOK
<1>9. \A i \in Ids, row \in Job : [job EXCEPT ![i] = row] \in [Ids -> Job]
  BY <1>8
<1>10. \A i \in Ids, status \in Statuses, due \in BOOLEAN :
          /\ [job EXCEPT ![i].status = status] \in [Ids -> Job]
          /\ [job EXCEPT ![i].due = due] \in [Ids -> Job]
          /\ [job EXCEPT ![i].status = status, ![i].due = due] \in [Ids -> Job]
  BY <1>2, <1>8
<1>11. [NoJob EXCEPT !.status = "PENDING", !.due = TRUE] \in Job
  BY <1>2, <1>3, <1>4
<1>12. [NoJob EXCEPT !.status = "deleted"] \in Job
  BY <1>2, <1>3, <1>4
<1> QED
  BY <1>3, <1>5, <1>6, <1>7, <1>9, <1>10, <1>11, <1>12

(* What a bounded event spends stays within the bound.                       *)
LEMMA Spent ==
    ASSUME TypeOK
    PROVE  /\ Spend("switches", MaxSwitches) => budget' \in Budget
           /\ Spend("retries", MaxRetries) => budget' \in Budget
           /\ Spend("mishaps", MaxMishaps) => budget' \in Budget
           /\ Fails => budget' \in Budget /\ budget'.mishaps = budget.mishaps
BY MailAssumption DEF TypeOK, Budget, Spend, Fails

(* Every statement writes what the columns may hold.                         *)
LEMMA TypesKept ==
    ASSUME TypeOK, [Next]_vars
    PROVE  TypeOK'
<1> USE DEF TypeOK, rows, alarms, people, Statuses, Phases, Records
<1>1. CASE \E p \in People, event \in Raised, actor \in People \cup {None} : Notify(p, event, actor)
  <2> PICK p \in People, event \in Raised, actor \in People \cup {None} : Notify(p, event, actor)
    BY <1>1
  <2> DEFINE own    == actor = p /\ ~AboutTheService(event)
             mailed == ~own /\ WantsImmediateMail(p, event)
             row    == [to |-> p, event |-> event, emailed |-> MarkOf(own, mailed), own |-> own]
  <2>1. own \in BOOLEAN /\ mailed \in BOOLEAN
    OBVIOUS
  <2>2. row \in Notice
    BY <2>1, Written
  <2>3. NewId \in Ids
    BY Room DEF Notify
  <2>4. /\ notice' = [notice EXCEPT ![NewId] = row]
        /\ job' = IF mailed THEN [job EXCEPT ![NewId].status = "PENDING", ![NewId].due = TRUE]
                             ELSE job
        /\ UNCHANGED <<records, copies, alarms, people, mail, worker, budget>>
    BY DEF Notify, NotifyTx
  <2> HIDE DEF own, mailed, row
  <2>5. notice' \in [Ids -> Notice \cup {None, Gone}]
    BY <2>2, <2>3, <2>4
  <2>6. job' \in [Ids -> Job]
    BY <2>3, <2>4, Writes
  <2> QED
    BY <2>4, <2>5, <2>6
<1>2. CASE \E unheard \in SUBSET Admins : AlertFailedJobs(unheard)
  <2>1. \A n \in 0..Window : Older(n) \in 0..Window
    BY MailAssumption DEF Older
  <2>2. told' \in [Admins -> 0..Window] /\ age' \in [Ids -> 0..Window]
    BY <1>2, <2>1, MailAssumption DEF AlertFailedJobs
  <2> QED
    BY <1>2, <2>2, Spent DEF AlertFailedJobs
<1>3. CASE \E p \in People : CloseAccount(p)
  BY <1>3, Spent DEF CloseAccount
<1>4. CASE \E p \in People, wish \in Readers : UpdatePreferences(p, wish)
  <2>1. pref' \in [People -> Readers \cup {Default}]
    BY <1>4 DEF UpdatePreferences
  <2> QED
    BY <1>4, <2>1, Spent DEF UpdatePreferences
<1>5. CASE \E setting \in Settings : UpdateMailSetting(setting)
  BY <1>5, Spent DEF UpdateMailSetting
<1>6. CASE \E i \in Ids : RetryJob(i)
  <2>1. [NoJob EXCEPT !.status = "PENDING", !.due = TRUE] \in Job
    BY Writes
  <2>2. job' \in [Ids -> Job] /\ age' \in [Ids -> 0..Window]
    BY <1>6, <2>1, MailAssumption DEF RetryJob
  <2> QED
    BY <1>6, <2>2, Spent DEF RetryJob
<1>7. CASE \E i \in Ids : BecomeDue(i)
  <2>1. \A j \in Job : [j EXCEPT !.due = TRUE] \in Job
    BY DEF Job
  <2>2. job' \in [Ids -> Job]
    BY <1>7, <2>1 DEF BecomeDue
  <2> QED
    BY <1>7, <2>2 DEF BecomeDue
<1>8. CASE \E i \in Ids : SweepJob(i)
  <2>1. [NoJob EXCEPT !.status = "deleted"] \in Job
    BY Writes
  <2>2. job' \in [Ids -> Job] /\ age' \in [Ids -> 0..Window]
    BY <1>8, <2>1, MailAssumption DEF SweepJob
  <2> QED
    BY <1>8, <2>2 DEF SweepJob
<1>9. CASE \E i \in Ids : SweepNotice(i)
  BY <1>9 DEF SweepNotice, Stands
<1>10. CASE RetryFailedJobs
  <2>1. age' \in [Ids -> 0..Window]
    BY <1>10, MailAssumption DEF RetryFailedJobs
  <2> QED
    BY <1>10, <2>1, Writes, Spent DEF RetryFailedJobs
<1>11. CASE RequeueAbandoned
  <2>1. job' \in [Ids -> Job]
    BY <1>11, PutBack DEF RequeueAbandoned
  <2> QED
    BY <1>11, <2>1 DEF RequeueAbandoned
<1>12. CASE NextDay
  BY <1>12 DEF NextDay
<1>13. CASE Crash
  BY <1>13, Writes, Spent DEF Crash, Happens
<1>14. CASE \E i \in Ids : Claim(i)
  <2> PICK i \in Ids : Claim(i)
    BY <1>14
  <2>1. job[i].attempts + 1 \in Nat
    BY DEF Job
  <2>2. \A j \in Job, n \in Nat : [j EXCEPT !.status = "RUNNING", !.attempts = n] \in Job
    BY DEF Job
  <2>3. job' \in [Ids -> Job]
    BY <2>1, <2>2 DEF Claim
  <2>4. \A w \in Holding, n \in Nat :
           [w EXCEPT !.phase = "claimed", !.id = i, !.attempt = n] \in Holding
    BY DEF Holding
  <2>5. worker' \in Holding
    BY <2>1, <2>4, Writes DEF Claim
  <2> QED
    BY <2>3, <2>5 DEF Claim
<1>15. CASE DeliverGone
  BY <1>15, Writes DEF DeliverGone
<1>16. CASE Skip
  BY <1>16, Writes DEF Skip
<1>17. CASE Deliver
  BY <1>17, Writes DEF Deliver
<1>18. CASE Taken
  <2>1. copies' \in [Ids -> Nat]
    <3>1. CASE worker.id \in Ids
      BY <1>18, <3>1 DEF Taken
    <3>2. CASE worker.id \notin Ids
      BY <1>18, <3>2 DEF Taken
    <3> QED
      BY <3>1, <3>2
  <2>2. worker' \in Holding
    BY <1>18, Writes DEF Taken
  <2> QED
    BY <1>18, <2>1, <2>2 DEF Taken
<1>19. CASE TakenUnheard
  <2>1. copies' \in [Ids -> Nat]
    <3>1. CASE worker.id \in Ids
      BY <1>19, <3>1 DEF TakenUnheard
    <3>2. CASE worker.id \notin Ids
      BY <1>19, <3>2 DEF TakenUnheard
    <3> QED
      BY <3>1, <3>2
  <2>2. worker' \in Holding
    BY <1>19, Writes DEF TakenUnheard
  <2> QED
    BY <1>19, <2>1, <2>2, Spent DEF TakenUnheard, Happens
<1>20. CASE Refused
  BY <1>20, Writes DEF Refused
<1>21. CASE RecordSent
  <2>1. notice' \in [Ids -> Notice \cup {None, Gone}]
    BY <1>21, MarkedNotice DEF RecordSent, Stands
  <2>2. worker' \in Holding
    BY <1>21, Writes DEF RecordSent
  <2>3. records' \in [Ids -> SUBSET Records]
    BY <1>21 DEF RecordSent
  <2> QED
    BY <1>21, <2>1, <2>2, <2>3 DEF RecordSent
<1>22. CASE Complete
  BY <1>22, Writes DEF Complete, Close
<1>23. CASE GiveUp
  <2>1. \A j \in Job : [j EXCEPT !.status = "COMPLETED", !.notSent = TRUE] \in Job
    BY DEF Job
  <2>2. job' \in [Ids -> Job]
    BY <1>23, <2>1 DEF GiveUp, Close
  <2> QED
    BY <1>23, <2>2, Writes DEF GiveUp
<1>24. CASE Fail
  <2>1. \A j \in Job, status \in Statuses :
           [j EXCEPT !.status = status, !.due = FALSE] \in Job
    BY DEF Job
  <2>2. job' \in [Ids -> Job]
    BY <1>24, <2>1 DEF Fail, Close
  <2> QED
    BY <1>24, <2>2, Writes DEF Fail
<1>25. CASE ClosingLost
  BY <1>25, Writes, Spent DEF ClosingLost, Happens
<1>26. CASE StartDigests
  <2>1. DigestRecipients \subseteq People
    BY DEF DigestRecipients
  <2>2. mail.allowed \subseteq Events
    <3>1. mail \in [enabled : BOOLEAN, allowed : SUBSET (Events \ {"bell"})]
      BY MailAssumption
    <3> QED
      BY <3>1
  <2>3. \A p \in People : pref[p].muted \subseteq Events
    <3>1. \A p \in People : \/ pref[p] \in [email_enabled : BOOLEAN, daily : BOOLEAN, muted : SUBSET Events]
                            \/ pref[p] = Default
      BY MailAssumption
    <3>2. ASSUME NEW p \in People PROVE pref[p].muted \subseteq Events
      <4>1. CASE pref[p] = Default
        BY <4>1 DEF Default
      <4>2. CASE pref[p] \in [email_enabled : BOOLEAN, daily : BOOLEAN, muted : SUBSET Events]
        BY <4>2
      <4> QED
        BY <3>1, <4>1, <4>2
    <3> QED
      BY <3>2
  <2> DEFINE muted == [p \in People |-> IF p \in DigestRecipients THEN pref[p].muted ELSE {}]
  <2>4. muted \in [People -> SUBSET Events]
    BY <2>3 DEF muted
  <2>5. \A w \in Holding, m \in [People -> SUBSET Events], a \in SUBSET Events, t \in SUBSET People :
           [w EXCEPT !.phase = "digesting", !.todo = t, !.muted = m, !.allowed = a] \in Holding
    BY DEF Holding
  <2>6. worker' = [Resting EXCEPT !.phase = "digesting", !.todo = DigestRecipients,
                     !.muted = muted, !.allowed = mail.allowed]
    BY <1>26 DEF StartDigests
  <2> HIDE DEF muted
  <2>7. worker' \in Holding
    BY <2>1, <2>2, <2>4, <2>5, <2>6, Writes
  <2> QED
    BY <1>26, <2>7 DEF StartDigests
<1>27. CASE \E p \in People : CollectDigest(p)
  <2> PICK p \in People : CollectDigest(p)
    BY <1>27
  <2> DEFINE found == Oldest({i \in Ids : Collectable(i, p, worker.muted[p], worker.allowed)})
  <2>1. found \subseteq Ids
    BY DEF Oldest
  <2>2. \/ worker' = [worker EXCEPT !.todo = worker.todo \ {p}]
        \/ worker' = [worker EXCEPT !.phase = "summing", !.reader = p,
                                    !.todo = worker.todo \ {p}, !.included = found]
    BY DEF CollectDigest
  <2> HIDE DEF found
  <2>3. \A t \in SUBSET People :
           /\ [worker EXCEPT !.todo = t] \in Holding
           /\ [worker EXCEPT !.phase = "summing", !.reader = p, !.todo = t, !.included = found]
                 \in Holding
    BY <2>1 DEF Holding
  <2>4. worker.todo \ {p} \in SUBSET People
    BY DEF Holding
  <2>5. worker' \in Holding
    BY <2>2, <2>3, <2>4
  <2> QED
    BY <2>5 DEF CollectDigest
<1>28. CASE DigestTaken
  <2>1. copies' \in [Ids -> Nat]
    BY <1>28 DEF DigestTaken, HandOverDigest
  <2>2. worker' \in Holding
    BY <1>28, Writes DEF DigestTaken
  <2> QED
    BY <1>28, <2>1, <2>2 DEF DigestTaken
<1>29. CASE DigestUnheard
  <2>1. copies' \in [Ids -> Nat]
    BY <1>29 DEF DigestUnheard, HandOverDigest
  <2>2. worker' \in Holding
    BY <1>29, Writes DEF DigestUnheard
  <2> QED
    BY <1>29, <2>1, <2>2, Spent DEF DigestUnheard, Happens
<1>30. CASE DigestRefused
  BY <1>30, Writes DEF DigestRefused
<1>31. CASE MarkDigest
  <2>1. \A i \in Marked : notice[i] \in Notice
    BY DEF Marked, Stands, Holding
  <2>2. notice' \in [Ids -> Notice \cup {None, Gone}]
    BY <1>31, <2>1, MarkedNotice DEF MarkDigest
  <2>3. worker' \in Holding
    BY <1>31, Writes DEF MarkDigest
  <2> QED
    BY <1>31, <2>2, <2>3 DEF MarkDigest
<1>32. CASE StampDigest
  BY <1>32, Writes DEF StampDigest
<1>33. CASE MarkLost
  BY <1>33, Writes, Spent DEF MarkLost, Happens
<1>34. CASE EndDigests
  BY <1>34, Writes DEF EndDigests
<1>35. CASE UNCHANGED vars
  BY <1>35 DEF vars
<1>36. CASE ReadFails
  BY <1>36, Writes, Spent DEF ReadFails
<1>37. CASE RecordFailed
  BY <1>37, Writes DEF RecordFailed
<1>38. CASE RecordLost
  <2>1. records' \in [Ids -> SUBSET Records]
    BY <1>38 DEF RecordLost
  <2>2. worker' \in Holding
    <3>1. \/ worker' = [worker EXCEPT !.phase = "givingUp"]
          \/ worker' = [worker EXCEPT !.phase = "completing"]
          \/ worker' = [worker EXCEPT !.phase = "failing"]
      BY <1>38 DEF RecordLost
    <3>2. /\ [worker EXCEPT !.phase = "givingUp"] \in Holding
          /\ [worker EXCEPT !.phase = "completing"] \in Holding
          /\ [worker EXCEPT !.phase = "failing"] \in Holding
      BY Writes
    <3> QED
      BY <3>1, <3>2
  <2> QED
    BY <1>38, <2>1, <2>2, Spent DEF RecordLost
<1> QED
  BY <1>1, <1>2, <1>3, <1>4, <1>5, <1>6, <1>7, <1>8, <1>9, <1>10, <1>11, <1>12, <1>13,
     <1>14, <1>15, <1>16, <1>17, <1>18, <1>19, <1>20, <1>21, <1>22, <1>23, <1>24, <1>25,
     <1>26, <1>27, <1>28, <1>29, <1>30, <1>31, <1>32, <1>33, <1>34, <1>35, <1>36,
     <1>37, <1>38
     DEF Next, Work, Send, SendDigest

(* The queue and the summary do not get at the same notice.                  *)
LEMMA ApartKept ==
    ASSUME TypeOK, Apart, [Next]_vars
    PROVE  Apart'
<1> USE MailAssumption, NoticeAssumption DEF TypeOK, Notice, Job, Holding, Statuses, Phases, Budget,
            rows, alarms, people, Stands, Apart, AtJob
<1>1. CASE \E p \in People, event \in Raised, actor \in People \cup {None} : Notify(p, event, actor)
  <2> PICK p \in People, event \in Raised, actor \in People \cup {None} : Notify(p, event, actor)
    BY <1>1
  <2> DEFINE own    == actor = p /\ ~AboutTheService(event)
             mailed == ~own /\ WantsImmediateMail(p, event)
             row    == [to |-> p, event |-> event, emailed |-> MarkOf(own, mailed), own |-> own]
  <2>1. NewId \in Ids /\ notice[NewId] = None
    BY Room DEF Notify
  <2>2. /\ notice' = [notice EXCEPT ![NewId] = row]
        /\ job' = IF mailed THEN [job EXCEPT ![NewId].status = "PENDING", ![NewId].due = TRUE]
                             ELSE job
        /\ worker' = worker
    BY DEF Notify, NotifyTx
  <2>3. mailed => row.emailed
    BY DEF MarkOf
  <2> HIDE DEF own, mailed, row
  <2>4. \A i \in Ids \ {NewId} : notice'[i] = notice[i] /\ job'[i] = job[i]
    BY <2>1, <2>2
  <2>5. job[NewId].status = "none"
    BY <2>1
  <2>6. row # None
    <3>1. own \in BOOLEAN /\ mailed \in BOOLEAN
      BY DEF own, mailed
    <3>2. row \in Notice
      BY <3>1, Written DEF row
    <3> HIDE DEF row
    <3> QED
      BY <3>2, NoticeAssumption
  <2>7. job'[NewId].status # "none" => notice'[NewId] = row /\ row.emailed /\ row # None
    BY <2>1, <2>2, <2>3, <2>5, <2>6
  <2> QED
    BY <2>1, <2>2, <2>4, <2>5, <2>7
<1>2. CASE \E unheard \in SUBSET Admins : AlertFailedJobs(unheard)
  BY <1>2, Spent DEF AlertFailedJobs
<1>3. CASE \E p \in People : CloseAccount(p)
  BY <1>3 DEF CloseAccount, Spend
<1>4. CASE \E p \in People, wish \in Readers : UpdatePreferences(p, wish)
  BY <1>4 DEF UpdatePreferences, Spend
<1>5. CASE \E setting \in Settings : UpdateMailSetting(setting)
  BY <1>5 DEF UpdateMailSetting, Spend
<1>6. CASE \E i \in Ids : RetryJob(i)
  BY <1>6 DEF RetryJob, NoJob, Spend
<1>7. CASE \E i \in Ids : BecomeDue(i)
  BY <1>7 DEF BecomeDue
<1>8. CASE \E i \in Ids : SweepJob(i)
  BY <1>8 DEF SweepJob, NoJob
<1>9. CASE \E i \in Ids : SweepNotice(i)
  BY <1>9 DEF SweepNotice, Stands
<1>10. CASE RetryFailedJobs
  BY <1>10 DEF RetryFailedJobs, NoJob, Spend
<1>11. CASE RequeueAbandoned
  <2>1. \A i \in Ids : /\ job[i].status # "RUNNING" => job'[i] = job[i]
                       /\ job[i].status = "RUNNING" => /\ job'[i].status = "PENDING"
                                                       /\ job'[i].notSent = job[i].notSent
    BY <1>11, PutBack DEF RequeueAbandoned, IsOverdue
  <2>2. notice' = notice /\ worker' = worker
    BY <1>11 DEF RequeueAbandoned
  <2>3. \A i \in Ids : /\ job'[i].status # "none" => job[i].status # "none"
                       /\ job[i].status \in {"PENDING", "RUNNING"} =>
                             job'[i].status \in {"PENDING", "RUNNING"}
                       /\ job[i].status = "none" => job'[i].status = "none"
    BY <2>1
  <2>4. worker.phase \in AtJob => worker.id \in Ids /\ job'[worker.id].status \in {"PENDING", "RUNNING"}
    BY <2>3
  <2>5. worker.phase \in {"summing", "marking"} =>
           \A i \in worker.included : notice[i] # None /\ job'[i].status = "none"
    BY <2>3
  <2>6. \A i \in Ids : job'[i].status # "none" => notice[i] # None /\ (Stands(i) => notice[i].emailed)
    BY <2>3
  <2> QED
    BY <2>2, <2>4, <2>5, <2>6
<1>12. CASE NextDay
  BY <1>12 DEF NextDay
<1>13. CASE Crash
  BY <1>13 DEF Crash, Resting, Happens, Spend
<1>14. CASE \E i \in Ids : Claim(i)
  BY <1>14 DEF Claim, Claimable, Resting
<1>15. CASE DeliverGone
  BY <1>15 DEF DeliverGone
<1>16. CASE Skip
  BY <1>16 DEF Skip
<1>17. CASE Deliver
  BY <1>17 DEF Deliver
<1>18. CASE Taken
  BY <1>18 DEF Taken
<1>19. CASE TakenUnheard
  BY <1>19 DEF TakenUnheard, Happens, Spend
<1>20. CASE Refused
  BY <1>20 DEF Refused
<1>21. CASE RecordSent
  BY <1>21, MarkedNotice DEF RecordSent
<1>22. CASE Complete
  BY <1>22 DEF Complete, Close, Resting
<1>23. CASE GiveUp
  BY <1>23 DEF GiveUp, Close, Resting
<1>24. CASE Fail
  BY <1>24 DEF Fail, Close, Resting
<1>25. CASE ClosingLost
  BY <1>25 DEF ClosingLost, Resting, Happens, Spend
<1>26. CASE StartDigests
  BY <1>26 DEF StartDigests, Resting
<1>27. CASE \E p \in People : CollectDigest(p)
  BY <1>27 DEF CollectDigest, Collectable, Oldest
<1>28. CASE DigestTaken
  BY <1>28 DEF DigestTaken, HandOverDigest
<1>29. CASE DigestUnheard
  BY <1>29 DEF DigestUnheard, HandOverDigest, NextReader, Happens, Spend
<1>30. CASE DigestRefused
  BY <1>30 DEF DigestRefused, NextReader
<1>31. CASE MarkDigest
  BY <1>31, MarkedNotice DEF MarkDigest, Marked
<1>32. CASE StampDigest
  BY <1>32 DEF StampDigest, NextReader
<1>33. CASE MarkLost
  BY <1>33 DEF MarkLost, NextReader, Happens, Spend
<1>34. CASE EndDigests
  BY <1>34 DEF EndDigests, Resting
<1>35. CASE UNCHANGED vars
  BY <1>35 DEF vars
<1>36. CASE ReadFails
  BY <1>36, Spent DEF ReadFails
<1>37. CASE RecordFailed
  BY <1>37 DEF RecordFailed
<1>38. CASE RecordLost
  BY <1>38, Spent DEF RecordLost
<1> QED
  BY <1>1, <1>2, <1>3, <1>4, <1>5, <1>6, <1>7, <1>8, <1>9, <1>10, <1>11, <1>12, <1>13,
     <1>14, <1>15, <1>16, <1>17, <1>18, <1>19, <1>20, <1>21, <1>22, <1>23, <1>24, <1>25,
     <1>26, <1>27, <1>28, <1>29, <1>30, <1>31, <1>32, <1>33, <1>34, <1>35, <1>36, <1>37, <1>38
     DEF Next, Work, Send, SendDigest

(* A further copy needs a further mishap.                                    *)
LEMMA CountedKept ==
    ASSUME TypeOK, Apart, Counted, [Next]_vars
    PROVE  Counted'
<1> USE MailAssumption, NoticeAssumption DEF TypeOK, Notice, Job, Holding, Statuses, Phases, Budget,
            rows, alarms, people, Stands, Apart, AtJob, Counted, Armed, Open
<1>1. CASE \E p \in People, event \in Raised, actor \in People \cup {None} : Notify(p, event, actor)
  BY <1>1, Room DEF Notify, NotifyTx, MarkOf
<1>2. CASE \E unheard \in SUBSET Admins : AlertFailedJobs(unheard)
  BY <1>2, Spent DEF AlertFailedJobs
<1>3. CASE \E p \in People : CloseAccount(p)
  BY <1>3 DEF CloseAccount, Spend
<1>4. CASE \E p \in People, wish \in Readers : UpdatePreferences(p, wish)
  BY <1>4 DEF UpdatePreferences, Spend
<1>5. CASE \E setting \in Settings : UpdateMailSetting(setting)
  BY <1>5 DEF UpdateMailSetting, Spend
<1>6. CASE \E i \in Ids : RetryJob(i)
  BY <1>6 DEF RetryJob, NoJob, Spend
<1>7. CASE \E i \in Ids : BecomeDue(i)
  BY <1>7 DEF BecomeDue
<1>8. CASE \E i \in Ids : SweepJob(i)
  BY <1>8 DEF SweepJob, NoJob
<1>9. CASE \E i \in Ids : SweepNotice(i)
  BY <1>9 DEF SweepNotice, Stands
<1>10. CASE RetryFailedJobs
  BY <1>10 DEF RetryFailedJobs, NoJob, Spend
<1>11. CASE RequeueAbandoned
  <2>1. \A i \in Ids : /\ job[i].status # "RUNNING" => job'[i] = job[i]
                       /\ job[i].status = "RUNNING" => /\ job'[i].status = "PENDING"
                                                       /\ job'[i].notSent = job[i].notSent
    BY <1>11, PutBack DEF RequeueAbandoned, IsOverdue
  <2> QED
    BY <1>11, <2>1 DEF RequeueAbandoned
<1>12. CASE NextDay
  BY <1>12 DEF NextDay
<1>13. CASE Crash
  BY <1>13 DEF Crash, Resting, Happens, Spend
<1>14. CASE \E i \in Ids : Claim(i)
  BY <1>14 DEF Claim, Claimable, Resting
<1>15. CASE DeliverGone
  BY <1>15 DEF DeliverGone
<1>16. CASE Skip
  BY <1>16 DEF Skip
<1>17. CASE Deliver
  BY <1>17 DEF Deliver
<1>18. CASE Taken
  BY <1>18 DEF Taken
<1>19. CASE TakenUnheard
  BY <1>19 DEF TakenUnheard, Happens, Spend
<1>20. CASE Refused
  BY <1>20 DEF Refused
<1>21. CASE RecordSent
  BY <1>21, MarkedNotice DEF RecordSent
<1>22. CASE Complete
  BY <1>22 DEF Complete, Close, Resting
<1>23. CASE GiveUp
  BY <1>23 DEF GiveUp, Close, Resting
<1>24. CASE Fail
  BY <1>24 DEF Fail, Close, Resting
<1>25. CASE ClosingLost
  BY <1>25 DEF ClosingLost, Resting, Happens, Spend
<1>26. CASE StartDigests
  BY <1>26 DEF StartDigests, Resting
<1>27. CASE \E p \in People : CollectDigest(p)
  BY <1>27 DEF CollectDigest, Collectable, Oldest
<1>28. CASE DigestTaken
  BY <1>28 DEF DigestTaken, HandOverDigest
<1>29. CASE DigestUnheard
  BY <1>29 DEF DigestUnheard, HandOverDigest, NextReader, Happens, Spend
<1>30. CASE DigestRefused
  BY <1>30 DEF DigestRefused, NextReader
<1>31. CASE MarkDigest
  BY <1>31, MarkedNotice DEF MarkDigest, Marked
<1>32. CASE StampDigest
  BY <1>32 DEF StampDigest, NextReader
<1>33. CASE MarkLost
  BY <1>33 DEF MarkLost, NextReader, Happens, Spend
<1>34. CASE EndDigests
  BY <1>34 DEF EndDigests, Resting
<1>35. CASE UNCHANGED vars
  BY <1>35 DEF vars
<1>36. CASE ReadFails
  BY <1>36, Spent DEF ReadFails
<1>37. CASE RecordFailed
  BY <1>37 DEF RecordFailed
<1>38. CASE RecordLost
  BY <1>38, Spent DEF RecordLost
<1> QED
  BY <1>1, <1>2, <1>3, <1>4, <1>5, <1>6, <1>7, <1>8, <1>9, <1>10, <1>11, <1>12, <1>13,
     <1>14, <1>15, <1>16, <1>17, <1>18, <1>19, <1>20, <1>21, <1>22, <1>23, <1>24, <1>25,
     <1>26, <1>27, <1>28, <1>29, <1>30, <1>31, <1>32, <1>33, <1>34, <1>35, <1>36, <1>37, <1>38
     DEF Next, Work, Send, SendDigest

(* Nothing drops out of the queue without a trace.                           *)
LEMMA ExplainedKept ==
    ASSUME TypeOK, Apart, Explained, [Next]_vars
    PROVE  Explained'
<1> USE MailAssumption, NoticeAssumption DEF TypeOK, Notice, Job, Holding, Statuses, Phases, Budget,
            rows, alarms, people, Stands, Apart, AtJob, Explained, NoMailIsLost, IsAccountedFor
<1>1. CASE \E p \in People, event \in Raised, actor \in People \cup {None} : Notify(p, event, actor)
  BY <1>1, Room DEF Notify, NotifyTx, MarkOf
<1>2. CASE \E unheard \in SUBSET Admins : AlertFailedJobs(unheard)
  BY <1>2, Spent DEF AlertFailedJobs
<1>3. CASE \E p \in People : CloseAccount(p)
  BY <1>3 DEF CloseAccount, Spend
<1>4. CASE \E p \in People, wish \in Readers : UpdatePreferences(p, wish)
  BY <1>4 DEF UpdatePreferences, Spend
<1>5. CASE \E setting \in Settings : UpdateMailSetting(setting)
  BY <1>5 DEF UpdateMailSetting, Spend
<1>6. CASE \E i \in Ids : RetryJob(i)
  BY <1>6 DEF RetryJob, NoJob, Spend
<1>7. CASE \E i \in Ids : BecomeDue(i)
  BY <1>7 DEF BecomeDue
<1>8. CASE \E i \in Ids : SweepJob(i)
  BY <1>8 DEF SweepJob, NoJob
<1>9. CASE \E i \in Ids : SweepNotice(i)
  BY <1>9 DEF SweepNotice, Stands
<1>10. CASE RetryFailedJobs
  BY <1>10 DEF RetryFailedJobs, NoJob, Spend
<1>11. CASE RequeueAbandoned
  <2>1. \A i \in Ids : /\ job[i].status # "RUNNING" => job'[i] = job[i]
                       /\ job[i].status = "RUNNING" => /\ job'[i].status = "PENDING"
                                                       /\ job'[i].notSent = job[i].notSent
    BY <1>11, PutBack DEF RequeueAbandoned, IsOverdue
  <2>2. notice' = notice /\ worker' = worker /\ records' = records /\ copies' = copies
    BY <1>11 DEF RequeueAbandoned
  <2>3. \A i \in Ids : job'[i].notSent = job[i].notSent
    BY <2>1
  <2>4. \A i \in Ids : /\ job'[i].status = "FAILED" => job[i].status = "FAILED"
                       /\ job[i].status # "RUNNING" => job'[i] = job[i]
                       /\ job[i].status = "RUNNING" => job'[i].status = "PENDING"
    BY <2>1
  <2>5. NoMailIsLost'
    BY <2>2, <2>4
  <2> QED
    BY <2>2, <2>3, <2>4, <2>5
<1>12. CASE NextDay
  BY <1>12 DEF NextDay
<1>13. CASE Crash
  BY <1>13 DEF Crash, Resting, Happens, Spend
<1>14. CASE \E i \in Ids : Claim(i)
  BY <1>14 DEF Claim, Claimable, Resting
<1>15. CASE DeliverGone
  BY <1>15 DEF DeliverGone
<1>16. CASE Skip
  BY <1>16 DEF Skip
<1>17. CASE Deliver
  BY <1>17 DEF Deliver
<1>18. CASE Taken
  BY <1>18 DEF Taken
<1>19. CASE TakenUnheard
  BY <1>19 DEF TakenUnheard, Happens, Spend
<1>20. CASE Refused
  BY <1>20 DEF Refused
<1>21. CASE RecordSent
  BY <1>21, MarkedNotice DEF RecordSent
<1>22. CASE Complete
  BY <1>22 DEF Complete, Close, Resting
<1>23. CASE GiveUp
  BY <1>23 DEF GiveUp, Close, Resting
<1>24. CASE Fail
  <2>1. \A i \in Ids \ {worker.id} : job'[i] = job[i]
    BY <1>24 DEF Fail, Close
  <2>2. job'[worker.id].status \in {"PENDING", "FAILED"}
    BY <1>24 DEF Fail, Close
  <2>3. worker'.phase = "idle" /\ UNCHANGED <<notice, copies, records>>
    BY <1>24 DEF Fail, Resting
  <2>4. records[worker.id] # {} \/ notice[worker.id] = Gone
    BY <1>24 DEF Fail
  <2>5. NoMailIsLost'
    BY <2>1, <2>2, <2>3
  <2>6. \A i \in Ids :
           job'[i].notSent \/ job'[i].status = "FAILED" => records'[i] # {} \/ notice'[i] = Gone
    BY <2>1, <2>3, <2>4
  <2> QED
    BY <2>3, <2>5, <2>6
<1>25. CASE ClosingLost
  BY <1>25 DEF ClosingLost, Resting, Happens, Spend
<1>26. CASE StartDigests
  BY <1>26 DEF StartDigests, Resting
<1>27. CASE \E p \in People : CollectDigest(p)
  BY <1>27 DEF CollectDigest, Collectable, Oldest
<1>28. CASE DigestTaken
  BY <1>28 DEF DigestTaken, HandOverDigest
<1>29. CASE DigestUnheard
  BY <1>29 DEF DigestUnheard, HandOverDigest, NextReader, Happens, Spend
<1>30. CASE DigestRefused
  BY <1>30 DEF DigestRefused, NextReader
<1>31. CASE MarkDigest
  BY <1>31, MarkedNotice DEF MarkDigest, Marked
<1>32. CASE StampDigest
  BY <1>32 DEF StampDigest, NextReader
<1>33. CASE MarkLost
  BY <1>33 DEF MarkLost, NextReader, Happens, Spend
<1>34. CASE EndDigests
  BY <1>34 DEF EndDigests, Resting
<1>35. CASE UNCHANGED vars
  BY <1>35 DEF vars
<1>36. CASE ReadFails
  BY <1>36, Spent DEF ReadFails
<1>37. CASE RecordFailed
  BY <1>37 DEF RecordFailed
<1>38. CASE RecordLost
  <2>1. /\ worker.phase \in {"claimed", "taken", "refused"} /\ worker.id \in Ids
        /\ UNCHANGED <<notice, job, copies>>
    BY <1>38 DEF RecordLost
  <2>2. \A i \in Ids : records[i] # {} => records'[i] # {}
    BY <1>38, <2>1 DEF RecordLost
  <2>3. records'[worker.id] # {}
    BY <1>38, <2>1 DEF RecordLost
  <2>4. /\ worker'.phase \in {"givingUp", "completing", "failing"} /\ worker'.id = worker.id
        /\ worker'.phase = "completing" => worker.phase = "taken"
    BY <1>38 DEF RecordLost
  <2>5. NoMailIsLost'
    BY <2>1, <2>2
  <2>6. \A i \in Ids :
           job'[i].notSent \/ job'[i].status = "FAILED" => records'[i] # {} \/ notice'[i] = Gone
    BY <2>1, <2>2
  <2>7. worker'.phase = "completing" => copies'[worker'.id] > 0
    BY <2>1, <2>4
  <2> QED
    BY <2>3, <2>4, <2>5, <2>6, <2>7
<1> QED
  BY <1>1, <1>2, <1>3, <1>4, <1>5, <1>6, <1>7, <1>8, <1>9, <1>10, <1>11, <1>12, <1>13,
     <1>14, <1>15, <1>16, <1>17, <1>18, <1>19, <1>20, <1>21, <1>22, <1>23, <1>24, <1>25,
     <1>26, <1>27, <1>28, <1>29, <1>30, <1>31, <1>32, <1>33, <1>34, <1>35, <1>36, <1>37, <1>38
     DEF Next, Work, Send, SendDigest

-----------------------------------------------------------------------------
(* The queue begins empty.                                                   *)
LEMMA Start == Init => TypeOK /\ Apart /\ Counted /\ Explained
<1> SUFFICES ASSUME Init PROVE TypeOK /\ Apart /\ Counted /\ Explained
  OBVIOUS
<1> USE MailAssumption DEF Init
<1>1. TypeOK
  <2>1. NoJob \in Job /\ Resting \in Holding /\ budget \in Budget
    BY DEF NoJob, Job, Statuses, Resting, Nothing, Holding, Phases, Budget
  <2> QED
    BY <2>1 DEF TypeOK
<1>2. Apart /\ Counted
  BY DEF Apart, Counted, Armed, AtJob, Resting, NoJob
<1>3. Explained
  BY DEF Explained, NoMailIsLost, Stands, Resting, NoJob
<1> QED
  BY <1>1, <1>2, <1>3

(* All of it together is inductive.                                          *)
LEMMA Kept == Spec => [](TypeOK /\ Apart /\ Counted /\ Explained)
<1>1. Init => TypeOK /\ Apart /\ Counted /\ Explained
  BY Start
<1>2. TypeOK /\ Apart /\ Counted /\ Explained /\ [Next]_vars
         => (TypeOK /\ Apart /\ Counted /\ Explained)'
  BY TypesKept, ApartKept, CountedKept, ExplainedKept
<1> QED
  BY <1>1, <1>2, PTL DEF Spec

(* Marked mail is accounted for at every moment: whatever crash, failed      *)
(* write or lost answer comes between the statements of the worker           *)
(* (internal/notify/worker.go), and in whatever order the administrator, the *)
(* repairs and the retention come in between.  A notice of which nothing is  *)
(* left to tell lost a read or a record of its own.                          *)
THEOREM MailTold == Spec => []NoMailIsLost
<1>1. TypeOK /\ Apart /\ Counted /\ Explained => NoMailIsLost
  BY DEF Explained
<1> QED
  BY <1>1, Kept, PTL

(* No notice is mailed more often than once and once more for each mishap,   *)
(* by the queue and the summary together (notifyTx of internal/store,        *)
(* sendDigests of internal/notify).                                          *)
THEOREM CopiesTold == Spec => []CopiesHaveCauses
<1>1. TypeOK /\ Apart /\ Counted /\ Explained => CopiesHaveCauses
  BY DEF Counted, CopiesHaveCauses
<1> QED
  BY <1>1, Kept, PTL

(* The rows and the worker keep their types (internal/store, migrations of   *)
(* notifications, jobs and mail_deliveries).                                 *)
THEOREM TypesTold == Spec => []TypeOK
BY Kept, PTL

=============================================================================
