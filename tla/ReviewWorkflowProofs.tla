------------------------- MODULE ReviewWorkflowProofs -------------------------
(***************************************************************************)
(* Theorems about ReviewWorkflow, for every value of its constants.        *)
(*                                                                         *)
(* The invariants the runs check are not inductive by themselves: what a   *)
(* handler remembers between its checks and its write has to be bound to   *)
(* what the database holds meanwhile.  Inv adds that.                      *)
(***************************************************************************)
EXTENDS ReviewWorkflow, SequenceTheorems, TLAPS

\* The words a request in flight carries are those its handler accepted.
Phrased(r) ==
    /\ r.op \in {"conclude", "requestApproval"} => r.as \in Results
    /\ r.op = "decide" => r.as \in Decisions /\ r.by \in Users
    /\ r.op = "invite" => r.to \in Users
    /\ r.op = "cancel" => r.as \notin {"APPROVED", "REJECTED", "CLOSED", "CANCELLED"}
    /\ r.op \in {"result", "bulk", "judging"} => r.by \in Users

RequestsPhrased == \A h \in Handlers : Phrased(req[h])

AllJudged == \A i \in items : Judged(i)

\* Nothing is judged before the first submission, and a request that counted
\* no blocker is in flight only while everything is judged.
JudgedInOrder ==
    /\ Pinned \subseteq items
    /\ submission = "DRAFT" => \A i \in Items : verdict[i] = None
    /\ \A h \in Handlers :
          /\ req[h].op \in {"complete", "conclude", "requestApproval"} => AllJudged
          /\ req[h].op = "judging" => submission # "DRAFT"
    /\ status \in Concluded => AllJudged

StatusTold == ConclusionTellsStatus /\ SubmissionTellsStatus /\ ApprovalIsFinal

Inv == TypeOK /\ RequestsPhrased /\ StatusTold

-----------------------------------------------------------------------------
(* Type correctness *)

\* A request that is accepted, moves to another phase or is finished is one
\* the handlers can build, and touches nothing stored.
LEMMA RequestTyped ==
    ASSUME TypeOK, NEW h \in Handlers, NEW call \in Request,
           req' = [req EXCEPT ![h] = call], UNCHANGED stored
    PROVE  TypeOK'
BY DEF TypeOK, stored, row, checklist, judgement, people

\* A goroutine at rest is a request.
LEMMA IdleTyped == Idle \in Request
BY DEF Idle, Request, Ops, Words, Modes, Statuses, Results

\* What the checks put into a goroutine, and what a later phase makes of it.
LEMMA CallTyped ==
    ASSUME NEW op \in Ops, NEW u \in Users
    PROVE  /\ Call(op, u) \in Request
           /\ \A a \in Named : [Call(op, u) EXCEPT !.to = a] \in Request
           /\ \A a, b \in Named :
                 [Call(op, u) EXCEPT !.to = a, !.also = b] \in Request
           /\ \A S \in SUBSET Items : [Call(op, u) EXCEPT !.items = S] \in Request
           /\ \A S \in SUBSET Items, a \in Named :
                 [Call(op, u) EXCEPT !.items = S, !.to = a] \in Request
           /\ \A S \in SUBSET Items, n \in Nat :
                 [Call(op, u) EXCEPT !.items = S, !.nth = n] \in Request
           /\ \A S \in SUBSET Items, w \in Words :
                 [Call(op, u) EXCEPT !.items = S, !.as = w] \in Request
           /\ \A S \in SUBSET Items, a \in Named, w \in Words :
                 [Call(op, u) EXCEPT !.items = S, !.to = a, !.as = w] \in Request
           /\ \A w \in Words : [Call(op, u) EXCEPT !.as = w] \in Request
BY IdleTyped DEF Call, Request, Named

\* Ending a request, or taking it to its next phase, leaves requests.
LEMMA FinishTyped ==
    ASSUME req \in [Handlers -> Request], NEW h \in Handlers
    PROVE  /\ Finish(h) => req' \in [Handlers -> Request]
           /\ \A op \in Ops : Phase(h, op) => req' \in [Handlers -> Request]
<1>1. req[h] \in Request
  OBVIOUS
<1>2. ASSUME NEW op \in Ops PROVE [req[h] EXCEPT !.op = op] \in Request
  BY <1>1 DEF Request
<1> QED
  BY <1>2, IdleTyped DEF Finish, Phase

\* What the history adds to a request leaves it one.
LEMMA MissedTyped ==
    ASSUME NEW r \in Request, NEW S \in SUBSET Items
    PROVE  Missed(r, S) \in Request
BY DEF Missed, Request

\* A write leaves requests, and no request but its own ends or changes.
LEMMA WroteTyped ==
    ASSUME req \in [Handlers -> Request], NEW h \in Handlers,
           NEW S \in SUBSET Items, Wrote(h, S)
    PROVE  req' \in [Handlers -> Request]
BY IdleTyped, MissedTyped DEF Wrote

\* Stamping rows and changing what they stand for keep both flags.
LEMMA TouchTyped ==
    ASSUME TypeOK, NEW S
    PROVE  /\ Touch(S) => newer' \in [Items -> BOOLEAN]
           /\ Move(S) => moved' \in [Items -> BOOLEAN]
BY DEF TypeOK, Touch, Move

\* Overwriting one element leaves a sequence of the same kind.
LEMMA SetElement ==
    ASSUME NEW S, NEW s \in Seq(S), NEW n, NEW v \in S
    PROVE  [s EXCEPT ![n] = v] \in Seq(S)
<1>1. CASE n \in 1..Len(s)
  BY <1>1, ExceptSeq
<1>2. CASE n \notin 1..Len(s)
  <2>1. DOMAIN s = 1..Len(s)
    OBVIOUS
  <2>2. [s EXCEPT ![n] = v] = s
    BY <1>2, <2>1
  <2> QED
    BY <2>2
<1> QED
  BY <1>1, <1>2

\* The columns have their types at first.
LEMMA InitTyped == Init => TypeOK
<1> SUFFICES ASSUME Init PROVE TypeOK
  OBVIOUS
<1>1. approvalEnabled \in ApprovalModes /\ roles \in [Users -> SUBSET Roles]
  BY ConstantsAssumption DEF Init
<1>2. req \in [Handlers -> Request]
  BY IdleTyped DEF Init
<1>3. items \in SUBSET Items /\ unseen \in SUBSET Items
  BY DEF Init
<1>4. /\ approvals \in Seq([by : Users, decision : Decisions])
      /\ evidence \in [Items -> Seq({"live", "deleted"})]
      /\ changes \in [Items -> Seq(Change)]
  <2>1. \A S : <<>> \in Seq(S)
    OBVIOUS
  <2> QED
    BY <2>1 DEF Init
<1>5. /\ response \in [Items -> Answers \cup {"none"}]
      /\ assignee \in [Items -> Users \cup {None}]
      /\ verdict \in [Items -> Users \cup {None}]
      /\ newer \in [Items -> BOOLEAN] /\ moved \in [Items -> BOOLEAN]
      /\ active \in [Users -> BOOLEAN] /\ contributors \in SUBSET Users
  BY DEF Init
<1>6. /\ status \in Statuses /\ finalResult \in Results \cup {""}
      /\ submission \in {"DRAFT", "SUBMITTED", "RESUBMITTED"}
      /\ reviewer \in Users \cup {None} /\ approver \in Users \cup {None}
      /\ approvedAt \in BOOLEAN
  BY DEF Init, Statuses
<1> QED
  BY <1>1, <1>2, <1>3, <1>4, <1>5, <1>6 DEF TypeOK
\* Releasing somebody's items keeps the two columns it writes.
LEMMA ReleaseTyped ==
    ASSUME TypeOK, NEW u, ReleaseRowsOf(u)
    PROVE  /\ assignee' \in [Items -> Users \cup {None}]
           /\ newer' \in [Items -> BOOLEAN]
BY TouchTyped DEF TypeOK, ReleaseRowsOf

\* Moving a change request on keeps every type.
LEMMA MoveChangeTyped ==
    ASSUME TypeOK, NEW h \in Handlers, NEW from, NEW next \in {"DONE", "VERIFIED"},
           MoveChange(h, from, next)
    PROVE  TypeOK'
<1>1. PICK i \in Items :
        /\ changes[i][req[h].nth].status \in from
        /\ changes' = [changes EXCEPT ![i][req[h].nth].status = next]
  BY DEF MoveChange
<1> DEFINE s == changes[i]  n == req[h].nth
<1>2. s \in Seq(Change)
  BY DEF TypeOK
<1>3. [s EXCEPT ![n].status = next] \in Seq(Change)
  <2>1. CASE n \in 1..Len(s)
    <3>1. s[n] \in Change
      BY <1>2, <2>1, ElementOfSeq
    <3>2. [s[n] EXCEPT !.status = next] \in Change
      BY <3>1 DEF Change
    <3>3. [s EXCEPT ![n] = [s[n] EXCEPT !.status = next]] \in Seq(Change)
      BY <1>2, <3>2, SetElement
    <3> QED
      BY <3>3
  <2>2. CASE n \notin 1..Len(s)
    <3>1. [s EXCEPT ![n].status = next] = s
      BY <1>2, <2>2
    <3> QED
      BY <1>2, <3>1
  <2> QED
    BY <2>1, <2>2
<1>4. changes' \in [Items -> Seq(Change)]
  BY <1>1, <1>3 DEF TypeOK
<1>5. req' \in [Handlers -> Request]
  BY FinishTyped DEF TypeOK, MoveChange
<1> QED
  BY <1>4, <1>5 DEF TypeOK, MoveChange, row, checklist, judgement, people

\* The author's handlers keep every type.
LEMMA AuthorTyped ==
    ASSUME TypeOK, RequestsPhrased, NEW h \in Handlers, AuthorStep(h)
    PROVE  TypeOK'
<1>1. ASSUME NEW u \in Users, NEW rv \in Named, NEW ap \in Named,
             UpdateCheck(h, u, rv, ap)
      PROVE  TypeOK'
  <2>1. "update" \in Ops
    BY DEF Ops
  <2> QED
    BY <1>1, <2>1, RequestTyped, CallTyped DEF UpdateCheck, Accept
<1>2. CASE Update(h)
  BY <1>2, FinishTyped DEF TypeOK, Update, Request, checklist, judgement, people
<1>3. ASSUME NEW u \in Users, NEW S \in SUBSET Items, NEW a \in Named,
             NEW m \in Modes, SaveCheck(h, u, S, a, m)
      PROVE  TypeOK'
  <2>1. "save" \in Ops /\ m \in Words
    BY DEF Ops, Words
  <2> QED
    BY <1>3, <2>1, RequestTyped, CallTyped DEF SaveCheck, Accept
<1>4. CASE Save(h)
  <2>1. req' \in [Handlers -> Request] /\ unseen' \in SUBSET Items
    <3>1. PICK S \in SUBSET Items : Late(S) /\ Wrote(h, S)
      BY <1>4 DEF TypeOK, Save
    <3> QED
      BY <3>1, WroteTyped DEF TypeOK, Late
  <2>2. response' \in [Items -> Answers \cup {"none"}]
    BY <1>4, ConstantsAssumption DEF TypeOK, Save
  <2>3. assignee' \in [Items -> Users \cup {None}]
    BY <1>4 DEF TypeOK, Save, Request
  <2>4. newer' \in [Items -> BOOLEAN] /\ moved' \in [Items -> BOOLEAN]
    BY <1>4 DEF TypeOK, Save, Touch, Move
  <2> QED
    BY <1>4, <2>1, <2>2, <2>3, <2>4 DEF TypeOK, Save, row, people
<1>5. ASSUME NEW u \in Users, NEW S \in SUBSET Items, NEW a \in Named,
             AssignCheck(h, u, S, a)
      PROVE  TypeOK'
  <2>1. "assign" \in Ops
    BY DEF Ops
  <2> QED
    BY <1>5, <2>1, RequestTyped, CallTyped DEF AssignCheck, Accept
<1>6. CASE Assign(h)
  <2>1. req' \in [Handlers -> Request]
    <3>1. PICK S \in SUBSET Items : Wrote(h, S)
      BY <1>6 DEF TypeOK, Assign
    <3> QED
      BY <3>1, WroteTyped DEF TypeOK
  <2>2. response' \in [Items -> Answers \cup {"none"}]
    BY <1>6 DEF TypeOK, Assign, Answers
  <2>3. assignee' \in [Items -> Users \cup {None}]
    BY <1>6 DEF TypeOK, Assign, Request
  <2>4. newer' \in [Items -> BOOLEAN]
    BY <1>6 DEF TypeOK, Assign, Touch
  <2> QED
    BY <1>6, <2>1, <2>2, <2>3, <2>4 DEF TypeOK, Assign, row, people
<1>7. ASSUME NEW u \in Users, NEW i \in Items, NEW n \in 0..MaxFiles,
             UploadCheck(h, u, i, n)
      PROVE  TypeOK'
  <2>1. "upload" \in Ops /\ {i} \in SUBSET Items /\ n \in Nat
    BY DEF Ops
  <2> QED
    BY <1>7, <2>1, RequestTyped, CallTyped DEF UploadCheck, Accept
<1>8. CASE UploadBegin(h)
  <2>1. "uploading" \in Ops
    BY DEF Ops
  <2>2. req' \in [Handlers -> Request]
    BY <1>8, <2>1, FinishTyped DEF TypeOK, UploadBegin
  <2> QED
    BY <1>8, <2>2 DEF TypeOK, UploadBegin, stored, row, checklist, judgement, people
<1>9. CASE UploadCommit(h)
  <2>1. req' \in [Handlers -> Request]
    <3>1. PICK S \in SUBSET Items : Wrote(h, S)
      BY <1>9 DEF TypeOK, UploadCommit
    <3> QED
      BY <3>1, WroteTyped DEF TypeOK
  <2>2. PICK i \in items : \/ UNCHANGED evidence
                           \/ evidence' = [evidence EXCEPT ![i] = Append(@, "live")]
    BY <1>9 DEF UploadCommit
  <2>3. evidence' \in [Items -> Seq({"live", "deleted"})]
    <3>1. i \in Items /\ evidence[i] \in Seq({"live", "deleted"})
      BY DEF TypeOK
    <3>2. Append(evidence[i], "live") \in Seq({"live", "deleted"})
      BY <3>1, AppendProperties
    <3> QED
      BY <2>2, <3>1, <3>2 DEF TypeOK
  <2>4. newer' \in [Items -> BOOLEAN] /\ moved' \in [Items -> BOOLEAN]
    BY <1>9, TouchTyped DEF UploadCommit
  <2> QED
    BY <1>9, <2>1, <2>3, <2>4 DEF TypeOK, UploadCommit, row, people
<1>10. ASSUME NEW u \in Users, NEW i \in Items, NEW n \in 1..MaxFiles,
              DeleteEvidenceCheck(h, u, i, n)
       PROVE  TypeOK'
  <2>1. "deleteEvidence" \in Ops /\ {i} \in SUBSET Items /\ n \in Nat
    BY DEF Ops
  <2> QED
    BY <1>10, <2>1, RequestTyped, CallTyped DEF DeleteEvidenceCheck, Accept
<1>11. CASE DeleteEvidence(h)
  <2>1. req' \in [Handlers -> Request] /\ unseen' \in SUBSET Items
    <3>1. PICK S \in SUBSET Items : Late(S) /\ Wrote(h, S)
      BY <1>11 DEF TypeOK, DeleteEvidence
    <3> QED
      BY <3>1, WroteTyped DEF TypeOK, Late
  <2>2. evidence' \in [Items -> Seq({"live", "deleted"})]
    <3>1. PICK i \in Items :
            evidence' = [evidence EXCEPT ![i][req[h].nth] = "deleted"]
      BY <1>11 DEF DeleteEvidence
    <3>2. [evidence[i] EXCEPT ![req[h].nth] = "deleted"] \in Seq({"live", "deleted"})
      BY SetElement DEF TypeOK
    <3> QED
      BY <3>1, <3>2 DEF TypeOK
  <2>3. newer' \in [Items -> BOOLEAN] /\ moved' \in [Items -> BOOLEAN]
    BY <1>11 DEF TypeOK, DeleteEvidence, Touch, Move
  <2> QED
    BY <1>11, <2>1, <2>2, <2>3 DEF TypeOK, DeleteEvidence, row, people
<1>12. ASSUME NEW u \in Users, NEW p \in Users, InviteCheck(h, u, p)
       PROVE  TypeOK'
  <2>1. "invite" \in Ops /\ p \in Named
    BY DEF Ops, Named
  <2> QED
    BY <1>12, <2>1, RequestTyped, CallTyped DEF InviteCheck, Accept
<1>13. CASE Invite(h)
  <2>1. req' \in [Handlers -> Request] /\ contributors' \in SUBSET Users
    BY <1>13, FinishTyped DEF TypeOK, Invite, RequestsPhrased, Phrased
  <2> QED
    BY <1>13, <2>1 DEF TypeOK, Invite, row, checklist, judgement
<1>14. ASSUME NEW u \in Users, NEW p \in Users, RemoveCheck(h, u, p)
       PROVE  TypeOK'
  <2>1. "remove" \in Ops /\ p \in Named
    BY DEF Ops, Named
  <2> QED
    BY <1>14, <2>1, RequestTyped, CallTyped DEF RemoveCheck, Accept
<1>15. CASE Remove(h)
  <2>1. "release" \in Ops
    BY DEF Ops
  <2>2. req' \in [Handlers -> Request] /\ contributors' \in SUBSET Users
    BY <1>15, <2>1, FinishTyped DEF TypeOK, Remove
  <2> QED
    BY <1>15, <2>2 DEF TypeOK, Remove, row, checklist, judgement
<1>16. CASE Release(h)
  <2>1. req' \in [Handlers -> Request]
    BY <1>16, FinishTyped DEF TypeOK, Release
  <2>2. /\ assignee' \in [Items -> Users \cup {None}]
        /\ newer' \in [Items -> BOOLEAN]
    BY <1>16, ReleaseTyped DEF Release
  <2> QED
    BY <1>16, <2>1, <2>2 DEF TypeOK, Release, row, people
<1>17. ASSUME NEW u \in Users, NEW failed, SubmitCheck(h, u, failed)
       PROVE  TypeOK'
  <2> DEFINE w == IF "corrections" \in failed THEN "uncounted" ELSE ""
  <2>1. "submit" \in Ops /\ w \in Words
    BY DEF Ops, Words
  <2>2. [Call("submit", u) EXCEPT !.as = w] \in Request
    BY <2>1, CallTyped
  <2> QED
    BY <1>17, <2>2, RequestTyped DEF SubmitCheck, Accept
<1>18. CASE Submit(h)
  <2>1. unseen' \in SUBSET Items
    BY <1>18 DEF TypeOK, Submit, Request
  <2> QED
    BY <1>18, <2>1, FinishTyped
       DEF TypeOK, Submit, NextSubmissionState, Statuses, judgement, people
<1>19. CASE CancelCheck(h)
  <2>1. "cancel" \in Ops /\ status \in Words /\ Requester \in Users
    BY ConstantsAssumption DEF Ops, Words, TypeOK
  <2> QED
    BY <1>19, <2>1, RequestTyped, CallTyped DEF CancelCheck, Accept
<1>20. CASE Cancel(h)
  BY <1>20, FinishTyped DEF TypeOK, Cancel, Statuses, checklist, judgement, people
<1>21. ASSUME NEW u \in Users, NEW i \in Items, NEW n \in 1..MaxChanges,
              DoneCheck(h, u, i, n)
       PROVE  TypeOK'
  <2>1. "done" \in Ops /\ {i} \in SUBSET Items /\ n \in Nat
    BY DEF Ops
  <2> QED
    BY <1>21, <2>1, RequestTyped, CallTyped DEF DoneCheck, Accept
<1>22. CASE Done(h)
  BY <1>22, MoveChangeTyped DEF Done
<1> QED
  BY <1>1, <1>2, <1>3, <1>4, <1>5, <1>6, <1>7, <1>8, <1>9, <1>10, <1>11, <1>12,
     <1>13, <1>14, <1>15, <1>16, <1>17, <1>18, <1>19, <1>20, <1>21, <1>22
     DEF AuthorStep

\* Giving verdicts keeps the columns it writes.
LEMMA JudgeTyped ==
    ASSUME TypeOK, NEW h \in Handlers, NEW S \in SUBSET Items, Judge(h, S)
    PROVE  /\ verdict' \in [Items -> Users \cup {None}]
           /\ newer' \in [Items -> BOOLEAN] /\ moved' \in [Items -> BOOLEAN]
           /\ req' \in [Handlers -> Request]
<1>1. verdict' \in [Items -> Users \cup {None}]
  BY DEF TypeOK, Judge, Request
<1>2. newer' \in [Items -> BOOLEAN] /\ moved' \in [Items -> BOOLEAN]
  BY DEF TypeOK, Judge
<1>3. req' \in [Handlers -> Request]
  <2>1. ASSUME NEW g \in Handlers
        PROVE  [req[g] EXCEPT !.op = "overtaken"] \in Request
    <3>1. req[g] \in Request
      BY DEF TypeOK
    <3> QED
      BY <3>1 DEF Request, Ops
  <2>2. ASSUME NEW g \in Handlers PROVE Missed(req[g], S) \in Request
    BY MissedTyped DEF TypeOK
  <2> QED
    BY <2>1, <2>2, IdleTyped DEF Judge
<1> QED
  BY <1>1, <1>2, <1>3

\* Raising change requests keeps their rows.
LEMMA RaiseTyped ==
    ASSUME TypeOK, NEW S, NEW a \in Named, RaiseOn(S, a)
    PROVE  changes' \in [Items -> Seq(Change)]
<1>1. NewChange(a) \in Change
  BY DEF NewChange, Change, Named
<1>2. ASSUME NEW i \in Items PROVE Append(changes[i], NewChange(a)) \in Seq(Change)
  <2>1. changes[i] \in Seq(Change)
    BY DEF TypeOK
  <2> QED
    BY <1>1, <2>1, AppendProperties
<1> QED
  BY <1>2 DEF TypeOK, RaiseOn

\* The reviewer's handlers keep every type.
LEMMA ReviewerTyped ==
    ASSUME TypeOK, RequestsPhrased, NEW h \in Handlers, ReviewerStep(h)
    PROVE  TypeOK'
<1>1. ASSUME NEW u \in Users, BeginCheck(h, u)
      PROVE  TypeOK'
  <2>1. "begin" \in Ops
    BY DEF Ops
  <2> QED
    BY <1>1, <2>1, RequestTyped, CallTyped DEF BeginCheck, Accept
<1>2. CASE Begin(h)
  BY <1>2, FinishTyped DEF TypeOK, Begin, Request, Statuses, checklist, judgement, people
<1>3. ASSUME NEW u \in Users, NEW i \in Items, ResultCheck(h, u, i)
      PROVE  TypeOK'
  <2>1. "result" \in Ops /\ {i} \in SUBSET Items
    BY DEF Ops
  <2> QED
    BY <1>3, <2>1, RequestTyped, CallTyped DEF ResultCheck, Accept
<1>4. CASE SaveResult(h)
  <2>1. req[h].items \cap items \in SUBSET Items
    BY DEF TypeOK
  <2> QED
    BY <1>4, <2>1, JudgeTyped DEF TypeOK, SaveResult, row, checklist, people
<1>5. ASSUME NEW u \in Users, NEW S \in SUBSET Items, NEW m \in Modes,
             BulkCheck(h, u, S, m)
      PROVE  TypeOK'
  <2>1. "bulk" \in Ops /\ m \in Words
    BY DEF Ops, Words
  <2> QED
    BY <1>5, <2>1, RequestTyped, CallTyped DEF BulkCheck, Accept
<1>6. CASE BulkRead(h)
  <2>1. "judging" \in Ops
    BY DEF Ops
  <2>2. req' \in [Handlers -> Request]
    BY <1>6, <2>1, FinishTyped DEF TypeOK, BulkRead
  <2> QED
    BY <1>6, <2>2 DEF TypeOK, BulkRead, stored, row, checklist, judgement, people
<1>7. CASE BulkSave(h)
  <2>1. PICK S \in SUBSET Items : Judge(h, S)
    BY <1>7 DEF TypeOK, BulkSave
  <2> QED
    BY <1>7, <2>1, JudgeTyped DEF TypeOK, BulkSave, row, checklist, people
<1>8. ASSUME NEW u \in Users, NEW i \in Items, NEW a \in Named,
             ChangeCheck(h, u, i, a)
      PROVE  TypeOK'
  <2>1. "change" \in Ops /\ {i} \in SUBSET Items
    BY DEF Ops
  <2> QED
    BY <1>8, <2>1, RequestTyped, CallTyped DEF ChangeCheck, Accept
<1>9. CASE CreateChange(h)
  <2>1. req[h].to \in Named
    BY DEF TypeOK, Request, Named
  <2>2. changes' \in [Items -> Seq(Change)]
    BY <1>9, <2>1, RaiseTyped DEF CreateChange
  <2>3. req[h].items \in SUBSET Items /\ req' \in [Handlers -> Request]
    BY <1>9, WroteTyped DEF TypeOK, Request, CreateChange
  <2> QED
    BY <1>9, <2>2, <2>3
       DEF TypeOK, CreateChange, Statuses, checklist, judgement, people
<1>10. ASSUME NEW u \in Users, NEW S \in SUBSET Items, NEW a \in Named,
              BulkChangeCheck(h, u, S, a)
       PROVE  TypeOK'
  <2>1. "bulkChange" \in Ops
    BY DEF Ops
  <2> QED
    BY <1>10, <2>1, RequestTyped, CallTyped DEF BulkChangeCheck, Accept
<1>11. CASE BulkChange(h)
  <2>1. req[h].to \in Named
    BY DEF TypeOK, Request, Named
  <2>2. changes' \in [Items -> Seq(Change)]
    BY <1>11, <2>1, RaiseTyped DEF BulkChange
  <2>3. req' \in [Handlers -> Request]
    <3>1. PICK S \in SUBSET Items : Wrote(h, S)
      BY <1>11 DEF TypeOK, BulkChange
    <3> QED
      BY <3>1, WroteTyped DEF TypeOK
  <2> QED
    BY <1>11, <2>2, <2>3
       DEF TypeOK, BulkChange, Statuses, checklist, judgement, people
<1>12. ASSUME NEW u \in Users, NEW i \in Items, NEW n \in 1..MaxChanges,
              VerifyCheck(h, u, i, n)
       PROVE  TypeOK'
  <2>1. "verify" \in Ops /\ {i} \in SUBSET Items /\ n \in Nat
    BY DEF Ops
  <2> QED
    BY <1>12, <2>1, RequestTyped, CallTyped DEF VerifyCheck, Accept
<1>13. CASE Verify(h)
  BY <1>13, MoveChangeTyped DEF Verify
<1>14. ASSUME NEW u \in Users, CompleteCheck(h, u)
       PROVE  TypeOK'
  <2>1. "complete" \in Ops
    BY DEF Ops
  <2> QED
    BY <1>14, <2>1, RequestTyped, CallTyped DEF CompleteCheck, Accept
<1>15. ASSUME NEW res \in Results, NEW op \in {"requestApproval", "conclude"},
              CompleteRead(h, res, op)
       PROVE  TypeOK'
  <2>1. req[h] \in Request /\ res \in Words
    BY DEF TypeOK, Words
  <2>2. op \in Ops
    BY DEF Ops
  <2>3. [req[h] EXCEPT !.as = res, !.op = op] \in Request
    BY <2>1, <2>2 DEF Request
  <2>4. req' = [req EXCEPT ![h] = [req[h] EXCEPT !.as = res, !.op = op]]
    BY <1>15 DEF CompleteRead, TypeOK
  <2> QED
    BY <1>15, <2>3, <2>4, RequestTyped DEF CompleteRead
<1>16. CASE Complete(h)
  <2>1. finalResult' \in Results \cup {""} /\ status' \in Statuses
    BY <1>16 DEF Complete, Conclusion, RequestsPhrased, Phrased, Statuses
  <2>2. unseen' \in SUBSET Items
    BY <1>16 DEF TypeOK, Complete, Request
  <2> QED
    BY <1>16, <2>1, <2>2, FinishTyped DEF TypeOK, Complete, judgement, people
<1>17. ASSUME NEW u \in Users, WithdrawCheck(h, u)
       PROVE  TypeOK'
  <2>1. "withdraw" \in Ops
    BY DEF Ops
  <2> QED
    BY <1>17, <2>1, RequestTyped, CallTyped DEF WithdrawCheck, Accept
<1>18. CASE Withdraw(h)
  BY <1>18, FinishTyped DEF TypeOK, Withdraw, Statuses, checklist, judgement, people
<1>19. ASSUME NEW u \in Users, ReopenCheck(h, u)
       PROVE  TypeOK'
  <2>1. "reopen" \in Ops
    BY DEF Ops
  <2> QED
    BY <1>19, <2>1, RequestTyped, CallTyped DEF ReopenCheck, Accept
<1>20. CASE Reopen(h)
  BY <1>20, FinishTyped DEF TypeOK, Reopen, Statuses, checklist, judgement, people
<1>21. ASSUME NEW u \in Users, CloseCheck(h, u)
       PROVE  TypeOK'
  <2>1. "close" \in Ops
    BY DEF Ops
  <2> QED
    BY <1>21, <2>1, RequestTyped, CallTyped DEF CloseCheck, Accept
<1>22. CASE Close(h)
  BY <1>22, FinishTyped DEF TypeOK, Close, Statuses, checklist, judgement, people
<1> QED
  BY <1>1, <1>2, <1>3, <1>4, <1>5, <1>6, <1>7, <1>8, <1>9, <1>10, <1>11, <1>12,
     <1>13, <1>14, <1>15, <1>16, <1>17, <1>18, <1>19, <1>20, <1>21, <1>22
     DEF ReviewerStep

\* The approver's handlers keep every type.
LEMMA ApproverTyped ==
    ASSUME TypeOK, RequestsPhrased, NEW h \in Handlers, ApproverStep(h)
    PROVE  TypeOK'
<1>1. ASSUME NEW u \in Users, NEW d \in Decisions, DecideCheck(h, u, d)
      PROVE  TypeOK'
  <2>1. "decide" \in Ops /\ d \in Words
    BY DEF Ops, Words, Decisions, Results
  <2> QED
    BY <1>1, <2>1, RequestTyped, CallTyped DEF DecideCheck, Accept
<1>2. CASE Decide(h)
  <2>1. req[h].by \in Users /\ req[h].as \in Decisions
    BY <1>2 DEF Decide, RequestsPhrased, Phrased
  <2>2. [by |-> req[h].by, decision |-> req[h].as] \in [by : Users, decision : Decisions]
    BY <2>1
  <2>3. approvals' \in Seq([by : Users, decision : Decisions])
    BY <1>2, <2>2, AppendProperties DEF TypeOK, Decide
  <2>4. /\ status' \in Statuses /\ finalResult' \in Results \cup {""}
        /\ approvedAt' \in BOOLEAN /\ approver' \in Users \cup {None}
    BY <1>2, <2>1 DEF TypeOK, Decide, Statuses, Decisions, Results
  <2> QED
    BY <1>2, <2>3, <2>4, FinishTyped DEF TypeOK, Decide, checklist, judgement, people
<1> QED
  BY <1>1, <1>2 DEF ApproverStep

\* The administrators' handlers keep every type.
LEMMA AdminTyped ==
    ASSUME TypeOK, AdminStep
    PROVE  TypeOK'
<1> USE DEF row, checklist, judgement, people
<1>1. ASSUME NEW ap \in Users, ReassignApprover(ap) PROVE TypeOK'
  BY <1>1 DEF TypeOK, ReassignApprover
<1>2. ASSUME NEW i \in Items, IncludeItem(i) PROVE TypeOK'
  <2>1. req' \in [Handlers -> Request]
    BY <1>2, MissedTyped DEF TypeOK, IncludeItem
  <2> QED
    BY <1>2, <2>1 DEF TypeOK, IncludeItem
<1>3. ASSUME NEW i \in Items, ExcludeItem(i) PROVE TypeOK'
  BY <1>3 DEF TypeOK, ExcludeItem
<1>4. ASSUME NEW h \in Handlers, NEW u \in Mutable, Deactivate(h, u) PROVE TypeOK'
  <2>1. u \in Users
    BY ConstantsAssumption
  <2>2. [Idle EXCEPT !.op = "releaseOpen", !.to = u] \in Request
    BY <2>1, IdleTyped DEF Request, Ops
  <2>3. active' \in [Users -> BOOLEAN] /\ req' \in [Handlers -> Request]
    BY <1>4, <2>2 DEF TypeOK, Deactivate
  <2> QED
    BY <1>4, <2>3 DEF TypeOK, Deactivate
<1>5. ASSUME NEW h \in Handlers, ReleaseOpen(h) PROVE TypeOK'
  <2>1. req' \in [Handlers -> Request]
    BY <1>5, FinishTyped DEF TypeOK, ReleaseOpen
  <2>2. assignee' \in [Items -> Users \cup {None}] /\ newer' \in [Items -> BOOLEAN]
    BY <1>5, ReleaseTyped DEF TypeOK, ReleaseOpen
  <2> QED
    BY <1>5, <2>1, <2>2 DEF TypeOK, ReleaseOpen
<1>6. ASSUME NEW u \in Mutable, Activate(u) PROVE TypeOK'
  BY <1>6 DEF TypeOK, Activate
<1>7. ASSUME NEW u \in Mutable, NEW rs \in RoleChoices, SetRoles(u, rs) PROVE TypeOK'
  BY <1>7, ConstantsAssumption DEF TypeOK, SetRoles
<1>8. ASSUME NEW on \in ApprovalModes, SetApproval(on) PROVE TypeOK'
  BY <1>8 DEF TypeOK, SetApproval
<1> QED
  BY <1>1, <1>2, <1>3, <1>4, <1>5, <1>6, <1>7, <1>8 DEF AdminStep

\* Every step keeps every type.
LEMMA StepTyped ==
    ASSUME TypeOK, RequestsPhrased, [Next]_vars
    PROVE  TypeOK'
<1>1. ASSUME NEW h \in Handlers, Abandon(h) PROVE TypeOK'
  BY <1>1, RequestTyped, IdleTyped DEF Abandon, Finish
<1>2. CASE UNCHANGED vars
  BY <1>2 DEF TypeOK, vars, stored, row, checklist, judgement, people
<1> QED
  BY <1>1, <1>2, AuthorTyped, ReviewerTyped, ApproverTyped, AdminTyped DEF Next

-----------------------------------------------------------------------------
(* What requests remember *)

\* A request with a legal word may take the place of another.
LEMMA PhrasedAt ==
    ASSUME TypeOK, RequestsPhrased, NEW h \in Handlers, NEW call, Phrased(call),
           req' = [req EXCEPT ![h] = call]
    PROVE  RequestsPhrased'
BY DEF TypeOK, RequestsPhrased

\* A goroutine at rest carries no word at all.
LEMMA IdlePhrased == Phrased(Idle)
BY DEF Phrased, Idle

\* A check hands over a request the write can rely on.
LEMMA CheckPhrased ==
    ASSUME TypeOK, RequestsPhrased, NEW h \in Handlers, NEW call,
           Phrased(call), Accept(h, call)
    PROVE  RequestsPhrased'
BY PhrasedAt DEF Accept

\* Ending a request leaves legal words.
LEMMA FinishPhrased ==
    ASSUME TypeOK, RequestsPhrased, NEW h \in Handlers, Finish(h)
    PROVE  RequestsPhrased'
BY PhrasedAt, IdlePhrased DEF Finish

\* The history puts no word into a request.
LEMMA MissedPhrased ==
    ASSUME NEW r \in Request, NEW S, Phrased(r)
    PROVE  Phrased(Missed(r, S))
BY DEF Missed, Phrased, Request

\* A write leaves legal words.
LEMMA WrotePhrased ==
    ASSUME TypeOK, RequestsPhrased, NEW h \in Handlers, NEW S, Wrote(h, S)
    PROVE  RequestsPhrased'
BY MissedPhrased, IdlePhrased DEF TypeOK, RequestsPhrased, Wrote

\* The author's handlers carry legal words.
LEMMA AuthorPhrased ==
    ASSUME TypeOK, RequestsPhrased, NEW h \in Handlers, AuthorStep(h)
    PROVE  RequestsPhrased'
<1> USE DEF Call, Idle, Phrased
<1>1. ASSUME NEW u \in Users, NEW rv \in Named, NEW ap \in Named,
            UpdateCheck(h, u, rv, ap)
      PROVE  RequestsPhrased'
  BY <1>1, CheckPhrased DEF UpdateCheck
<1>2. ASSUME NEW u \in Users, NEW S \in SUBSET Items, NEW a \in Named, NEW m \in Modes,
            SaveCheck(h, u, S, a, m)
      PROVE  RequestsPhrased'
  BY <1>2, CheckPhrased DEF SaveCheck
<1>3. ASSUME NEW u \in Users, NEW S \in SUBSET Items, NEW a \in Named,
            AssignCheck(h, u, S, a)
      PROVE  RequestsPhrased'
  BY <1>3, CheckPhrased DEF AssignCheck
<1>4. ASSUME NEW u \in Users, NEW i \in Items, NEW n \in 0..MaxFiles,
            UploadCheck(h, u, i, n)
      PROVE  RequestsPhrased'
  BY <1>4, CheckPhrased DEF UploadCheck
<1>5. ASSUME NEW u \in Users, NEW i \in Items, NEW n \in 1..MaxFiles,
            DeleteEvidenceCheck(h, u, i, n)
      PROVE  RequestsPhrased'
  BY <1>5, CheckPhrased DEF DeleteEvidenceCheck
<1>6. ASSUME NEW u \in Users, NEW p \in Users,
            InviteCheck(h, u, p)
      PROVE  RequestsPhrased'
  BY <1>6, CheckPhrased DEF InviteCheck
<1>7. ASSUME NEW u \in Users, NEW p \in Users,
            RemoveCheck(h, u, p)
      PROVE  RequestsPhrased'
  BY <1>7, CheckPhrased DEF RemoveCheck
<1>8. ASSUME NEW u \in Users, NEW failed,
            SubmitCheck(h, u, failed)
      PROVE  RequestsPhrased'
  BY <1>8, CheckPhrased DEF SubmitCheck
<1>9. ASSUME NEW u \in Users, NEW i \in Items, NEW n \in 1..MaxChanges,
            DoneCheck(h, u, i, n)
      PROVE  RequestsPhrased'
  BY <1>9, CheckPhrased DEF DoneCheck
<1>10. CASE CancelCheck(h)
  BY <1>10, CheckPhrased DEF CancelCheck
<1>11. CASE UploadBegin(h) \/ Remove(h)
  <2>1. PICK op \in {"uploading", "release"} : Phase(h, op)
    BY <1>11 DEF UploadBegin, Remove
  <2>2. Phrased([req[h] EXCEPT !.op = op])
    BY DEF TypeOK, Request
  <2> QED
    BY <2>1, <2>2, PhrasedAt DEF Phase
<1>12. CASE Update(h) \/ Invite(h) \/ Release(h) \/ Submit(h) \/ Cancel(h) \/ Done(h)
  BY <1>12, FinishPhrased
     DEF Update, Invite, Release, Submit, Cancel, Done, MoveChange
<1>13. CASE Save(h) \/ Assign(h) \/ UploadCommit(h) \/ DeleteEvidence(h)
  <2>1. PICK S : Wrote(h, S)
    BY <1>13 DEF Save, Assign, UploadCommit, DeleteEvidence
  <2> QED
    BY <2>1, WrotePhrased
<1> QED
  BY <1>1, <1>2, <1>3, <1>4, <1>5, <1>6, <1>7, <1>8, <1>9, <1>10, <1>11, <1>12,
     <1>13
     DEF AuthorStep

\* Giving verdicts leaves legal words.
LEMMA JudgePhrased ==
    ASSUME TypeOK, RequestsPhrased, NEW h \in Handlers, NEW S, Judge(h, S)
    PROVE  RequestsPhrased'
<1>1. ASSUME NEW g \in Handlers PROVE Phrased(req'[g])
  <2>1. Phrased([req[g] EXCEPT !.op = "overtaken"])
    BY DEF TypeOK, Request, Phrased
  <2>2. req'[g] \in {Idle, Missed(req[g], S), [req[g] EXCEPT !.op = "overtaken"]}
    BY DEF Judge
  <2>3. Phrased(Missed(req[g], S))
    BY MissedPhrased DEF TypeOK, RequestsPhrased
  <2> QED
    BY <2>1, <2>2, <2>3, IdlePhrased
<1> QED
  BY <1>1 DEF RequestsPhrased

\* The reviewer's handlers carry legal words.
LEMMA ReviewerPhrased ==
    ASSUME TypeOK, RequestsPhrased, NEW h \in Handlers, ReviewerStep(h)
    PROVE  RequestsPhrased'
<1> USE DEF Call, Idle, Phrased
<1>1. ASSUME NEW u \in Users,
            BeginCheck(h, u)
      PROVE  RequestsPhrased'
  BY <1>1, CheckPhrased DEF BeginCheck
<1>2. ASSUME NEW u \in Users, NEW i \in Items,
            ResultCheck(h, u, i)
      PROVE  RequestsPhrased'
  BY <1>2, CheckPhrased DEF ResultCheck
<1>3. ASSUME NEW u \in Users, NEW S \in SUBSET Items, NEW m \in Modes,
            BulkCheck(h, u, S, m)
      PROVE  RequestsPhrased'
  BY <1>3, CheckPhrased DEF BulkCheck
<1>4. ASSUME NEW u \in Users, NEW i \in Items, NEW a \in Named,
            ChangeCheck(h, u, i, a)
      PROVE  RequestsPhrased'
  BY <1>4, CheckPhrased DEF ChangeCheck
<1>5. ASSUME NEW u \in Users, NEW S \in SUBSET Items, NEW a \in Named,
            BulkChangeCheck(h, u, S, a)
      PROVE  RequestsPhrased'
  BY <1>5, CheckPhrased DEF BulkChangeCheck
<1>6. ASSUME NEW u \in Users, NEW i \in Items, NEW n \in 1..MaxChanges,
            VerifyCheck(h, u, i, n)
      PROVE  RequestsPhrased'
  BY <1>6, CheckPhrased DEF VerifyCheck
<1>7. ASSUME NEW u \in Users,
            CompleteCheck(h, u)
      PROVE  RequestsPhrased'
  BY <1>7, CheckPhrased DEF CompleteCheck
<1>8. ASSUME NEW u \in Users,
            WithdrawCheck(h, u)
      PROVE  RequestsPhrased'
  BY <1>8, CheckPhrased DEF WithdrawCheck
<1>9. ASSUME NEW u \in Users,
            ReopenCheck(h, u)
      PROVE  RequestsPhrased'
  BY <1>9, CheckPhrased DEF ReopenCheck
<1>10. ASSUME NEW u \in Users,
             CloseCheck(h, u)
       PROVE  RequestsPhrased'
  BY <1>10, CheckPhrased DEF CloseCheck
<1>11. CASE BulkRead(h)
  <2>1. Phrased([req[h] EXCEPT !.op = "judging"])
    BY <1>11 DEF TypeOK, Request, BulkRead, RequestsPhrased
  <2> QED
    BY <1>11, <2>1, PhrasedAt DEF BulkRead, Phase
<1>12. ASSUME NEW res \in Results, NEW op \in {"requestApproval", "conclude"},
              CompleteRead(h, res, op)
       PROVE  RequestsPhrased'
  <2>1. Phrased([req[h] EXCEPT !.as = res, !.op = op])
    BY DEF TypeOK, Request
  <2>2. req' = [req EXCEPT ![h] = [req[h] EXCEPT !.as = res, !.op = op]]
    BY <1>12 DEF CompleteRead, TypeOK
  <2> QED
    BY <2>1, <2>2, PhrasedAt
<1>13. CASE SaveResult(h) \/ BulkSave(h)
  BY <1>13, JudgePhrased DEF SaveResult, BulkSave
<1>14. CASE \/ Begin(h) \/ Verify(h) \/ Complete(h) \/ Withdraw(h) \/ Reopen(h)
          \/ Close(h)
  BY <1>14, FinishPhrased
     DEF Begin, Verify, MoveChange, Complete, Withdraw, Reopen, Close
<1>15. CASE CreateChange(h) \/ BulkChange(h)
  <2>1. PICK S : Wrote(h, S)
    BY <1>15 DEF CreateChange, BulkChange
  <2> QED
    BY <2>1, WrotePhrased
<1> QED
  BY <1>1, <1>2, <1>3, <1>4, <1>5, <1>6, <1>7, <1>8, <1>9, <1>10, <1>11, <1>12,
     <1>13, <1>14, <1>15
     DEF ReviewerStep

\* Every step leaves legal words.
LEMMA StepPhrased ==
    ASSUME TypeOK, RequestsPhrased, [Next]_vars
    PROVE  RequestsPhrased'
<1>1. ASSUME NEW h \in Handlers, ApproverStep(h) PROVE RequestsPhrased'
  <2>1. ASSUME NEW u \in Users, NEW d \in Decisions, DecideCheck(h, u, d)
        PROVE  RequestsPhrased'
    BY <2>1, CheckPhrased DEF DecideCheck, Call, Idle, Phrased
  <2>2. CASE Decide(h)
    BY <2>2, FinishPhrased DEF Decide
  <2> QED
    BY <1>1, <2>1, <2>2 DEF ApproverStep
<1>2. ASSUME NEW h \in Handlers, Abandon(h) PROVE RequestsPhrased'
  BY <1>2, FinishPhrased DEF Abandon
<1>3. CASE AdminStep
  <2>1. CASE \E h \in Handlers, u \in Mutable : Deactivate(h, u)
    <3>1. PICK h \in Handlers, u \in Mutable : Deactivate(h, u)
      BY <2>1
    <3>2. Phrased([Idle EXCEPT !.op = "releaseOpen", !.to = u])
      BY DEF Phrased, Idle
    <3> QED
      BY <3>1, <3>2, PhrasedAt DEF Deactivate
  <2>2. CASE \E h \in Handlers : ReleaseOpen(h)
    BY <2>2, FinishPhrased DEF ReleaseOpen
  <2>3. CASE UNCHANGED req
    BY <2>3 DEF RequestsPhrased
  <2>4. ASSUME NEW i \in Items, IncludeItem(i) PROVE RequestsPhrased'
    BY <2>4, MissedPhrased DEF TypeOK, RequestsPhrased, IncludeItem
  <2> QED
    BY <1>3, <2>1, <2>2, <2>3, <2>4
       DEF AdminStep, ReassignApprover, ExcludeItem, Activate, SetRoles,
           SetApproval
<1>4. CASE UNCHANGED vars
  BY <1>4 DEF vars, RequestsPhrased
<1> QED
  BY <1>1, <1>2, <1>3, <1>4, AuthorPhrased, ReviewerPhrased DEF Next

\* Every column holds what its CHECK constraint allows and every request in
\* flight is one the handlers can build.
THEOREM TypeCorrect == Spec => []TypeOK
<1>1. Init => TypeOK /\ RequestsPhrased
  BY InitTyped, IdlePhrased DEF Init, RequestsPhrased
<1>2. TypeOK /\ RequestsPhrased /\ [Next]_vars => (TypeOK /\ RequestsPhrased)'
  BY StepTyped, StepPhrased
<1> QED
  BY <1>1, <1>2, PTL DEF Spec

-----------------------------------------------------------------------------
(* What the row of the review tells *)

RowKept == UNCHANGED <<status, submission, finalResult, approvedAt, approvals>>

\* What leaves the review's row alone keeps the status properties.
LEMMA KeptTold ==
    ASSUME StatusTold, RowKept
    PROVE  StatusTold'
BY DEF StatusTold, RowKept, ConclusionTellsStatus, SubmissionTellsStatus, ApprovalIsFinal

\* No check writes, and of the author's writes only two touch the row.
LEMMA AuthorRow ==
    ASSUME NEW h \in Handlers, AuthorStep(h)
    PROVE  Submit(h) \/ Cancel(h) \/ RowKept
<1> USE DEF RowKept, row, stored
<1>1. ASSUME NEW call, Accept(h, call) PROVE RowKept
  BY <1>1 DEF Accept
<1>2. CASE \/ \E u \in Users, rv, ap \in Named : UpdateCheck(h, u, rv, ap)
           \/ \E u \in Users, S \in SUBSET Items \ {{}}, a \in Named, m \in Modes :
                 SaveCheck(h, u, S, a, m)
           \/ \E u \in Users, S \in SUBSET Items \ {{}}, a \in Named :
                 AssignCheck(h, u, S, a)
  BY <1>1, <1>2 DEF UpdateCheck, SaveCheck, AssignCheck
<1>3. CASE \/ \E u \in Users, i \in Items, n \in 0..MaxFiles : UploadCheck(h, u, i, n)
           \/ \E u \in Users, i \in Items, n \in 1..MaxFiles :
                 DeleteEvidenceCheck(h, u, i, n)
           \/ \E u \in Users, i \in Items, n \in 1..MaxChanges : DoneCheck(h, u, i, n)
  BY <1>1, <1>3 DEF UploadCheck, DeleteEvidenceCheck, DoneCheck
<1>4. CASE \/ \E u, p \in Users : InviteCheck(h, u, p)
           \/ \E u, p \in Users : RemoveCheck(h, u, p)
           \/ \E u \in Users, failed \in SUBSET (Failing \ {"requester"}) :
                 SubmitCheck(h, u, failed)
           \/ CancelCheck(h)
  BY <1>1, <1>4 DEF InviteCheck, RemoveCheck, SubmitCheck, CancelCheck
<1>5. CASE Update(h) \/ Save(h) \/ Assign(h) \/ UploadBegin(h) \/ UploadCommit(h)
  BY <1>5 DEF Update, Save, Assign, UploadBegin, UploadCommit
<1>6. CASE DeleteEvidence(h) \/ Invite(h) \/ Remove(h) \/ Release(h) \/ Done(h)
  BY <1>6 DEF DeleteEvidence, Invite, Remove, Release, Done, MoveChange
<1> QED
  BY <1>2, <1>3, <1>4, <1>5, <1>6 DEF AuthorStep

\* The reviewer's handlers that write the review's row.
LEMMA ReviewerRow ==
    ASSUME NEW h \in Handlers, ReviewerStep(h)
    PROVE  \/ Begin(h) \/ CreateChange(h) \/ BulkChange(h) \/ Complete(h)
           \/ Withdraw(h) \/ Reopen(h) \/ Close(h)
           \/ RowKept
<1> USE DEF RowKept, row, stored
<1>1. ASSUME NEW call, Accept(h, call) PROVE RowKept
  BY <1>1 DEF Accept
<1>2. CASE \/ \E u \in Users : BeginCheck(h, u)
           \/ \E u \in Users, i \in Items : ResultCheck(h, u, i)
           \/ \E u \in Users, S \in SUBSET Items \ {{}}, m \in Modes :
                 BulkCheck(h, u, S, m)
  BY <1>1, <1>2 DEF BeginCheck, ResultCheck, BulkCheck
<1>3. CASE \/ \E u \in Users, i \in Items, a \in Named : ChangeCheck(h, u, i, a)
           \/ \E u \in Users, S \in SUBSET Items \ {{}}, a \in Named :
                 BulkChangeCheck(h, u, S, a)
           \/ \E u \in Users, i \in Items, n \in 1..MaxChanges : VerifyCheck(h, u, i, n)
  BY <1>1, <1>3 DEF ChangeCheck, BulkChangeCheck, VerifyCheck
<1>4. CASE \/ \E u \in Users : CompleteCheck(h, u)
           \/ \E u \in Users : WithdrawCheck(h, u)
           \/ \E u \in Users : ReopenCheck(h, u)
           \/ \E u \in Users : CloseCheck(h, u)
  BY <1>1, <1>4 DEF CompleteCheck, WithdrawCheck, ReopenCheck, CloseCheck
<1>5. CASE SaveResult(h) \/ BulkRead(h) \/ BulkSave(h) \/ Verify(h)
           \/ \E res \in Results, phase \in {"requestApproval", "conclude"} :
                 CompleteRead(h, res, phase)
  BY <1>5 DEF SaveResult, BulkRead, BulkSave, Verify, MoveChange, CompleteRead
<1> QED
  BY <1>2, <1>3, <1>4, <1>5 DEF ReviewerStep

\* The approver's handler that writes the review's row.
LEMMA ApproverRow ==
    ASSUME NEW h \in Handlers, ApproverStep(h)
    PROVE  Decide(h) \/ RowKept
BY DEF ApproverStep, DecideCheck, Accept, RowKept, stored, row

\* Administrators and abandoned requests leave the review's row alone.
LEMMA AdminRow ==
    ASSUME AdminStep \/ UNCHANGED vars \/ \E h \in Handlers : Abandon(h)
    PROVE  RowKept
<1> USE DEF RowKept, row, stored
<1>1. CASE UNCHANGED vars \/ \E h \in Handlers : Abandon(h)
  BY <1>1 DEF vars, Abandon
<1>2. CASE AdminStep
  BY <1>2 DEF AdminStep, ReassignApprover, IncludeItem, ExcludeItem, Deactivate,
              ReleaseOpen, Activate, SetRoles, SetApproval
<1> QED
  BY <1>1, <1>2

\* Every step that writes the row leaves the three columns in agreement.
LEMMA StepTold ==
    ASSUME TypeOK, RequestsPhrased, StatusTold, [Next]_vars
    PROVE  StatusTold'
<1> USE DEF Concluded
<1>1. ASSUME NEW h \in Handlers,
             \/ Submit(h) \/ Cancel(h) \/ Begin(h) \/ CreateChange(h) \/ BulkChange(h)
             \/ Withdraw(h) \/ Reopen(h) \/ Close(h) \/ Complete(h)
      PROVE  ApprovalIsFinal'
  <2>1. UNCHANGED approvals
    BY <1>1 DEF Submit, Cancel, Begin, CreateChange, BulkChange, Withdraw, Reopen,
                Close, Complete
  <2>2. CASE Close(h)
    BY <2>1, <2>2 DEF StatusTold, ApprovalIsFinal, Close
  <2>3. ASSUME ~Close(h), NEW k \in DOMAIN approvals,
               approvals[k].decision = "APPROVED"
        PROVE  FALSE
    <3>1. status \in {"APPROVED", "CLOSED"}
      BY <2>3 DEF StatusTold, ApprovalIsFinal
    <3>2. ~Cancel(h)
      BY <3>1 DEF Cancel, RequestsPhrased, Phrased
    <3> QED
      BY <1>1, <2>3, <3>1, <3>2
         DEF Submit, Begin, CreateChange, BulkChange, Withdraw, Reopen, Complete, OnDesk
  <2> QED
    BY <2>1, <2>2, <2>3 DEF ApprovalIsFinal
<1>2. ASSUME NEW h \in Handlers, Submit(h) PROVE StatusTold'
  <2>1. ConclusionTellsStatus'
    BY <1>2 DEF StatusTold, ConclusionTellsStatus, Submit, OnDesk, NextSubmissionState
  <2>2. SubmissionTellsStatus'
    BY <1>2 DEF StatusTold, SubmissionTellsStatus, Submit, OnDesk, NextSubmissionState
  <2> QED
    BY <1>1, <1>2, <2>1, <2>2 DEF StatusTold
<1>3. ASSUME NEW h \in Handlers, Cancel(h) PROVE StatusTold'
  <2>1. status \notin {"APPROVED", "REJECTED", "CLOSED", "CANCELLED"}
    BY <1>3 DEF Cancel, RequestsPhrased, Phrased
  <2>2. ConclusionTellsStatus' /\ SubmissionTellsStatus'
    BY <1>3, <2>1 DEF StatusTold, ConclusionTellsStatus, SubmissionTellsStatus, Cancel
  <2> QED
    BY <1>1, <1>3, <2>2 DEF StatusTold
<1>4. ASSUME NEW h \in Handlers, Begin(h) \/ CreateChange(h) \/ BulkChange(h)
      PROVE  StatusTold'
  <2>1. /\ status' \in {"REVIEWING", "CHANGE_REQUESTED"}
        /\ status \in {"SUBMITTED", "RESUBMITTED", "REVIEWING"}
        /\ UNCHANGED <<submission, finalResult, approvedAt>>
    BY <1>4 DEF Begin, CreateChange, BulkChange
  <2>2. ConclusionTellsStatus' /\ SubmissionTellsStatus'
    BY <2>1 DEF StatusTold, ConclusionTellsStatus, SubmissionTellsStatus
  <2> QED
    BY <1>1, <1>4, <2>2 DEF StatusTold
<1>5. ASSUME NEW h \in Handlers, Complete(h) PROVE StatusTold'
  <2>1. req[h].as \in Results
    BY <1>5 DEF Complete, RequestsPhrased, Phrased
  <2>2. ConclusionTellsStatus' /\ SubmissionTellsStatus'
    BY <1>5, <2>1 DEF StatusTold, ConclusionTellsStatus, SubmissionTellsStatus,
                      Complete, Conclusion, Results
  <2> QED
    BY <1>1, <1>5, <2>2 DEF StatusTold
<1>6. ASSUME NEW h \in Handlers, Withdraw(h) \/ Reopen(h) \/ Close(h)
      PROVE  StatusTold'
  <2>1. ASSUME Withdraw(h) \/ Reopen(h)
        PROVE  ConclusionTellsStatus' /\ SubmissionTellsStatus'
    <3>1. /\ status' \in {"REVIEWING", "CHANGE_REQUESTED"}
          /\ status \in {"APPROVAL_PENDING", "REJECTED"}
          /\ submission' = submission /\ finalResult' = ""
      BY <2>1 DEF Withdraw, Reopen
    <3>2. ~approvedAt
      BY <3>1 DEF StatusTold, ConclusionTellsStatus
    <3>3. ~approvedAt'
      BY <2>1, <3>2 DEF Withdraw, Reopen
    <3> QED
      BY <3>1, <3>3 DEF StatusTold, ConclusionTellsStatus, SubmissionTellsStatus
  <2>2. ASSUME Close(h)
        PROVE  ConclusionTellsStatus' /\ SubmissionTellsStatus'
    BY <2>2 DEF StatusTold, ConclusionTellsStatus, SubmissionTellsStatus, Close
  <2> QED
    BY <1>1, <1>6, <2>1, <2>2 DEF StatusTold
<1>7. ASSUME NEW h \in Handlers, Decide(h) PROVE StatusTold'
  <2>1. req[h].as \in Decisions
    BY <1>7 DEF Decide, RequestsPhrased, Phrased
  <2>2. ConclusionTellsStatus' /\ SubmissionTellsStatus'
    BY <1>7, <2>1 DEF StatusTold, ConclusionTellsStatus, SubmissionTellsStatus,
                      Decide, Decisions
  <2> DEFINE last == [by |-> req[h].by, decision |-> req[h].as]
  <2>3. /\ DOMAIN approvals = 1..Len(approvals)
        /\ DOMAIN approvals' = 1..(Len(approvals) + 1)
        /\ Len(approvals') = Len(approvals) + 1
        /\ Len(approvals) \in Nat
        /\ \A k \in 1..Len(approvals) : approvals'[k] = approvals[k]
        /\ approvals'[Len(approvals) + 1] = last
    <3>1. approvals \in Seq([by : Users, decision : Decisions])
      BY DEF TypeOK
    <3>2. last \in [by : Users, decision : Decisions]
      BY <1>7 DEF Decide, RequestsPhrased, Phrased
    <3>3. approvals' = Append(approvals, last)
      BY <1>7 DEF Decide
    <3> QED
      BY <3>1, <3>2, <3>3, AppendProperties
  <2>4. \A k \in 1..Len(approvals) : approvals[k].decision # "APPROVED"
    BY <1>7, <2>3 DEF StatusTold, ApprovalIsFinal, Decide
  <2>5. ASSUME NEW k \in DOMAIN approvals', approvals'[k].decision = "APPROVED"
        PROVE  /\ k = Len(approvals')
               /\ status' \in {"APPROVED", "CLOSED"} /\ approvedAt'
    <3>1. k = Len(approvals) + 1
      BY <2>3, <2>4, <2>5
    <3>2. req[h].as = "APPROVED"
      BY <2>3, <2>5, <3>1
    <3> QED
      BY <1>7, <2>3, <3>1, <3>2 DEF Decide
  <2>6. ApprovalIsFinal'
    BY <2>5 DEF ApprovalIsFinal
  <2> QED
    BY <2>2, <2>6 DEF StatusTold
<1>8. ASSUME RowKept PROVE StatusTold'
  BY <1>8, KeptTold
<1>9. ASSUME NEW h \in Handlers,
             AuthorStep(h) \/ ReviewerStep(h) \/ ApproverStep(h)
      PROVE  StatusTold'
  BY <1>2, <1>3, <1>4, <1>5, <1>6, <1>7, <1>8, <1>9, AuthorRow, ReviewerRow, ApproverRow
<1>10. CASE AdminStep \/ UNCHANGED vars \/ \E h \in Handlers : Abandon(h)
  BY <1>8, <1>10, AdminRow
<1> QED
  BY <1>9, <1>10 DEF Next

\* A draft satisfies the invariant.
LEMMA InitInv == Init => Inv
<1> SUFFICES ASSUME Init PROVE Inv
  OBVIOUS
<1>1. RequestsPhrased
  BY IdlePhrased DEF Init, RequestsPhrased
<1>2. ConclusionTellsStatus /\ SubmissionTellsStatus
  BY DEF Init, ConclusionTellsStatus, SubmissionTellsStatus, Concluded
<1>3. ApprovalIsFinal
  <2>1. approvals = <<>>
    BY DEF Init
  <2>2. DOMAIN approvals = {}
    BY <2>1
  <2> QED
    BY <2>2 DEF ApprovalIsFinal
<1> QED
  BY <1>1, <1>2, <1>3, InitTyped DEF Inv, StatusTold

\* Every step keeps the invariant.
LEMMA StepInv == Inv /\ [Next]_vars => Inv'
BY StepTyped, StepPhrased, StepTold DEF Inv

\* The invariant holds throughout.
LEMMA InvAlways == Spec => []Inv
BY InitInv, StepInv, PTL DEF Spec

\* The conclusion and the approval date stand on a review exactly when its
\* status says so, whatever requests race for it.
THEOREM ConclusionTold == Spec => []ConclusionTellsStatus
<1>1. Inv => ConclusionTellsStatus
  BY DEF Inv, StatusTold
<1> QED
  BY <1>1, InvAlways, PTL

\* The submission row follows the review's status.
THEOREM SubmissionTold == Spec => []SubmissionTellsStatus
<1>1. Inv => SubmissionTellsStatus
  BY DEF Inv, StatusTold
<1> QED
  BY <1>1, InvAlways, PTL

\* No decision follows an approval, and the approved review stays approved.
THEOREM ApprovalFinal == Spec => []ApprovalIsFinal
<1>1. Inv => ApprovalIsFinal
  BY DEF Inv, StatusTold
<1> QED
  BY <1>1, InvAlways, PTL

-----------------------------------------------------------------------------
(* The review implements its lifecycle *)

\* What leaves the review's row alone is no step of the lifecycle.
LEMMA KeptStutters == RowKept => UNCHANGED Promise!lifecycle
BY DEF RowKept, Promise!lifecycle

\* A decision and its record in the approvals table are one event.
LEMMA DecisionRefined ==
    ASSUME TypeOK, RequestsPhrased, NEW h \in Handlers, Decide(h)
    PROVE  Promise!Decision
<1> DEFINE Told(s) == [k \in DOMAIN s |-> s[k].decision]
           last == [by |-> req[h].by, decision |-> req[h].as]
<1>1. /\ approvals \in Seq([by : Users, decision : Decisions])
      /\ req[h].as \in Decisions /\ req[h].by \in Users
  BY DEF TypeOK, Decide, RequestsPhrased, Phrased
<1>2. last \in [by : Users, decision : Decisions]
  BY <1>1
<1>3. approvals' = Append(approvals, last)
  BY DEF Decide
<1>4. Told(approvals)  \in Seq(Decisions) /\ Told(approvals') \in Seq(Decisions)
  <2>1. ASSUME NEW s \in Seq([by : Users, decision : Decisions])
        PROVE  Told(s) \in Seq(Decisions) /\ Len(Told(s)) = Len(s)
    <3>1. Len(s) \in Nat /\ DOMAIN s = 1..Len(s)
      OBVIOUS
    <3>2. ASSUME NEW k \in 1..Len(s) PROVE s[k].decision \in Decisions
      <4>1. s[k] \in [by : Users, decision : Decisions]
        BY ElementOfSeq
      <4> QED
        BY <4>1
    <3>3. Told(s) \in [1..Len(s) -> Decisions]
      BY <3>1, <3>2
    <3> QED
      BY <3>1, <3>3, SeqDef, LenProperties
  <2>2. approvals' \in Seq([by : Users, decision : Decisions])
    BY <1>1, <1>2, <1>3, AppendProperties
  <2> QED
    BY <1>1, <2>1, <2>2
<1>5. Told(approvals') = Append(Told(approvals), req[h].as)
  <2> DEFINE s == approvals  n == Len(s)
  <2>1. s \in Seq([by : Users, decision : Decisions]) /\ n \in Nat
    BY <1>1
  <2>2. /\ DOMAIN approvals' = 1..n+1
        /\ \A k \in 1..n : approvals'[k] = s[k]
        /\ approvals'[n + 1] = last
    BY <1>2, <1>3, <2>1, AppendProperties
  <2>3. Told(s) \in Seq(Decisions) /\ Len(Told(s)) = n
    BY <1>4, <2>1
  <2>4. /\ DOMAIN Append(Told(s), req[h].as) = 1..n+1
        /\ \A k \in 1..n : Append(Told(s), req[h].as)[k] = Told(s)[k]
        /\ Append(Told(s), req[h].as)[n + 1] = req[h].as
    BY <1>1, <2>3, AppendProperties
  <2>5. Append(Told(s), req[h].as) = [k \in 1..n+1 |-> Append(Told(s), req[h].as)[k]]
    BY <2>3, <2>4
  <2>6. ASSUME NEW k \in 1..n+1
        PROVE  Told(approvals')[k] = Append(Told(s), req[h].as)[k]
    <3>1. CASE k = n + 1
      BY <2>2, <2>4, <3>1
    <3>2. CASE k \in 1..n
      <4>1. Told(approvals')[k] = s[k].decision /\ Told(s)[k] = s[k].decision
        BY <2>1, <2>2, <3>2
      <4> QED
        BY <2>4, <3>2, <4>1
    <3> QED
      BY <2>1, <3>1, <3>2
  <2> QED
    BY <2>2, <2>5, <2>6
<1>6. /\ status = "APPROVAL_PENDING" /\ status' = req[h].as
      /\ finalResult' = IF req[h].as = "REJECTED" THEN "REJECTED" ELSE finalResult
      /\ approvedAt' = (approvedAt \/ req[h].as = "APPROVED")
  BY DEF Decide
<1>7. approvedAt \in BOOLEAN
  BY DEF TypeOK
<1> HIDE DEF Told
<1>8. \/ /\ status' = "APPROVED" /\ approvedAt' = TRUE
         /\ UNCHANGED finalResult
      \/ /\ status' = "REJECTED" /\ finalResult' = "REJECTED"
         /\ UNCHANGED approvedAt
  BY <1>1, <1>6, <1>7 DEF Decisions
<1>9. Told(approvals)' = Append(Told(approvals), status')
  BY <1>5, <1>6 DEF Told
<1> QED
  BY <1>6, <1>8, <1>9 DEF Promise!Decision, Told

\* A new review starts the lifecycle.
LEMMA StartRefined == Init => Promise!Start
<1> SUFFICES ASSUME Init PROVE Promise!Start
  OBVIOUS
<1> DEFINE told == [k \in DOMAIN approvals |-> approvals[k].decision]
<1>1. told = <<>>
  <2>1. approvals = <<>>
    BY DEF Init
  <2>2. DOMAIN approvals = 1..0
    BY <2>1
  <2>3. told \in [1..0 -> {}]
    BY <2>2
  <2>4. told \in Seq({}) /\ Len(told) = 0
    BY <2>3, SeqDef
  <2> QED
    BY <2>4, EmptySeq
<1> QED
  BY <1>1 DEF Init, Promise!Start

\* Each step that writes the row is one step of the lifecycle, or none.
LEMMA StepRefined ==
    ASSUME Inv, [Next]_vars
    PROVE  [Promise!Move]_Promise!lifecycle
<1> USE DEF Promise!Move
<1>1. TypeOK /\ RequestsPhrased /\ ConclusionTellsStatus
  BY DEF Inv, StatusTold
<1>2. ASSUME NEW h \in Handlers, Submit(h) PROVE Promise!HandIn
  BY <1>2 DEF Submit, OnDesk, NextSubmissionState, Promise!HandIn, Promise!Stand
<1>3. ASSUME NEW h \in Handlers, Cancel(h) PROVE Promise!CallOff
  <2>1. status \in Promise!Pending
    BY <1>1, <1>3 DEF Cancel, RequestsPhrased, Phrased, TypeOK, Statuses, Promise!Pending
  <2> QED
    BY <1>3, <2>1 DEF Cancel, Promise!CallOff, Promise!Stand
<1>4. ASSUME NEW h \in Handlers, Begin(h)
      PROVE  Promise!TakeUp \/ UNCHANGED Promise!lifecycle
  BY <1>4 DEF Begin, Promise!TakeUp, Promise!Stand, Promise!lifecycle
<1>5. ASSUME NEW h \in Handlers, CreateChange(h) \/ BulkChange(h)
      PROVE  Promise!SendBack
  BY <1>5 DEF CreateChange, BulkChange, Promise!SendBack, Promise!Stand
<1>6. ASSUME NEW h \in Handlers, Complete(h)
      PROVE  Promise!Conclude \/ Promise!AskApproval
  <2>1. ~approvedAt /\ approvedAt \in BOOLEAN
    BY <1>1, <1>6 DEF ConclusionTellsStatus, Complete, TypeOK
  <2>2. req[h].as \in Results
    BY <1>1, <1>6 DEF Complete, RequestsPhrased, Phrased
  <2>3. /\ status = "REVIEWING" /\ status' = Conclusion(h) /\ finalResult' = req[h].as
        /\ approvedAt' = (Conclusion(h) = "APPROVED") /\ UNCHANGED approvals
    BY <1>6 DEF Complete
  <2>4. CASE req[h].op = "requestApproval"
    <3>1. Conclusion(h) = "APPROVAL_PENDING" /\ approvedAt' = FALSE
      BY <2>3, <2>4 DEF Conclusion
    <3> QED
      BY <2>1, <2>2, <2>3, <3>1 DEF Promise!AskApproval, Promise!Conclusions, Results
  <2>5. CASE req[h].op # "requestApproval"
    <3>1. Conclusion(h) = IF req[h].as = "REJECTED" THEN "REJECTED" ELSE "APPROVED"
      BY <2>5 DEF Conclusion
    <3> QED
      BY <2>2, <2>3, <3>1 DEF Promise!Conclude, Promise!Conclusions, Results
  <2> QED
    BY <2>4, <2>5
<1>7. ASSUME NEW h \in Handlers, Withdraw(h) \/ Reopen(h)
      PROVE  Promise!TakeBack
  <2>1. approvedAt = FALSE \/ Reopen(h)
    BY <1>1, <1>7 DEF ConclusionTellsStatus, Withdraw, TypeOK
  <2> QED
    BY <1>7, <2>1 DEF Withdraw, Reopen, Promise!TakeBack
<1>8. ASSUME NEW h \in Handlers, Close(h) PROVE Promise!Archive
  BY <1>8 DEF Close, Promise!Archive, Promise!Stand
<1>9. ASSUME NEW h \in Handlers,
             AuthorStep(h) \/ ReviewerStep(h) \/ ApproverStep(h)
      PROVE  [Promise!Move]_Promise!lifecycle
  <2>1. CASE AuthorStep(h)
    BY <1>2, <1>3, <2>1, AuthorRow, KeptStutters
  <2>2. CASE ReviewerStep(h)
    BY <1>4, <1>5, <1>6, <1>7, <1>8, <2>2, ReviewerRow, KeptStutters
  <2>3. CASE ApproverStep(h)
    BY <1>1, <2>3, ApproverRow, DecisionRefined, KeptStutters
  <2> QED
    BY <1>9, <2>1, <2>2, <2>3
<1>10. CASE AdminStep \/ UNCHANGED vars \/ \E h \in Handlers : Abandon(h)
  BY <1>10, AdminRow, KeptStutters
<1> QED
  BY <1>9, <1>10 DEF Next

\* The review, with all its racing requests, implements ReviewLifecycle: each
\* step of a handler is one step of the lifecycle or leaves it alone.
THEOREM LifecycleKept == Spec => KeepsItsPromise
BY StartRefined, StepRefined, InvAlways, PTL
   DEF Spec, KeepsItsPromise, Promise!Lifecycle

-----------------------------------------------------------------------------
(* Handing over and correcting *)

\* Off the author's desk a reviewer is replaced only when the named one is gone.
THEOREM ReviewKept == Spec => NobodyLosesAReview
<1>1. ASSUME [Next]_vars, reviewer' # reviewer PROVE OnDesk \/ ReviewerGone
  <2>1. ASSUME NEW h \in Handlers, AuthorStep(h) PROVE OnDesk
    <3>1. CASE Update(h)
      BY <3>1 DEF Update
    <3>2. ASSUME ~Update(h), ~Submit(h), ~Cancel(h) PROVE UNCHANGED reviewer
      BY <2>1, <3>2 DEF AuthorStep, Accept, stored, row, UpdateCheck, SaveCheck, Save,
           AssignCheck, Assign, UploadCheck, UploadBegin, UploadCommit,
           DeleteEvidenceCheck, DeleteEvidence, InviteCheck, Invite, RemoveCheck,
           Remove, Release, SubmitCheck, CancelCheck, DoneCheck, Done, MoveChange
    <3> QED
      BY <1>1, <3>1, <3>2 DEF Submit, Cancel
  <2>2. ASSUME NEW h \in Handlers, ReviewerStep(h) PROVE ReviewerGone
    <3>1. CASE Begin(h)
      BY <1>1, <3>1 DEF Begin
    <3>2. ASSUME ~Begin(h) PROVE UNCHANGED reviewer
      BY <2>2, <3>2 DEF ReviewerStep, Accept, stored, row, BeginCheck, ResultCheck,
           SaveResult, BulkCheck, BulkRead, BulkSave, ChangeCheck, CreateChange,
           BulkChangeCheck, BulkChange, VerifyCheck, Verify, MoveChange,
           CompleteCheck, CompleteRead, Complete, WithdrawCheck, Withdraw,
           ReopenCheck, Reopen, CloseCheck, Close
    <3> QED
      BY <1>1, <3>1, <3>2
  <2>3. ASSUME NEW h \in Handlers, ApproverStep(h) \/ Abandon(h) PROVE UNCHANGED reviewer
    BY <2>3 DEF ApproverStep, DecideCheck, Accept, stored, row, Decide, Abandon
  <2>4. ASSUME AdminStep \/ UNCHANGED vars PROVE UNCHANGED reviewer
    BY <2>4 DEF AdminStep, vars, stored, row, ReassignApprover, IncludeItem, ExcludeItem,
         Deactivate, ReleaseOpen, Activate, SetRoles, SetApproval
  <2> QED
    BY <1>1, <2>1, <2>2, <2>3, <2>4 DEF Next
<1>2. [Next]_vars => [reviewer' # reviewer => OnDesk \/ ReviewerGone]_vars
  BY <1>1
<1> QED
  BY <1>2, PTL DEF Spec, NobodyLosesAReview

\* Only these steps write change_requests.
LEMMA ChangeSteps ==
    ASSUME [Next]_vars, changes' # changes
    PROVE  \E h \in Handlers : CreateChange(h) \/ BulkChange(h) \/ Done(h) \/ Verify(h)
<1>1. ASSUME NEW h \in Handlers, AuthorStep(h), ~Done(h) PROVE UNCHANGED changes
  BY <1>1 DEF AuthorStep, Accept, stored, UpdateCheck, Update, SaveCheck, Save,
       AssignCheck, Assign, UploadCheck, UploadBegin, UploadCommit,
       DeleteEvidenceCheck, DeleteEvidence, InviteCheck, Invite, RemoveCheck,
       Remove, Release, SubmitCheck, Submit, CancelCheck, Cancel, DoneCheck
<1>2. ASSUME NEW h \in Handlers, ReviewerStep(h),
             ~CreateChange(h), ~BulkChange(h), ~Verify(h)
      PROVE  UNCHANGED changes
  BY <1>2 DEF ReviewerStep, Accept, stored, BeginCheck, Begin, ResultCheck,
       SaveResult, BulkCheck, BulkRead, BulkSave, ChangeCheck, BulkChangeCheck,
       VerifyCheck, CompleteCheck, CompleteRead, Complete, WithdrawCheck, Withdraw,
       ReopenCheck, Reopen, CloseCheck, Close
<1>3. ASSUME NEW h \in Handlers, ApproverStep(h) \/ Abandon(h) PROVE UNCHANGED changes
  BY <1>3 DEF ApproverStep, DecideCheck, Accept, stored, Decide, Abandon
<1>4. ASSUME AdminStep \/ UNCHANGED vars PROVE UNCHANGED changes
  BY <1>4 DEF AdminStep, vars, stored, ReassignApprover, IncludeItem, ExcludeItem,
       Deactivate, ReleaseOpen, Activate, SetRoles, SetApproval
<1> QED
  BY <1>1, <1>2, <1>3, <1>4 DEF Next

\* Raising a change request rewrites no earlier one.
LEMMA RaiseKeeps ==
    ASSUME TypeOK, NEW S, NEW a \in Named, RaiseOn(S, a),
           NEW i \in Items, NEW n \in DOMAIN changes[i]
    PROVE  changes'[i][n] = changes[i][n]
<1>1. changes[i] \in Seq(Change)
  BY DEF TypeOK
<1>2. NewChange(a) \in Change
  BY DEF NewChange, Change, Named
<1>3. Append(changes[i], NewChange(a))[n] = changes[i][n]
  BY <1>1, <1>2, AppendProperties
<1> QED
  BY <1>3 DEF RaiseOn

\* Moving a change request on rewrites none in another status.
LEMMA MoveKeeps ==
    ASSUME TypeOK, NEW h \in Handlers, NEW from, NEW next, MoveChange(h, from, next),
           NEW i \in Items, NEW n \in DOMAIN changes[i], changes[i][n].status \notin from
    PROVE  changes'[i][n] = changes[i][n]
<1>1. PICK j \in Items :
        /\ changes[j][req[h].nth].status \in from
        /\ changes' = [changes EXCEPT ![j][req[h].nth].status = next]
  BY DEF MoveChange
<1>2. CASE i = j
  <2>1. n # req[h].nth
    BY <1>1, <1>2
  <2>2. changes'[i] = [changes[i] EXCEPT ![req[h].nth].status = next]
    BY <1>1, <1>2 DEF TypeOK
  <2> QED
    BY <2>1, <2>2
<1>3. CASE i # j
  BY <1>1, <1>3 DEF TypeOK
<1> QED
  BY <1>2, <1>3

\* A verified correction is never reopened or rewritten, by any request.
THEOREM VerifiedFinal == Spec => VerifiedIsFinal
<1>1. ASSUME TypeOK, [Next]_vars, NEW i \in Items, NEW n \in DOMAIN changes[i],
             changes[i][n].status = "VERIFIED"
      PROVE  changes'[i][n] = changes[i][n]
  <2>1. CASE changes' = changes
    BY <2>1
  <2>2. CASE changes' # changes
    <3>1. PICK h \in Handlers : CreateChange(h) \/ BulkChange(h) \/ Done(h) \/ Verify(h)
      BY <1>1, <2>2, ChangeSteps
    <3>2. req[h].to \in Named
      BY <1>1 DEF TypeOK, Request, Named
    <3>3. CASE CreateChange(h) \/ BulkChange(h)
      <4>1. \E S : RaiseOn(S, req[h].to)
        BY <3>3 DEF CreateChange, BulkChange
      <4> QED
        BY <1>1, <3>2, <4>1, RaiseKeeps
    <3>4. CASE Done(h) \/ Verify(h)
      <4>1. "VERIFIED" \notin {"OPEN"} /\ "VERIFIED" \notin {"OPEN", "DONE"}
        OBVIOUS
      <4> QED
        BY <1>1, <3>4, <4>1, MoveKeeps DEF Done, Verify
    <3> QED
      BY <3>1, <3>3, <3>4
  <2> QED
    BY <2>1, <2>2
<1>2. ASSUME TypeOK, [Next]_vars
      PROVE  [\A i \in Items : \A n \in DOMAIN changes[i] :
                changes[i][n].status = "VERIFIED" => changes'[i][n] = changes[i][n]]_vars
  BY <1>1, <1>2
<1> QED
  BY <1>2, TypeCorrect, PTL DEF Spec, VerifiedIsFinal

-----------------------------------------------------------------------------
(* Judged before concluded.  A completion may be in flight while the blockers *)
(* it counted change; what cannot change is that every item had a verdict,   *)
(* as long as the checklist cannot be emptied: an empty one counts no        *)
(* blocker, and a template administrator may fill it until it is submitted.  *)

Completing == {"complete", "conclude", "requestApproval"}

\* What the statements that touch neither verdicts nor the checklist leave.
JudgingKept == UNCHANGED <<items, verdict>>

\* A request in goroutine h gives way to another; the others may have missed
\* something, and do what they were about to do.
Replaced(h, r) ==
    \/ req' = [req EXCEPT ![h] = r]
    \/ \E S \in SUBSET Items :
          req' = [g \in Handlers |-> IF g = h THEN r ELSE Missed(req[g], S)]

\* What a request missed leaves all the rest of it.
LEMMA MissedSame ==
    ASSUME NEW r \in Request, NEW S
    PROVE  /\ Missed(r, S).op = r.op /\ Missed(r, S).by = r.by
           /\ Missed(r, S).items = r.items /\ Missed(r, S).as = r.as
           /\ Missed(r, S).since = IF r.op \in Trusting THEN r.since \cup S ELSE r.since
BY DEF Missed, Request

\* A request may be replaced by one that knows what its op promises.
LEMMA ReplacedInOrder ==
    ASSUME Inv, JudgedInOrder, JudgingKept, NEW h \in Handlers, NEW r, Replaced(h, r),
           r.op \in Completing => AllJudged,
           r.op = "judging" => submission # "DRAFT",
           submission' = "DRAFT" => submission = "DRAFT",
           status' \in Concluded => AllJudged
    PROVE  JudgedInOrder'
<1>1. ASSUME NEW g \in Handlers
      PROVE  /\ req'[g].op \in Completing => AllJudged
             /\ req'[g].op = "judging" => submission # "DRAFT"
  <2>1. req[g] \in Request
    BY DEF Inv, TypeOK
  <2>2. req'[g] = r \/ req'[g].op = req[g].op
    <3>1. CASE req' = [req EXCEPT ![h] = r]
      BY <3>1 DEF Inv, TypeOK
    <3>2. CASE ~(req' = [req EXCEPT ![h] = r])
      <4>1. PICK S \in SUBSET Items :
              req' = [k \in Handlers |-> IF k = h THEN r ELSE Missed(req[k], S)]
        BY <3>2 DEF Replaced
      <4>2. Missed(req[g], S).op = req[g].op
        BY <2>1, MissedSame
      <4> QED
        BY <4>1, <4>2
    <3> QED
      BY <3>1, <3>2
  <2> QED
    BY <2>2 DEF JudgedInOrder, Completing
<1>2. AllJudged <=> AllJudged'
  BY DEF AllJudged, JudgingKept, Judged
<1>3. Pinned \subseteq items' /\ (submission' = "DRAFT" => \A i \in Items : verdict'[i] = None)
  BY DEF JudgedInOrder, JudgingKept
<1> QED
  BY <1>1, <1>2, <1>3 DEF JudgedInOrder, Completing

\* The author's handlers keep verdicts ahead of a completion.
LEMMA AuthorInOrder ==
    ASSUME Inv, JudgedInOrder, NEW h \in Handlers, AuthorStep(h)
    PROVE  JudgedInOrder'
<1> USE DEF JudgingKept, Completing, row, checklist, judgement, stored
<1>1. JudgingKept
  BY DEF AuthorStep, Accept, UpdateCheck, Update, SaveCheck, Save, AssignCheck, Assign,
         UploadCheck, UploadBegin, UploadCommit, DeleteEvidenceCheck, DeleteEvidence,
         InviteCheck, Invite, RemoveCheck, Remove, Release, SubmitCheck, Submit,
         CancelCheck, Cancel, DoneCheck, Done, MoveChange
<1>2. CASE Submit(h)
  <2>1. submission' # "DRAFT" /\ status' \notin Concluded
    BY <1>2 DEF Submit, NextSubmissionState, Concluded
  <2>2. Replaced(h, Idle) /\ Idle.op = "idle"
    BY <1>2 DEF Submit, Finish, Replaced, Idle
  <2> QED
    BY <1>1, <2>1, <2>2, ReplacedInOrder
<1>3. CASE Cancel(h)
  <2>1. submission' = submission /\ status' \notin Concluded
    BY <1>3 DEF Cancel, Concluded
  <2>2. Replaced(h, Idle) /\ Idle.op = "idle"
    BY <1>3 DEF Cancel, Finish, Replaced, Idle
  <2> QED
    BY <1>1, <2>1, <2>2, ReplacedInOrder
<1>4. ASSUME ~Submit(h), ~Cancel(h) PROVE JudgedInOrder'
  <2>1. UNCHANGED <<status, submission>>
    BY <1>4, AuthorRow DEF RowKept
  <2>2. PICK r : Replaced(h, r) /\ r.op \notin Completing \cup {"judging"}
    <3> DEFINE Harmless(r) == r.op \notin Completing \cup {"judging"}
    <3>1. /\ Finish(h) => Replaced(h, Idle) /\ Harmless(Idle)
          /\ (\E S \in SUBSET Items : Wrote(h, S)) => Replaced(h, Idle) /\ Harmless(Idle)
      BY DEF Finish, Wrote, Replaced, Idle
    <3> DEFINE touched(how) == {i \in req[h].items \cap items :
                                  how = "overwrite" \/ response[i] = "none"}
    <3>a. touched(req[h].as) \in SUBSET Items /\ req[h].items \cap items \in SUBSET Items
      BY DEF Inv, TypeOK
    <3>2. ASSUME NEW op \in {"uploading", "release"}, Phase(h, op)
          PROVE  Replaced(h, [req[h] EXCEPT !.op = op])
                 /\ Harmless([req[h] EXCEPT !.op = op])
      BY <3>2 DEF Phase, Replaced, Inv, TypeOK, Request
    <3>3. CASE UploadBegin(h) \/ Remove(h)
      BY <3>2, <3>3 DEF UploadBegin, Remove
    <3>4. CASE \/ Update(h) \/ Save(h) \/ Assign(h) \/ UploadCommit(h)
               \/ DeleteEvidence(h) \/ Invite(h) \/ Release(h) \/ Done(h)
      <4>1. CASE Update(h) \/ Invite(h) \/ Release(h) \/ Done(h)
        BY <3>1, <4>1 DEF Update, Invite, Release, Done, MoveChange
      <4>2. CASE Save(h)
        BY <3>1, <3>a, <4>2 DEF Save
      <4>3. CASE Assign(h)
        BY <3>1, <3>a, <4>3 DEF Assign
      <4>4. CASE UploadCommit(h) \/ DeleteEvidence(h)
        <5>1. PICK i \in Items : Wrote(h, {i})
          BY <4>4 DEF UploadCommit, DeleteEvidence, Inv, TypeOK
        <5> QED
          BY <3>1, <5>1
      <4> QED
        BY <3>4, <4>1, <4>2, <4>3, <4>4
    <3>5. ASSUME NEW call, Accept(h, call), Harmless(call)
          PROVE  \E r : Replaced(h, r) /\ Harmless(r)
      BY <3>5 DEF Accept, Replaced
    <3>6. ASSUME NEW u \in Users, NEW rv \in Named, NEW ap \in Named,
                UpdateCheck(h, u, rv, ap)
          PROVE  \E r : Replaced(h, r) /\ Harmless(r)
      BY <3>5, <3>6 DEF UpdateCheck, Call, Idle
    <3>7. ASSUME NEW u \in Users, NEW S \in SUBSET Items, NEW a \in Named, NEW m \in Modes,
                SaveCheck(h, u, S, a, m)
          PROVE  \E r : Replaced(h, r) /\ Harmless(r)
      BY <3>5, <3>7 DEF SaveCheck, Call, Idle
    <3>8. ASSUME NEW u \in Users, NEW S \in SUBSET Items, NEW a \in Named,
                AssignCheck(h, u, S, a)
          PROVE  \E r : Replaced(h, r) /\ Harmless(r)
      BY <3>5, <3>8 DEF AssignCheck, Call, Idle
    <3>9. ASSUME NEW u \in Users, NEW i \in Items, NEW n \in 0..MaxFiles,
                UploadCheck(h, u, i, n)
          PROVE  \E r : Replaced(h, r) /\ Harmless(r)
      BY <3>5, <3>9 DEF UploadCheck, Call, Idle
    <3>10. ASSUME NEW u \in Users, NEW i \in Items, NEW n \in 1..MaxFiles,
                DeleteEvidenceCheck(h, u, i, n)
          PROVE  \E r : Replaced(h, r) /\ Harmless(r)
      BY <3>5, <3>10 DEF DeleteEvidenceCheck, Call, Idle
    <3>11. ASSUME NEW u \in Users, NEW i \in Items, NEW n \in 1..MaxChanges,
                DoneCheck(h, u, i, n)
          PROVE  \E r : Replaced(h, r) /\ Harmless(r)
      BY <3>5, <3>11 DEF DoneCheck, Call, Idle
    <3>12. ASSUME NEW u \in Users, NEW p \in Users,
                InviteCheck(h, u, p)
          PROVE  \E r : Replaced(h, r) /\ Harmless(r)
      BY <3>5, <3>12 DEF InviteCheck, Call, Idle
    <3>13. ASSUME NEW u \in Users, NEW p \in Users,
                RemoveCheck(h, u, p)
          PROVE  \E r : Replaced(h, r) /\ Harmless(r)
      BY <3>5, <3>13 DEF RemoveCheck, Call, Idle
    <3>14. ASSUME NEW u \in Users, NEW failed, SubmitCheck(h, u, failed)
          PROVE  \E r : Replaced(h, r) /\ Harmless(r)
      BY <3>5, <3>14 DEF SubmitCheck, Call, Idle
    <3>15. CASE CancelCheck(h)
      BY <3>5, <3>15 DEF CancelCheck, Call, Idle
    <3> QED
      BY <1>4, <3>3, <3>4, <3>6, <3>7, <3>8, <3>9, <3>10,
         <3>11, <3>12, <3>13, <3>14, <3>15 DEF AuthorStep
  <2>3. status' \in Concluded => AllJudged
    BY <2>1 DEF JudgedInOrder
  <2> QED
    BY <1>1, <2>1, <2>2, <2>3, ReplacedInOrder
<1> QED
  BY <1>2, <1>3, <1>4

\* A verdict is only ever given by a person, and never while the submission row
\* is a draft.
LEMMA JudgeInOrder ==
    ASSUME Inv, JudgedInOrder, NEW h \in Handlers, NEW S, Judge(h, S),
           req[h].op \in {"result", "judging"}, submission # "DRAFT",
           UNCHANGED <<items, status, submission>>
    PROVE  JudgedInOrder'
<1>1. \A i \in Items : verdict[i] # None => verdict'[i] # None
  <2>1. req[h].by \in Users /\ None \notin Users
    BY ConstantsAssumption DEF Inv, RequestsPhrased, Phrased
  <2> QED
    BY <2>1 DEF Judge
<1>2. AllJudged => AllJudged'
  BY <1>1 DEF AllJudged, Judged, Inv, TypeOK
<1>3. ASSUME NEW g \in Handlers
      PROVE  /\ req'[g].op \in Completing => req[g].op \in Completing
             /\ req'[g].op = "judging" => req[g].op = "judging"
  <2>1. req[g] \in Request
    BY DEF Inv, TypeOK
  <2>2. [req[g] EXCEPT !.op = "overtaken"].op = "overtaken"
    BY <2>1 DEF Request
  <2>3. Missed(req[g], S).op = req[g].op
    BY <2>1, MissedSame
  <2> QED
    BY <2>2, <2>3 DEF Judge, Completing, Idle
<1> QED
  BY <1>2, <1>3 DEF JudgedInOrder, Completing

\* The reviewer's handlers keep verdicts ahead of a completion.
LEMMA ReviewerInOrder ==
    ASSUME Inv, JudgedInOrder, NEW h \in Handlers, ReviewerStep(h)
    PROVE  JudgedInOrder'
<1> USE DEF JudgingKept, Completing, row, checklist, judgement, stored
<1>1. CASE SaveResult(h)
  <2>1. submission # "DRAFT"
    BY <1>1 DEF SaveResult, Inv, StatusTold, SubmissionTellsStatus
  <2>2. req[h].op = "result" /\ UNCHANGED <<items, status, submission>>
    BY <1>1 DEF SaveResult
  <2> QED
    BY <1>1, <2>1, <2>2, JudgeInOrder DEF SaveResult
<1>2. CASE BulkSave(h)
  <2>1. submission # "DRAFT"
    BY <1>2 DEF BulkSave, JudgedInOrder
  <2>2. req[h].op = "judging" /\ UNCHANGED <<items, status, submission>>
    BY <1>2 DEF BulkSave
  <2> QED
    BY <1>2, <2>1, <2>2, JudgeInOrder DEF BulkSave
<1>3. CASE BulkRead(h)
  <2> DEFINE r == [req[h] EXCEPT !.op = "judging"]
  <2>1. submission # "DRAFT"
    BY <1>3 DEF BulkRead, Inv, StatusTold, SubmissionTellsStatus
  <2>2. Replaced(h, r) /\ r.op = "judging"
    BY <1>3 DEF BulkRead, Phase, Replaced, Inv, TypeOK, Request
  <2>3. JudgingKept /\ UNCHANGED <<status, submission>>
    BY <1>3 DEF BulkRead
  <2>4. status' \in Concluded => AllJudged
    BY <2>3 DEF JudgedInOrder
  <2> HIDE DEF r
  <2> QED
    BY <2>1, <2>2, <2>3, <2>4, ReplacedInOrder
<1>4. ASSUME NEW u \in Users, CompleteCheck(h, u) PROVE JudgedInOrder'
  <2>1. JudgingKept /\ UNCHANGED <<status, submission>> /\ Replaced(h, Call("complete", u))
    BY <1>4 DEF CompleteCheck, Accept, Replaced
  <2>2. AllJudged
    BY <1>4 DEF CompleteCheck, GuardReady, AllJudged
  <2>3. Call("complete", u).op = "complete"
    BY DEF Call, Idle
  <2> QED
    BY <2>1, <2>2, <2>3, ReplacedInOrder
<1>5. ASSUME NEW res \in Results, NEW op \in {"requestApproval", "conclude"},
             CompleteRead(h, res, op)
      PROVE  JudgedInOrder'
  <2> DEFINE r == [req[h] EXCEPT !.as = res, !.op = op]
  <2>1. JudgingKept /\ UNCHANGED <<status, submission>>
    BY <1>5 DEF CompleteRead
  <2>2. AllJudged
    BY <1>5 DEF CompleteRead, JudgedInOrder
  <2>3. Replaced(h, r)
    BY <1>5 DEF CompleteRead, Replaced, Inv, TypeOK
  <2>4. r.op = op
    BY DEF Inv, TypeOK, Request
  <2>5. r.op # "judging"
    BY <2>4
  <2> HIDE DEF r
  <2> QED
    BY <2>1, <2>2, <2>3, <2>5, ReplacedInOrder
<1>6. CASE Complete(h)
  <2>1. JudgingKept /\ UNCHANGED submission /\ Replaced(h, Idle) /\ Idle.op = "idle"
    BY <1>6 DEF Complete, Finish, Replaced, Idle
  <2>2. AllJudged
    BY <1>6 DEF Complete, JudgedInOrder
  <2> QED
    BY <2>1, <2>2, ReplacedInOrder
<1>7. CASE \/ Begin(h) \/ CreateChange(h) \/ BulkChange(h) \/ Verify(h)
           \/ Withdraw(h) \/ Reopen(h) \/ Close(h)
  <2>1. JudgingKept /\ UNCHANGED submission /\ Replaced(h, Idle) /\ Idle.op = "idle"
    <3>1. CASE CreateChange(h)
      <4>1. req[h].items \in SUBSET Items
        BY DEF Inv, TypeOK, Request
      <4> QED
        BY <3>1, <4>1 DEF CreateChange, Wrote, Replaced, Idle
    <3>2. CASE BulkChange(h)
      <4> DEFINE S == {i \in req[h].items \cap items : ~Unverified(i)}
      <4>1. S \in SUBSET Items
        BY DEF Inv, TypeOK
      <4>2. Wrote(h, S)
        BY <3>2 DEF BulkChange
      <4> HIDE DEF S
      <4>3. Replaced(h, Idle)
        BY <4>1, <4>2 DEF Wrote, Replaced
      <4> QED
        BY <3>2, <4>3 DEF BulkChange, Idle
    <3> QED
      BY <1>7, <3>1, <3>2 DEF Begin, Verify, MoveChange, Withdraw, Reopen, Close,
                              Finish, Replaced, Idle
  <2>2. status' \in Concluded => status \in Concluded
    BY <1>7 DEF Begin, CreateChange, BulkChange, Verify, MoveChange, Withdraw, Reopen,
                Close, Concluded
  <2>3. status' \in Concluded => AllJudged
    BY <2>2 DEF JudgedInOrder
  <2> QED
    BY <2>1, <2>3, ReplacedInOrder
<1>8. ASSUME NEW call, Accept(h, call), call.op \notin Completing \cup {"judging"}
      PROVE  JudgedInOrder'
  <2>1. JudgingKept /\ UNCHANGED <<status, submission>> /\ Replaced(h, call)
    BY <1>8 DEF Accept, Replaced
  <2>2. status' \in Concluded => AllJudged
    BY <2>1 DEF JudgedInOrder
  <2> QED
    BY <1>8, <2>1, <2>2, ReplacedInOrder
<1>9. ASSUME NEW u \in Users, BeginCheck(h, u) PROVE JudgedInOrder'
  BY <1>8, <1>9 DEF BeginCheck, Call, Idle
<1>10. ASSUME NEW u \in Users, NEW i \in Items,
             ResultCheck(h, u, i)
       PROVE  JudgedInOrder'
  BY <1>8, <1>10 DEF ResultCheck, Call, Idle
<1>11. ASSUME NEW u \in Users, NEW S \in SUBSET Items, NEW m \in Modes,
             BulkCheck(h, u, S, m)
       PROVE  JudgedInOrder'
  BY <1>8, <1>11 DEF BulkCheck, Call, Idle
<1>12. ASSUME NEW u \in Users, NEW i \in Items, NEW a \in Named,
             ChangeCheck(h, u, i, a)
       PROVE  JudgedInOrder'
  BY <1>8, <1>12 DEF ChangeCheck, Call, Idle
<1>13. ASSUME NEW u \in Users, NEW S \in SUBSET Items, NEW a \in Named,
             BulkChangeCheck(h, u, S, a)
       PROVE  JudgedInOrder'
  BY <1>8, <1>13 DEF BulkChangeCheck, Call, Idle
<1>14. ASSUME NEW u \in Users, NEW i \in Items, NEW n \in 1..MaxChanges,
             VerifyCheck(h, u, i, n)
       PROVE  JudgedInOrder'
  BY <1>8, <1>14 DEF VerifyCheck, Call, Idle
<1>15. ASSUME NEW u \in Users, WithdrawCheck(h, u) PROVE JudgedInOrder'
  BY <1>8, <1>15 DEF WithdrawCheck, Call, Idle
<1>16. ASSUME NEW u \in Users, ReopenCheck(h, u) PROVE JudgedInOrder'
  BY <1>8, <1>16 DEF ReopenCheck, Call, Idle
<1>17. ASSUME NEW u \in Users, CloseCheck(h, u) PROVE JudgedInOrder'
  BY <1>8, <1>17 DEF CloseCheck, Call, Idle
<1> QED
  BY <1>1, <1>2, <1>3, <1>4, <1>5, <1>6, <1>7, <1>8, <1>9,
     <1>10, <1>11, <1>12, <1>13, <1>14, <1>15, <1>16, <1>17
     DEF ReviewerStep

\* The approver's handler keeps verdicts ahead of a completion.
LEMMA ApproverInOrder ==
    ASSUME Inv, JudgedInOrder, NEW h \in Handlers, ApproverStep(h)
    PROVE  JudgedInOrder'
<1> USE DEF JudgingKept, Completing, row, checklist, judgement, stored
<1>1. ASSUME NEW u \in Users, NEW d \in Decisions, DecideCheck(h, u, d)
      PROVE  JudgedInOrder'
  <2> DEFINE call == [Call("decide", u) EXCEPT !.as = d]
  <2>1. JudgingKept /\ UNCHANGED <<status, submission>> /\ Replaced(h, call)
    BY <1>1 DEF DecideCheck, Accept, Replaced
  <2>2. status' \in Concluded => AllJudged
    BY <2>1 DEF JudgedInOrder
  <2>3. call.op = "decide"
    BY DEF Call, Idle
  <2> HIDE DEF call
  <2> QED
    BY <2>1, <2>2, <2>3, ReplacedInOrder
<1>2. CASE Decide(h)
  <2>1. JudgingKept /\ UNCHANGED submission /\ Replaced(h, Idle) /\ Idle.op = "idle"
    BY <1>2 DEF Decide, Finish, Replaced, Idle
  <2>2. AllJudged
    BY <1>2 DEF Decide, JudgedInOrder, Concluded
  <2> QED
    BY <2>1, <2>2, ReplacedInOrder
<1> QED
  BY <1>1, <1>2 DEF ApproverStep

\* While the checklist is being adjusted nothing is judged and, since some item
\* is never excluded, nothing is about to be concluded.
LEMMA AdminInOrder ==
    ASSUME Pinned # {}, Inv, JudgedInOrder, AdminStep
    PROVE  JudgedInOrder'
<1> USE DEF JudgingKept, Completing, row, checklist, judgement, stored
<1>1. ASSUME NEW i \in Items, IncludeItem(i) \/ ExcludeItem(i) PROVE JudgedInOrder'
  <2>1. submission = "DRAFT" /\ status = "DRAFT"
    BY <1>1 DEF IncludeItem, ExcludeItem, Inv, StatusTold, SubmissionTellsStatus
  <2>2. ~AllJudged
    <3>1. PICK j \in Pinned : TRUE
      OBVIOUS
    <3>2. j \in items /\ j \in Items
      BY <3>1, ConstantsAssumption DEF JudgedInOrder
    <3>3. verdict[j] = None
      BY <2>1, <3>2 DEF JudgedInOrder
    <3> QED
      BY <3>2, <3>3 DEF AllJudged, Judged
  <2>3. Pinned \subseteq items'
    BY <1>1 DEF IncludeItem, ExcludeItem, JudgedInOrder
  <2>4. /\ UNCHANGED <<status, submission, verdict>>
        /\ \A h \in Handlers : req'[h].op = req[h].op
    <3>1. ASSUME NEW h \in Handlers PROVE Missed(req[h], {i}).op = req[h].op
      BY MissedSame DEF Inv, TypeOK
    <3> QED
      BY <1>1, <3>1 DEF IncludeItem, ExcludeItem
  <2>5. status \notin Concluded
    BY <2>1 DEF Concluded
  <2> QED
    BY <2>1, <2>2, <2>3, <2>4, <2>5 DEF JudgedInOrder
<1>2. CASE \/ \E ap \in Users : ReassignApprover(ap)
           \/ \E u \in Mutable : Activate(u)
           \/ \E u \in Mutable, rs \in RoleChoices : SetRoles(u, rs)
           \/ \E on \in ApprovalModes : SetApproval(on)
  <2>1. UNCHANGED <<status, submission, items, verdict, req>>
    BY <1>2 DEF ReassignApprover, Activate, SetRoles, SetApproval
  <2> QED
    BY <2>1 DEF JudgedInOrder, AllJudged, Judged
<1>3. ASSUME NEW h \in Handlers, ReleaseOpen(h) PROVE JudgedInOrder'
  <2>1. /\ JudgingKept /\ UNCHANGED <<status, submission>>
        /\ Replaced(h, Idle) /\ Idle.op = "idle"
    BY <1>3 DEF ReleaseOpen, Finish, Replaced, Idle
  <2>2. status' \in Concluded => AllJudged
    BY <2>1 DEF JudgedInOrder
  <2> QED
    BY <2>1, <2>2, ReplacedInOrder
<1>4. ASSUME NEW h \in Handlers, NEW u \in Mutable, Deactivate(h, u)
      PROVE  JudgedInOrder'
  <2> DEFINE r == [Idle EXCEPT !.op = "releaseOpen", !.to = u]
  <2>1. JudgingKept /\ UNCHANGED <<status, submission>> /\ Replaced(h, r)
    BY <1>4 DEF Deactivate, Replaced
  <2>2. status' \in Concluded => AllJudged
    BY <2>1 DEF JudgedInOrder
  <2>3. r.op = "releaseOpen"
    BY DEF Idle
  <2> HIDE DEF r
  <2> QED
    BY <2>1, <2>2, <2>3, ReplacedInOrder
<1> QED
  BY <1>1, <1>2, <1>3, <1>4 DEF AdminStep

\* Verdicts stay ahead of every completion.
LEMMA JudgedAlways ==
    ASSUME Pinned # {}
    PROVE  Spec => []JudgedInOrder
<1>1. ASSUME Init PROVE JudgedInOrder
  <2>1. Pinned \subseteq items /\ \A i \in Items : verdict[i] = None
    BY <1>1 DEF Init
  <2>2. \A h \in Handlers : req[h].op = "idle"
    BY <1>1 DEF Init, Idle
  <2>3. status \notin Concluded
    BY <1>1 DEF Init, Concluded
  <2> QED
    BY <2>1, <2>2, <2>3 DEF JudgedInOrder
<1>2. ASSUME Inv, JudgedInOrder, [Next]_vars PROVE JudgedInOrder'
  <2>1. ASSUME NEW h \in Handlers, Abandon(h) PROVE JudgedInOrder'
    <3>1. /\ JudgingKept /\ UNCHANGED <<status, submission>>
          /\ Replaced(h, Idle) /\ Idle.op = "idle"
      BY <2>1 DEF Abandon, Finish, Replaced, Idle, JudgingKept, stored, row, checklist,
                  judgement
    <3>2. status' \in Concluded => AllJudged
      BY <1>2, <3>1 DEF JudgedInOrder
    <3> QED
      BY <1>2, <3>1, <3>2, ReplacedInOrder DEF Completing
  <2>2. CASE UNCHANGED vars
    BY <1>2, <2>2 DEF vars, stored, row, checklist, judgement, JudgedInOrder, AllJudged,
                      Judged
  <2> QED
    BY <1>2, <2>1, <2>2, AuthorInOrder, ReviewerInOrder, ApproverInOrder, AdminInOrder
       DEF Next
<1> QED
  BY <1>1, <1>2, InvAlways, PTL DEF Spec

\* No review is concluded while an item of its checklist has no verdict,
\* however completions, corrections and withdrawals overlap, provided some
\* item of the checklist is one that is never excluded.
THEOREM Judgement ==
    ASSUME Pinned # {}
    PROVE  Spec => []JudgedBeforeConcluded
<1>1. JudgedInOrder => JudgedBeforeConcluded
  BY DEF JudgedInOrder, JudgedBeforeConcluded, AllJudged
<1> QED
  BY <1>1, JudgedAlways, PTL

-----------------------------------------------------------------------------
(* What overlapping requests could spoil.  A handler that checked something  *)
(* writes later, and others write in between.  A request in flight carries,  *)
(* as history, the items written since its check: of every other item it     *)
(* still knows what it checked.                                              *)

\* What the properties read is left alone, but for stamps set on the rows.
Kept ==
    /\ UNCHANGED <<status, submission, reviewer, approver, approvals, items, response,
                   evidence, unseen, verdict, moved, changes>>
    /\ \A i \in Items : newer[i] => newer'[i]

\* Releasing rows only stamps them.
LEMMA ReleaseStamps ==
    ASSUME NEW u, ReleaseRowsOf(u)
    PROVE  \A i \in Items : newer[i] => newer'[i]
BY DEF ReleaseRowsOf, Touch

\* The author's writes that matter.
LEMMA AuthorWrites ==
    ASSUME NEW h \in Handlers, AuthorStep(h)
    PROVE  \/ Update(h) \/ Save(h) \/ Assign(h) \/ UploadCommit(h) \/ DeleteEvidence(h)
           \/ Submit(h) \/ Cancel(h) \/ Done(h)
           \/ Kept
<1> USE DEF Kept, row, checklist, judgement, stored
<1>1. ASSUME NEW call, Accept(h, call) PROVE Kept
  BY <1>1 DEF Accept
<1>2. CASE \/ \E u \in Users, rv, ap \in Named : UpdateCheck(h, u, rv, ap)
           \/ \E u \in Users, S \in SUBSET Items \ {{}}, a \in Named, m \in Modes :
                 SaveCheck(h, u, S, a, m)
           \/ \E u \in Users, S \in SUBSET Items \ {{}}, a \in Named :
                 AssignCheck(h, u, S, a)
  BY <1>1, <1>2 DEF UpdateCheck, SaveCheck, AssignCheck
<1>3. CASE \/ \E u \in Users, i \in Items, n \in 0..MaxFiles : UploadCheck(h, u, i, n)
           \/ \E u \in Users, i \in Items, n \in 1..MaxFiles :
                 DeleteEvidenceCheck(h, u, i, n)
           \/ \E u \in Users, i \in Items, n \in 1..MaxChanges : DoneCheck(h, u, i, n)
  BY <1>1, <1>3 DEF UploadCheck, DeleteEvidenceCheck, DoneCheck
<1>4. CASE \/ \E u, p \in Users : InviteCheck(h, u, p)
           \/ \E u, p \in Users : RemoveCheck(h, u, p)
           \/ \E u \in Users, failed \in SUBSET (Failing \ {"requester"}) :
                 SubmitCheck(h, u, failed)
           \/ CancelCheck(h)
  BY <1>1, <1>4 DEF InviteCheck, RemoveCheck, SubmitCheck, CancelCheck
<1>5. CASE UploadBegin(h) \/ Invite(h) \/ Remove(h)
  BY <1>5 DEF UploadBegin, Invite, Remove
<1>6. CASE Release(h)
  BY <1>6, ReleaseStamps DEF Release
<1> QED
  BY <1>2, <1>3, <1>4, <1>5, <1>6 DEF AuthorStep

\* The reviewer's writes that matter.
LEMMA ReviewerWrites ==
    ASSUME NEW h \in Handlers, ReviewerStep(h)
    PROVE  \/ Begin(h) \/ SaveResult(h) \/ BulkSave(h) \/ CreateChange(h) \/ BulkChange(h)
           \/ Verify(h) \/ Complete(h) \/ Withdraw(h) \/ Reopen(h) \/ Close(h)
           \/ Kept
<1> USE DEF Kept, row, checklist, judgement, stored
<1>1. ASSUME NEW call, Accept(h, call) PROVE Kept
  BY <1>1 DEF Accept
<1>2. CASE \/ \E u \in Users : BeginCheck(h, u)
           \/ \E u \in Users, i \in Items : ResultCheck(h, u, i)
           \/ \E u \in Users, S \in SUBSET Items \ {{}}, m \in Modes :
                 BulkCheck(h, u, S, m)
  BY <1>1, <1>2 DEF BeginCheck, ResultCheck, BulkCheck
<1>3. CASE \/ \E u \in Users, i \in Items, a \in Named : ChangeCheck(h, u, i, a)
           \/ \E u \in Users, S \in SUBSET Items \ {{}}, a \in Named :
                 BulkChangeCheck(h, u, S, a)
           \/ \E u \in Users, i \in Items, n \in 1..MaxChanges : VerifyCheck(h, u, i, n)
  BY <1>1, <1>3 DEF ChangeCheck, BulkChangeCheck, VerifyCheck
<1>4. CASE \/ \E u \in Users : CompleteCheck(h, u)
           \/ \E u \in Users : WithdrawCheck(h, u)
           \/ \E u \in Users : ReopenCheck(h, u)
           \/ \E u \in Users : CloseCheck(h, u)
  BY <1>1, <1>4 DEF CompleteCheck, WithdrawCheck, ReopenCheck, CloseCheck
<1>5. CASE \/ BulkRead(h)
           \/ \E res \in Results, phase \in {"requestApproval", "conclude"} :
                 CompleteRead(h, res, phase)
  BY <1>5 DEF BulkRead, CompleteRead
<1> QED
  BY <1>2, <1>3, <1>4, <1>5 DEF ReviewerStep

\* Of the administrators' writes only the approver's seat and the snapshot matter.
LEMMA AdminWrites ==
    ASSUME AdminStep \/ UNCHANGED vars \/ \E h \in Handlers : Abandon(h)
    PROVE  \/ Kept
           \/ \E ap \in Users : ReassignApprover(ap)
           \/ \E i \in Items : IncludeItem(i) \/ ExcludeItem(i)
<1> USE DEF Kept, row, checklist, judgement, stored
<1>1. CASE UNCHANGED vars \/ \E h \in Handlers : Abandon(h)
  BY <1>1 DEF vars, Abandon
<1>2. ASSUME NEW h \in Handlers, ReleaseOpen(h) PROVE Kept
  BY <1>2, ReleaseStamps DEF ReleaseOpen
<1>3. CASE \/ \E h \in Handlers, u \in Mutable : Deactivate(h, u)
           \/ \E u \in Mutable : Activate(u)
           \/ \E u \in Mutable, rs \in RoleChoices : SetRoles(u, rs)
           \/ \E on \in ApprovalModes : SetApproval(on)
  BY <1>3 DEF Deactivate, Activate, SetRoles, SetApproval
<1> QED
  BY <1>1, <1>2, <1>3 DEF AdminStep

\* Every step is one of the writes that matter, or leaves alone what matters.
Written(h) ==
    \/ Update(h) \/ Save(h) \/ Assign(h) \/ UploadCommit(h) \/ DeleteEvidence(h)
    \/ Submit(h) \/ Cancel(h) \/ Done(h)
    \/ Begin(h) \/ SaveResult(h) \/ BulkSave(h) \/ CreateChange(h) \/ BulkChange(h)
    \/ Verify(h) \/ Complete(h) \/ Withdraw(h) \/ Reopen(h) \/ Close(h)
    \/ Decide(h)

LEMMA Writes ==
    ASSUME [Next]_vars
    PROVE  \/ Kept
           \/ \E h \in Handlers : Written(h)
           \/ \E ap \in Users : ReassignApprover(ap)
           \/ \E i \in Items : IncludeItem(i) \/ ExcludeItem(i)
<1>1. ASSUME NEW h \in Handlers, ApproverStep(h) PROVE Decide(h) \/ Kept
  BY <1>1 DEF ApproverStep, DecideCheck, Accept, Kept, stored, row, checklist, judgement
<1> QED
  BY <1>1, AuthorWrites, ReviewerWrites, AdminWrites DEF Next, Written

\* Whoever approved a review is its approver on record from then on: the desk
\* and administrators name another only before the approval, and a decision
\* taken over puts its giver into the seat.
THEOREM DeciderTold == Spec => []DeciderIsOnRecord
<1>1. ASSUME Init PROVE DeciderIsOnRecord
  <2>1. approvals = <<>>
    BY <1>1 DEF Init
  <2>2. DOMAIN approvals = {}
    BY <2>1
  <2> QED
    BY <2>2 DEF DeciderIsOnRecord
<1>2. ASSUME Inv, DeciderIsOnRecord, [Next]_vars PROVE DeciderIsOnRecord'
  <2>0. /\ approvals \in Seq([by : Users, decision : Decisions])
        /\ ApprovalIsFinal /\ RequestsPhrased
    BY <1>2 DEF Inv, TypeOK, StatusTold
  <2>1. ASSUME UNCHANGED <<approver, approvals>> PROVE DeciderIsOnRecord'
    BY <1>2, <2>1 DEF DeciderIsOnRecord
  <2>2. ASSUME UNCHANGED approvals, status \notin {"APPROVED", "CLOSED"}
        PROVE  DeciderIsOnRecord'
    BY <2>0, <2>2 DEF DeciderIsOnRecord, ApprovalIsFinal
  <2>3. ASSUME NEW h \in Handlers, Update(h) PROVE DeciderIsOnRecord'
    BY <2>2, <2>3 DEF Update, OnDesk
  <2>4. ASSUME NEW ap \in Users, ReassignApprover(ap) PROVE DeciderIsOnRecord'
    BY <2>2, <2>4 DEF ReassignApprover
  <2>5. ASSUME NEW h \in Handlers, Decide(h) PROVE DeciderIsOnRecord'
    <3> DEFINE last == [by |-> req[h].by, decision |-> req[h].as]
    <3>1. last \in [by : Users, decision : Decisions] /\ last.by = req[h].by
      BY <2>0, <2>5 DEF Decide, RequestsPhrased, Phrased
    <3>2. approvals' = Append(approvals, last) /\ approver' = req[h].by
      BY <2>5 DEF Decide
    <3> HIDE DEF last
    <3>3. /\ DOMAIN approvals = 1..Len(approvals)
          /\ DOMAIN approvals' = 1..(Len(approvals) + 1)
          /\ Len(approvals) \in Nat
          /\ \A k \in 1..Len(approvals) : approvals'[k] = approvals[k]
          /\ approvals'[Len(approvals) + 1] = last
      BY <2>0, <3>1, <3>2, AppendProperties
    <3>4. \A k \in 1..Len(approvals) : approvals[k].decision # "APPROVED"
      BY <2>0, <2>5, <3>3 DEF ApprovalIsFinal, Decide
    <3>5. ASSUME NEW k \in DOMAIN approvals', approvals'[k].decision = "APPROVED"
          PROVE  approver' = approvals'[k].by
      <4>1. k = Len(approvals) + 1
        BY <3>3, <3>4, <3>5
      <4> QED
        BY <3>1, <3>2, <3>3, <4>1
    <3> QED
      BY <3>5 DEF DeciderIsOnRecord
  <2>6. ASSUME NEW h \in Handlers, Written(h), ~Update(h), ~Decide(h)
        PROVE  UNCHANGED <<approver, approvals>>
    BY <2>6 DEF Written, Save, Assign, UploadCommit, DeleteEvidence, Submit, Cancel, Done,
         MoveChange, Begin, SaveResult, BulkSave, CreateChange, BulkChange, Verify,
         Complete, Withdraw, Reopen, Close, row
  <2>7. ASSUME NEW i \in Items, IncludeItem(i) \/ ExcludeItem(i)
        PROVE  UNCHANGED <<approver, approvals>>
    BY <2>7 DEF IncludeItem, ExcludeItem, row
  <2> QED
    BY <1>2, <2>1, <2>3, <2>4, <2>5, <2>6, <2>7, Writes DEF Kept
<1> QED
  BY <1>1, <1>2, InvAlways, PTL DEF Spec

\* Content that moved carries a stamp newer than its verdict.
Fresh == \A i \in Items : moved[i] => newer[i]

LEMMA FreshAlways == Spec => []Fresh
<1>1. ASSUME Init PROVE Fresh
  BY <1>1 DEF Init, Fresh
<1>2. ASSUME TypeOK, Fresh, [Next]_vars PROVE Fresh'
  <2>1. ASSUME NEW S, NEW R, R \subseteq S, Touch(S), Move(R) PROVE Fresh'
    BY <1>2, <2>1 DEF Fresh, Touch, Move
  <2>2. ASSUME NEW S, Touch(S), UNCHANGED moved PROVE Fresh'
    BY <1>2, <2>2 DEF Fresh, Touch
  <2>3. ASSUME UNCHANGED <<newer, moved>> PROVE Fresh'
    BY <1>2, <2>3 DEF Fresh
  <2>4. ASSUME NEW h \in Handlers, Save(h) \/ DeleteEvidence(h) PROVE Fresh'
    BY <2>1, <2>4 DEF Save, DeleteEvidence
  <2>5. ASSUME NEW h \in Handlers, UploadCommit(h) PROVE Fresh'
    <3>1. PICK i \in items : LET S == {j \in {i} : req[h].op = "uploading"}
                             IN  /\ Touch(S)
                                 /\ Move({j \in S : \/ req[h].nth = 0
                                                    \/ evidence[j][req[h].nth] = "live"})
      BY <2>5 DEF UploadCommit
    <3> QED
      BY <2>1, <3>1
  <2>6. ASSUME NEW h \in Handlers, Assign(h) PROVE Fresh'
    BY <2>2, <2>6 DEF Assign
  <2>7. ASSUME NEW h \in Handlers, SaveResult(h) \/ BulkSave(h) PROVE Fresh'
    <3>1. \E S : Judge(h, S)
      BY <2>7 DEF SaveResult, BulkSave
    <3> QED
      BY <1>2, <3>1 DEF Judge, Fresh
  <2>8. ASSUME NEW h \in Handlers, Written(h), ~Save(h), ~DeleteEvidence(h),
               ~UploadCommit(h), ~Assign(h), ~SaveResult(h), ~BulkSave(h)
        PROVE  UNCHANGED <<newer, moved>>
    BY <2>8 DEF Written, Update, Submit, Cancel, Done, MoveChange, Begin, CreateChange,
         BulkChange, Verify, Complete, Withdraw, Reopen, Close, Decide, judgement
  <2>9. ASSUME \/ \E ap \in Users : ReassignApprover(ap)
               \/ \E i \in Items : IncludeItem(i) \/ ExcludeItem(i)
        PROVE  UNCHANGED <<newer, moved>>
    BY <2>9 DEF ReassignApprover, IncludeItem, ExcludeItem, judgement
  <2> QED
    BY <1>2, <2>3, <2>4, <2>5, <2>6, <2>7, <2>8, <2>9, Writes DEF Kept, Fresh
<1> QED
  BY <1>1, <1>2, TypeCorrect, PTL DEF Spec

-----------------------------------------------------------------------------
(* Requests in flight                                                        *)

\* Moving a correction on opens none and leaves none unverified that was.
LEMMA MoveSettles ==
    ASSUME TypeOK, NEW h \in Handlers, NEW from, NEW next, MoveChange(h, from, next),
           next # "OPEN", "VERIFIED" \notin from, NEW i \in Items
    PROVE  /\ OpenOn(i)' => OpenOn(i)
           /\ Unverified(i)' => Unverified(i)
<1>1. PICK j \in Items :
        /\ changes[j][req[h].nth].status \in from
        /\ changes' = [changes EXCEPT ![j][req[h].nth].status = next]
  BY DEF MoveChange
<1> DEFINE n == req[h].nth
<1>2. CASE i # j
  <2>1. changes'[i] = changes[i]
    BY <1>1, <1>2 DEF TypeOK
  <2> QED
    BY <2>1 DEF OpenOn, Unverified
<1>3. CASE i = j
  <2>1. changes'[i] = [changes[i] EXCEPT ![n].status = next]
    BY <1>1, <1>3 DEF TypeOK
  <2>2. changes[i] \in Seq(Change)
    BY DEF TypeOK
  <2>3. DOMAIN changes'[i] = DOMAIN changes[i]
    BY <2>1, <2>2
  <2>4. ASSUME NEW k \in DOMAIN changes[i], k # n PROVE changes'[i][k] = changes[i][k]
    BY <2>1, <2>4
  <2>5. n \in DOMAIN changes[i] => changes'[i][n].status = next
    <3>1. n \in DOMAIN changes[i] => changes[i][n] \in Change
      BY <2>2, ElementOfSeq
    <3> QED
      BY <2>1, <3>1 DEF Change
  <2>6. n \in DOMAIN changes[i] => changes[i][n].status # "VERIFIED"
    BY <1>1, <1>3
  <2> QED
    BY <2>3, <2>4, <2>5, <2>6 DEF OpenOn, Unverified
<1> QED
  BY <1>2, <1>3

\* Nothing a check asked of item i got worse in this step.
Same(i) ==
    /\ response'[i] = response[i] /\ evidence'[i] = evidence[i]
    /\ verdict'[i] = verdict[i]
    /\ moved'[i] => moved[i]
    /\ OpenOn(i)' => OpenOn(i)
    /\ Unverified(i)' => Unverified(i)

\* The request in g is the one it was, and what was written is among since.
Carried(g) ==
    /\ req'[g].op = req[g].op /\ req'[g].by = req[g].by /\ req'[g].as = req[g].as
    /\ \A i \in items' \ req'[g].since : i \in items \ req[g].since /\ Same(i)

\* The request in g passed its checks in this step, or went on to its write.
Entering(g) ==
    \/ \E u \in Users, failed \in SUBSET (Failing \ {"requester"}) :
          SubmitCheck(g, u, failed)
    \/ \E u \in Users : CompleteCheck(g, u)
    \/ \E res \in Results, phase \in {"requestApproval", "conclude"} :
          CompleteRead(g, res, phase)
    \/ \E u \in Users, d \in Decisions : DecideCheck(g, u, d)

Watched(g) == req'[g].op \in Trusting => Entering(g) \/ Carried(g)

\* Columns that stay as they are got no worse.
LEMMA SameStays ==
    ASSUME UNCHANGED <<response, evidence, verdict, moved, changes>>, NEW i
    PROVE  Same(i)
BY DEF Same, OpenOn, Unverified

LEMMA WroteWatched ==
    ASSUME TypeOK, NEW h \in Handlers, NEW S \in SUBSET Items, Wrote(h, S),
           items' \subseteq items \cup S, \A i \in Items \ S : Same(i),
           NEW g \in Handlers
    PROVE  Watched(g)
<1> SUFFICES ASSUME req'[g].op \in Trusting PROVE Carried(g)
  BY DEF Watched
<1>1. g # h
  BY DEF Wrote, Idle, Trusting
<1>2. req[g] \in Request /\ req'[g] = Missed(req[g], S)
  BY <1>1 DEF Wrote, TypeOK
<1>3. /\ req'[g].op = req[g].op /\ req'[g].by = req[g].by /\ req'[g].as = req[g].as
  <2>1. /\ Missed(req[g], S).op = req[g].op /\ Missed(req[g], S).by = req[g].by
        /\ Missed(req[g], S).as = req[g].as
    BY <1>2, MissedSame
  <2> QED
    BY <1>2, <2>1
<1>4. req'[g].since = req[g].since \cup S
  BY <1>2, <1>3 DEF Missed, Request
<1> QED
  BY <1>3, <1>4 DEF Carried, TypeOK

LEMMA ReplacedWatched ==
    ASSUME TypeOK, NEW h \in Handlers, NEW r, req' = [req EXCEPT ![h] = r],
           r.op \notin Trusting, items' \subseteq items, \A i \in Items : Same(i),
           NEW g \in Handlers
    PROVE  Watched(g)
<1> SUFFICES ASSUME req'[g].op \in Trusting PROVE Carried(g)
  BY DEF Watched
<1>1. req'[g] = req[g]
  BY DEF TypeOK
<1> QED
  BY <1>1 DEF Carried, TypeOK

\* A check, and every step that only moves a request on.
LEMMA CheckWatched ==
    ASSUME TypeOK, NEW h \in Handlers, NEW r, req' = [req EXCEPT ![h] = r],
           Entering(h) \/ r.op \notin Trusting,
           UNCHANGED <<items, response, evidence, verdict, moved, changes>>,
           NEW g \in Handlers
    PROVE  Watched(g)
<1>1. \A i \in Items : Same(i)
  BY SameStays
<1>2. CASE r.op \notin Trusting
  BY <1>1, <1>2, ReplacedWatched
<1>3. CASE Entering(h) /\ g = h
  BY <1>3 DEF Watched
<1>4. CASE g # h
  <2>1. req'[g] = req[g]
    BY <1>4 DEF TypeOK
  <2> QED
    BY <1>1, <2>1 DEF Watched, Carried, TypeOK
<1> QED
  BY <1>2, <1>3, <1>4

\* The author's handlers overlook nothing but what they write.
LEMMA AuthorWatched ==
    ASSUME TypeOK, NEW h \in Handlers, AuthorStep(h), NEW g \in Handlers
    PROVE  Watched(g)
<1> USE DEF row, checklist, judgement, stored
<1> DEFINE Unread == UNCHANGED <<items, response, evidence, verdict, moved, changes>>
<1>1. CASE Save(h)
  <2> DEFINE S == {i \in req[h].items \cap items :
                     req[h].as = "overwrite" \/ response[i] = "none"}
  <2>1. /\ S \in SUBSET Items /\ Wrote(h, S) /\ Move(S)
        /\ UNCHANGED <<items, evidence, verdict, changes>>
        /\ \A i \in Items \ S : response'[i] = response[i]
    BY <1>1 DEF Save, TypeOK
  <2> HIDE DEF S
  <2>2. \A i \in Items \ S : Same(i)
    BY <2>1 DEF Same, Move, OpenOn, Unverified
  <2> QED
    BY <2>1, <2>2, WroteWatched
<1>2. CASE Assign(h)
  <2> DEFINE S == req[h].items \cap items
  <2>1. /\ S \in SUBSET Items /\ Wrote(h, S)
        /\ UNCHANGED <<items, evidence, verdict, moved, changes>>
        /\ \A i \in Items \ S : response'[i] = response[i]
    BY <1>2 DEF Assign, TypeOK
  <2> HIDE DEF S
  <2>2. \A i \in Items \ S : Same(i)
    BY <2>1 DEF Same, OpenOn, Unverified
  <2> QED
    BY <2>1, <2>2, WroteWatched
<1>3. CASE UploadCommit(h)
  <2>1. PICK i \in items :
          /\ \/ evidence' = [evidence EXCEPT ![i] = Append(@, "live")]
             \/ UNCHANGED evidence
          /\ \E R \in SUBSET {i} : Move(R)
          /\ Wrote(h, {i})
    <3>1. PICK i \in items :
            /\ \/ evidence' = [evidence EXCEPT ![i] = Append(@, "live")]
               \/ UNCHANGED evidence
            /\ Move({j \in {j \in {i} : req[h].op = "uploading"} :
                       req[h].nth = 0 \/ evidence[j][req[h].nth] = "live"})
            /\ Wrote(h, {i})
      BY <1>3 DEF UploadCommit
    <3> QED
      BY <3>1
  <2>2. i \in Items /\ UNCHANGED <<items, response, verdict, changes>>
    BY <1>3 DEF UploadCommit, TypeOK
  <2>3. \A j \in Items \ {i} : evidence'[j] = evidence[j] /\ moved'[j] = moved[j]
    BY <2>1, <2>2 DEF Move, TypeOK
  <2>4. \A j \in Items \ {i} : Same(j)
    BY <2>2, <2>3 DEF Same, OpenOn, Unverified
  <2> QED
    BY <2>1, <2>2, <2>4, WroteWatched
<1>4. CASE DeleteEvidence(h)
  <2>1. PICK i \in Items :
          /\ evidence' = [evidence EXCEPT ![i][req[h].nth] = "deleted"]
          /\ Move({i}) /\ Wrote(h, {i})
    BY <1>4 DEF DeleteEvidence
  <2>2. UNCHANGED <<items, response, verdict, changes>>
    BY <1>4 DEF DeleteEvidence
  <2>3. \A j \in Items \ {i} : evidence'[j] = evidence[j] /\ moved'[j] = moved[j]
    BY <2>1 DEF Move, TypeOK
  <2>4. \A j \in Items \ {i} : Same(j)
    BY <2>2, <2>3 DEF Same, OpenOn, Unverified
  <2> QED
    BY <2>1, <2>2, <2>4, WroteWatched
<1>5. Idle.op \notin Trusting
  BY DEF Idle, Trusting
<1>6. CASE Done(h)
  <2>1. UNCHANGED <<items, response, evidence, verdict, moved>> /\ Finish(h)
    BY <1>6 DEF Done, MoveChange
  <2>2. \A i \in Items : (OpenOn(i)' => OpenOn(i)) /\ (Unverified(i)' => Unverified(i))
    BY <1>6, MoveSettles DEF Done
  <2> QED
    BY <1>5, <2>1, <2>2, ReplacedWatched DEF Same, Finish
<1>7. CASE Update(h) \/ Invite(h) \/ Release(h) \/ Submit(h) \/ Cancel(h)
  <2>1. Finish(h) /\ Unread
    BY <1>7 DEF Update, Invite, Release, Submit, Cancel
  <2> QED
    BY <1>5, <2>1, CheckWatched DEF Finish
<1>8. CASE UploadBegin(h) \/ Remove(h)
  <2>1. PICK op \in {"uploading", "release"} : req' = [req EXCEPT ![h].op = op]
    BY <1>8 DEF UploadBegin, Remove, Phase
  <2> DEFINE r == [req[h] EXCEPT !.op = op]
  <2>2. r.op = op /\ req' = [req EXCEPT ![h] = r]
    BY <2>1 DEF TypeOK, Request
  <2>3. Unread
    BY <1>8 DEF UploadBegin, Remove
  <2> HIDE DEF r
  <2> QED
    BY <2>2, <2>3, CheckWatched DEF Trusting
<1>9. ASSUME NEW call, Accept(h, call), Entering(h) \/ call.op \notin Trusting
      PROVE  Watched(g)
  BY <1>9, CheckWatched DEF Accept
<1>10. ASSUME NEW u \in Users, NEW rv \in Named, NEW ap \in Named, UpdateCheck(h, u, rv, ap)
       PROVE  Watched(g)
  BY <1>9, <1>10 DEF UpdateCheck, Call, Idle, Trusting
<1>11. ASSUME NEW u \in Users, NEW S \in SUBSET Items, NEW a \in Named, NEW m \in Modes,
              SaveCheck(h, u, S, a, m)
       PROVE  Watched(g)
  BY <1>9, <1>11 DEF SaveCheck, Call, Idle, Trusting
<1>12. ASSUME NEW u \in Users, NEW S \in SUBSET Items, NEW a \in Named,
              AssignCheck(h, u, S, a)
       PROVE  Watched(g)
  BY <1>9, <1>12 DEF AssignCheck, Call, Idle, Trusting
<1>13. ASSUME NEW u \in Users, NEW i \in Items, NEW n,
              \/ UploadCheck(h, u, i, n) \/ DeleteEvidenceCheck(h, u, i, n)
              \/ DoneCheck(h, u, i, n)
       PROVE  Watched(g)
  BY <1>9, <1>13 DEF UploadCheck, DeleteEvidenceCheck, DoneCheck, Call, Idle, Trusting
<1>14. ASSUME NEW u \in Users, NEW p \in Users, InviteCheck(h, u, p) \/ RemoveCheck(h, u, p)
       PROVE  Watched(g)
  BY <1>9, <1>14 DEF InviteCheck, RemoveCheck, Call, Idle, Trusting
<1>15. ASSUME NEW u \in Users, NEW failed \in SUBSET (Failing \ {"requester"}),
              SubmitCheck(h, u, failed)
       PROVE  Watched(g)
  <2>1. Entering(h)
    BY <1>15 DEF Entering
  <2> QED
    BY <1>9, <1>15, <2>1 DEF SubmitCheck
<1>16. CASE CancelCheck(h)
  BY <1>9, <1>16 DEF CancelCheck, Call, Idle, Trusting
<1> QED
  BY <1>1, <1>2, <1>3, <1>4, <1>6, <1>7, <1>8, <1>10, <1>11, <1>12, <1>13, <1>14,
     <1>15, <1>16 DEF AuthorStep

\* A verdict is a write the others overlook, and may overtake an upload.
LEMMA JudgeWatched ==
    ASSUME TypeOK, NEW h \in Handlers, NEW S \in SUBSET Items, Judge(h, S),
           UNCHANGED <<items, response, evidence, changes>>, NEW g \in Handlers
    PROVE  Watched(g)
<1> SUFFICES ASSUME req'[g].op \in Trusting PROVE Carried(g)
  BY DEF Watched
<1>1. req[g] \in Request
  BY DEF TypeOK
<1>2. [req[g] EXCEPT !.op = "overtaken"].op = "overtaken"
  BY <1>1 DEF Request
<1>3. req'[g] = Missed(req[g], S)
  BY <1>2 DEF Judge, Idle, Trusting
<1>4. /\ Missed(req[g], S).op = req[g].op /\ Missed(req[g], S).by = req[g].by
      /\ Missed(req[g], S).as = req[g].as
  BY <1>1, MissedSame
<1>5. req'[g].since = req[g].since \cup S
  BY <1>1, <1>3, <1>4 DEF Missed, Request
<1>6. \A i \in Items \ S : Same(i)
  BY DEF Judge, Same, OpenOn, Unverified
<1> QED
  BY <1>3, <1>4, <1>5, <1>6 DEF Carried, TypeOK

\* The reviewer's handlers overlook nothing but what they write.
LEMMA ReviewerWatched ==
    ASSUME TypeOK, NEW h \in Handlers, ReviewerStep(h), NEW g \in Handlers
    PROVE  Watched(g)
<1> USE DEF row, checklist, judgement, stored
<1> DEFINE Unread == UNCHANGED <<items, response, evidence, verdict, moved, changes>>
<1>1. CASE SaveResult(h)
  <2>1. Judge(h, req[h].items \cap items) /\ req[h].items \cap items \in SUBSET Items
    BY <1>1 DEF SaveResult, TypeOK
  <2> QED
    BY <1>1, <2>1, JudgeWatched DEF SaveResult
<1>2. CASE BulkSave(h)
  <2> DEFINE S == {i \in req[h].items \cap items : req[h].as = "overwrite" \/ ~Judged(i)}
  <2>1. Judge(h, S) /\ S \in SUBSET Items
    BY <1>2 DEF BulkSave, TypeOK
  <2> HIDE DEF S
  <2> QED
    BY <1>2, <2>1, JudgeWatched DEF BulkSave
<1>3. ASSUME NEW S \in SUBSET Items, Wrote(h, S), RaiseOn(S, req[h].to),
             UNCHANGED <<items, response, evidence, verdict, moved>>
      PROVE  Watched(g)
  <2>1. \A i \in Items \ S : changes'[i] = changes[i]
    BY <1>3 DEF RaiseOn
  <2>2. \A i \in Items \ S : Same(i)
    BY <1>3, <2>1 DEF Same, OpenOn, Unverified
  <2> QED
    BY <1>3, <2>2, WroteWatched
<1>4. CASE CreateChange(h)
  <2>1. req[h].items \in SUBSET Items
    BY DEF TypeOK, Request
  <2> QED
    BY <1>3, <1>4, <2>1 DEF CreateChange
<1>5. CASE BulkChange(h)
  <2> DEFINE S == {i \in req[h].items \cap items : ~Unverified(i)}
  <2>1. S \in SUBSET Items /\ RaiseOn(S, req[h].to) /\ Wrote(h, S)
    BY <1>5 DEF BulkChange, TypeOK
  <2>2. UNCHANGED <<items, response, evidence, verdict, moved>>
    BY <1>5 DEF BulkChange
  <2> HIDE DEF S
  <2> QED
    BY <1>3, <2>1, <2>2
<1>6. Idle.op \notin Trusting
  BY DEF Idle, Trusting
<1>7. CASE Verify(h)
  <2>1. UNCHANGED <<items, response, evidence, verdict, moved>> /\ Finish(h)
    BY <1>7 DEF Verify, MoveChange
  <2>2. \A i \in Items : (OpenOn(i)' => OpenOn(i)) /\ (Unverified(i)' => Unverified(i))
    BY <1>7, MoveSettles DEF Verify
  <2> QED
    BY <1>6, <2>1, <2>2, ReplacedWatched DEF Same, Finish
<1>8. CASE Begin(h) \/ Complete(h) \/ Withdraw(h) \/ Reopen(h) \/ Close(h)
  <2>1. Finish(h) /\ Unread
    BY <1>8 DEF Begin, Complete, Withdraw, Reopen, Close
  <2> QED
    BY <1>6, <2>1, CheckWatched DEF Finish
<1>9. CASE BulkRead(h)
  <2> DEFINE r == [req[h] EXCEPT !.op = "judging"]
  <2>1. r.op = "judging" /\ req' = [req EXCEPT ![h] = r] /\ Unread
    BY <1>9 DEF BulkRead, Phase, TypeOK, Request
  <2> HIDE DEF r
  <2> QED
    BY <2>1, CheckWatched DEF Trusting
<1>10. ASSUME NEW res \in Results, NEW phase \in {"requestApproval", "conclude"},
              CompleteRead(h, res, phase)
       PROVE  Watched(g)
  <2> DEFINE r == [req[h] EXCEPT !.as = res, !.op = phase]
  <2>1. req' = [req EXCEPT ![h] = r] /\ Unread /\ Entering(h)
    BY <1>10 DEF CompleteRead, Entering, TypeOK
  <2> HIDE DEF r
  <2> QED
    BY <2>1, CheckWatched
<1>11. ASSUME NEW call, Accept(h, call), Entering(h) \/ call.op \notin Trusting
      PROVE  Watched(g)
  BY <1>11, CheckWatched DEF Accept
<1>12. ASSUME NEW u \in Users, CompleteCheck(h, u) PROVE Watched(g)
  <2>1. Entering(h)
    BY <1>12 DEF Entering
  <2> QED
    BY <1>11, <1>12, <2>1 DEF CompleteCheck
<1>13. ASSUME NEW u \in Users,
              \/ BeginCheck(h, u) \/ WithdrawCheck(h, u) \/ ReopenCheck(h, u)
              \/ CloseCheck(h, u)
       PROVE  Watched(g)
  BY <1>11, <1>13 DEF BeginCheck, WithdrawCheck, ReopenCheck, CloseCheck, Call, Idle,
                      Trusting
<1>14. ASSUME NEW u \in Users, NEW i \in Items, NEW n,
              ResultCheck(h, u, i) \/ VerifyCheck(h, u, i, n)
       PROVE  Watched(g)
  BY <1>11, <1>14 DEF ResultCheck, VerifyCheck, Call, Idle, Trusting
<1>15. ASSUME NEW u \in Users, NEW S \in SUBSET Items, NEW m \in Modes,
              BulkCheck(h, u, S, m)
       PROVE  Watched(g)
  BY <1>11, <1>15 DEF BulkCheck, Call, Idle, Trusting
<1>16. ASSUME NEW u \in Users, NEW i \in Items, NEW a \in Named, ChangeCheck(h, u, i, a)
       PROVE  Watched(g)
  BY <1>11, <1>16 DEF ChangeCheck, Call, Idle, Trusting
<1>17. ASSUME NEW u \in Users, NEW S \in SUBSET Items, NEW a \in Named,
              BulkChangeCheck(h, u, S, a)
       PROVE  Watched(g)
  BY <1>11, <1>17 DEF BulkChangeCheck, Call, Idle, Trusting
<1> QED
  BY <1>1, <1>2, <1>4, <1>5, <1>7, <1>8, <1>9, <1>10, <1>12, <1>13, <1>14, <1>15,
     <1>16, <1>17 DEF ReviewerStep

\* No step makes worse what a request in flight checked without its history
\* saying so.
LEMMA StepWatched ==
    ASSUME TypeOK, [Next]_vars, NEW g \in Handlers
    PROVE  Watched(g)
<1> USE DEF row, checklist, judgement, stored
<1>1. Idle.op \notin Trusting
  BY DEF Idle, Trusting
<1>2. ASSUME NEW h \in Handlers, Decide(h) \/ Abandon(h) \/ ReleaseOpen(h)
      PROVE  Watched(g)
  <2>1. Finish(h) /\ UNCHANGED <<items, response, evidence, verdict, moved, changes>>
    BY <1>2 DEF Decide, Abandon, ReleaseOpen
  <2> QED
    BY <1>1, <2>1, CheckWatched DEF Finish
<1>3. ASSUME NEW h \in Handlers, NEW u \in Users, NEW d \in Decisions, DecideCheck(h, u, d)
      PROVE  Watched(g)
  <2>1. Entering(h)
    BY <1>3 DEF Entering
  <2>2. \E call : Accept(h, call)
    BY <1>3 DEF DecideCheck
  <2> QED
    BY <2>1, <2>2, CheckWatched DEF Accept
<1>4. ASSUME NEW h \in Handlers, NEW u \in Mutable, Deactivate(h, u) PROVE Watched(g)
  <2> DEFINE r == [Idle EXCEPT !.op = "releaseOpen", !.to = u]
  <2>1. /\ r.op = "releaseOpen" /\ req' = [req EXCEPT ![h] = r]
        /\ UNCHANGED <<items, response, evidence, verdict, moved, changes>>
    BY <1>4 DEF Deactivate, Idle
  <2> HIDE DEF r
  <2> QED
    BY <2>1, CheckWatched DEF Trusting
<1>5. ASSUME NEW j \in Items, IncludeItem(j) PROVE Watched(g)
  <2> SUFFICES ASSUME req'[g].op \in Trusting PROVE Carried(g)
    BY DEF Watched
  <2>1. req[g] \in Request /\ req'[g] = Missed(req[g], {j})
    BY <1>5 DEF IncludeItem, TypeOK
  <2>2. /\ Missed(req[g], {j}).op = req[g].op /\ Missed(req[g], {j}).by = req[g].by
        /\ Missed(req[g], {j}).as = req[g].as
    BY <2>1, MissedSame
  <2>3. req'[g].since = req[g].since \cup {j}
    BY <2>1, <2>2 DEF Missed, Request
  <2>4. \A i \in Items : Same(i)
    BY <1>5, SameStays DEF IncludeItem
  <2>5. items' = items \cup {j}
    BY <1>5 DEF IncludeItem
  <2> QED
    BY <2>1, <2>2, <2>3, <2>4, <2>5 DEF Carried, TypeOK
<1>6. ASSUME UNCHANGED <<response, evidence, verdict, moved, changes, req>>,
             items' \subseteq items
      PROVE  Watched(g)
  BY <1>6, SameStays DEF Watched, Carried, TypeOK
<1>7. CASE \/ \E ap \in Users : ReassignApprover(ap)
           \/ \E i \in Items : ExcludeItem(i)
           \/ \E u \in Mutable : Activate(u)
           \/ \E u \in Mutable, rs \in RoleChoices : SetRoles(u, rs)
           \/ \E on \in ApprovalModes : SetApproval(on)
           \/ UNCHANGED vars
  <2>1. /\ UNCHANGED <<response, evidence, verdict, moved, changes, req>>
        /\ items' \subseteq items
    BY <1>7 DEF ReassignApprover, ExcludeItem, Activate, SetRoles, SetApproval, vars
  <2> QED
    BY <1>6, <2>1
<1> QED
  BY <1>2, <1>3, <1>4, <1>5, <1>7, AuthorWatched, ReviewerWatched
     DEF Next, ApproverStep, AdminStep

-----------------------------------------------------------------------------
(* What a request in flight still knows of the items nobody wrote since its  *)
(* checks, whoever else is at work.                                          *)

\* A required answer is given, and its evidence is there.
AnsweredAt(i) ==
    /\ i \in Required => response[i] \in {"na", "answered"}
    /\ i \in Required \cap NeedsEvidence /\ response[i] = "answered"
          => \E n \in DOMAIN evidence[i] : evidence[i][n] = "live"

\* A submission: answered, and no correction owed if it could count them.
HeldWhole(g) ==
    req[g].op = "submit" => \A i \in items \ req[g].since :
        AnsweredAt(i) /\ (req[g].as # "uncounted" => ~OpenOn(i))

\* A completion: judged, verified, and not moved under its verdict.
HeldCounted(g) ==
    req[g].op \in Completing => \A i \in items \ req[g].since :
        /\ Judged(i) /\ ~Unverified(i)
        /\ moved[i] => response[i] = "none"

\* A decision: by somebody who judged none of it and did not ask for it.
HeldEyes(g) ==
    req[g].op = "decide" =>
        /\ AllowSelfReview \/ \A i \in items \ req[g].since : verdict[i] # req[g].by
        /\ SelfReviewBlocked(req[g].by) => "requester" \in Failing

Held(g) == HeldWhole(g) /\ HeldCounted(g) /\ HeldEyes(g)

\* A request that stays as it is keeps what it knows.
LEMMA CarriedHeld ==
    ASSUME TypeOK, NEW g \in Handlers, Held(g), Carried(g)
    PROVE  Held(g)'
<1>1. /\ req'[g].op = req[g].op /\ req'[g].by = req[g].by /\ req'[g].as = req[g].as
      /\ \A i \in items' \ req'[g].since : i \in items \ req[g].since /\ Same(i)
  BY DEF Carried
<1>2. HeldWhole(g)'
  <2> SUFFICES ASSUME req'[g].op = "submit", NEW i \in items' \ req'[g].since
               PROVE  AnsweredAt(i)' /\ (req'[g].as # "uncounted" => ~OpenOn(i)')
    BY DEF HeldWhole
  <2>1. AnsweredAt(i) /\ (req[g].as # "uncounted" => ~OpenOn(i))
    BY <1>1 DEF Held, HeldWhole
  <2>2. /\ response'[i] = response[i] /\ evidence'[i] = evidence[i]
        /\ OpenOn(i)' => OpenOn(i)
    BY <1>1 DEF Same
  <2> QED
    BY <1>1, <2>1, <2>2 DEF AnsweredAt
<1>3. HeldCounted(g)'
  <2> SUFFICES ASSUME req'[g].op \in Completing, NEW i \in items' \ req'[g].since
               PROVE  /\ Judged(i)' /\ ~Unverified(i)'
                      /\ moved'[i] => response'[i] = "none"
    BY DEF HeldCounted
  <2>1. Judged(i) /\ ~Unverified(i) /\ (moved[i] => response[i] = "none")
    BY <1>1 DEF Held, HeldCounted
  <2>2. /\ response'[i] = response[i] /\ verdict'[i] = verdict[i]
        /\ moved'[i] => moved[i]
        /\ Unverified(i)' => Unverified(i)
    BY <1>1 DEF Same
  <2> QED
    BY <2>1, <2>2 DEF Judged
<1>4. HeldEyes(g)'
  BY <1>1 DEF Held, HeldEyes, Same, SelfReviewBlocked
<1> QED
  BY <1>2, <1>3, <1>4 DEF Held

\* A request that just passed its checks knows what they asked.
LEMMA EnteringHeld ==
    ASSUME TypeOK, Fresh, NEW g \in Handlers, Held(g), Entering(g)
    PROVE  Held(g)'
<1> USE DEF row, checklist, judgement, stored
<1>1. ASSUME NEW u \in Users, NEW failed \in SUBSET (Failing \ {"requester"}),
             SubmitCheck(g, u, failed)
      PROVE  Held(g)'
  <2> DEFINE call == [Call("submit", u) EXCEPT
                        !.as = IF "corrections" \in failed THEN "uncounted" ELSE ""]
  <2>1. /\ call.op = "submit" /\ call.since = {}
        /\ call.as # "uncounted" => "corrections" \notin failed
    BY DEF Call, Idle
  <2>2. /\ req' = [req EXCEPT ![g] = call] /\ Submittable(failed)
        /\ UNCHANGED <<items, response, evidence, changes>>
    BY <1>1 DEF SubmitCheck, Accept
  <2> HIDE DEF call
  <2>3. req'[g] = call
    BY <2>2 DEF TypeOK
  <2>4. \A i \in items : AnsweredAt(i)
    BY <2>2 DEF Submittable, FilledIn, AnsweredAt
  <2>5. call.as # "uncounted" => \A i \in items : ~OpenOn(i)
    BY <2>1, <2>2 DEF Submittable
  <2>6. \A i : (AnsweredAt(i)' <=> AnsweredAt(i)) /\ (OpenOn(i)' <=> OpenOn(i))
    BY <2>2 DEF AnsweredAt, OpenOn
  <2>7. HeldWhole(g)'
    BY <2>2, <2>3, <2>4, <2>5, <2>6 DEF HeldWhole
  <2> QED
    BY <2>1, <2>3, <2>7 DEF Held, HeldCounted, HeldEyes, Completing
<1>2. ASSUME NEW u \in Users, CompleteCheck(g, u) PROVE Held(g)'
  <2> DEFINE call == Call("complete", u)
  <2>1. call.op = "complete" /\ call.since = {}
    BY DEF Call, Idle
  <2>2. /\ req' = [req EXCEPT ![g] = call] /\ GuardReady
        /\ UNCHANGED <<items, response, verdict, moved, changes>>
    BY <1>2 DEF CompleteCheck, Accept
  <2> HIDE DEF call
  <2>3. req'[g] = call
    BY <2>2 DEF TypeOK
  <2>4. \A i \in items : /\ Judged(i) /\ ~Unverified(i)
                         /\ moved[i] => response[i] = "none"
    BY <2>2 DEF GuardReady, StaleForGuard, Fresh, TypeOK
  <2>5. \A i : (Judged(i)' <=> Judged(i)) /\ (Unverified(i)' <=> Unverified(i))
    BY <2>2 DEF Judged, Unverified
  <2>6. HeldCounted(g)'
    BY <2>2, <2>4, <2>5 DEF HeldCounted
  <2> QED
    BY <2>1, <2>3, <2>6 DEF Held, HeldWhole, HeldEyes
<1>3. ASSUME NEW res \in Results, NEW phase \in {"requestApproval", "conclude"},
             CompleteRead(g, res, phase)
      PROVE  Held(g)'
  <2>1. req[g] \in Request
    BY DEF TypeOK
  <2>2. req'[g] = [req[g] EXCEPT !.as = res, !.op = phase]
    BY <1>3 DEF CompleteRead, TypeOK
  <2>3. req'[g].op = phase /\ req'[g].since = req[g].since
    BY <2>1, <2>2 DEF Request
  <2>4. req[g].op = "complete" /\ UNCHANGED <<items, response, verdict, moved, changes>>
    BY <1>3 DEF CompleteRead
  <2>5. \A i : (Judged(i)' <=> Judged(i)) /\ (Unverified(i)' <=> Unverified(i))
    BY <2>4 DEF Judged, Unverified
  <2>6. \A i \in items \ req[g].since : /\ Judged(i) /\ ~Unverified(i)
                                        /\ moved[i] => response[i] = "none"
    BY <2>4 DEF Held, HeldCounted, Completing
  <2>7. HeldCounted(g)'
    BY <2>3, <2>4, <2>5, <2>6 DEF HeldCounted
  <2> QED
    BY <2>3, <2>7 DEF Held, HeldWhole, HeldEyes
<1>4. ASSUME NEW u \in Users, NEW d \in Decisions, DecideCheck(g, u, d) PROVE Held(g)'
  <2> DEFINE call == [Call("decide", u) EXCEPT !.as = d]
  <2>1. call.op = "decide" /\ call.by = u /\ call.since = {}
    BY DEF Call, Idle
  <2>2. /\ req' = [req EXCEPT ![g] = call] /\ LetThrough(u) /\ ~OwnVerdictBlocked(u)
        /\ UNCHANGED <<items, verdict>>
    BY <1>4 DEF DecideCheck, Accept
  <2> HIDE DEF call
  <2>3. req'[g] = call
    BY <2>2 DEF TypeOK
  <2>4. HeldEyes(g)'
    BY <2>1, <2>2, <2>3 DEF HeldEyes, LetThrough, OwnVerdictBlocked, SelfReviewBlocked
  <2> QED
    BY <2>1, <2>3, <2>4 DEF Held, HeldWhole, HeldCounted, Completing
<1> QED
  BY <1>1, <1>2, <1>3, <1>4 DEF Entering

\* Every request in flight knows what it checked, of every item nobody wrote
\* since.
LEMMA HeldAlways == Spec => []\A g \in Handlers : Held(g)
<1>1. ASSUME Init PROVE \A g \in Handlers : Held(g)
  <2>1. \A g \in Handlers : req[g].op = "idle"
    BY <1>1 DEF Init, Idle
  <2> QED
    BY <2>1 DEF Held, HeldWhole, HeldCounted, HeldEyes, Completing
<1>2. ASSUME TypeOK, Fresh, \A g \in Handlers : Held(g), [Next]_vars
      PROVE  (\A g \in Handlers : Held(g))'
  <2> SUFFICES ASSUME NEW g \in Handlers PROVE Held(g)'
    OBVIOUS
  <2>1. CASE req'[g].op \in Trusting
    BY <1>2, <2>1, StepWatched, CarriedHeld, EnteringHeld DEF Watched
  <2>2. CASE req'[g].op \notin Trusting
    BY <2>2 DEF Held, HeldWhole, HeldCounted, HeldEyes, Completing, Trusting
  <2> QED
    BY <2>1, <2>2
<1> QED
  BY <1>1, <1>2, TypeCorrect, FreshAlways, PTL DEF Spec

\* A review is concluded only when every item carries a verdict, was not moved
\* under it, and has its corrections verified, but for the items somebody wrote
\* between the count of the blockers and this conclusion.
THEOREM ReadyTold == Spec => ConcludedWhenReady
<1>1. (\A g \in Handlers : Held(g)) /\ [Next]_vars
         => [\A h \in Handlers :
                /\ status = "REVIEWING" /\ status' \in Concluded
                /\ req[h].op \in {"conclude", "requestApproval"} /\ req'[h] = Idle
                => \A i \in items \ req[h].since :
                      /\ Judged(i) /\ ~Unverified(i)
                      /\ moved[i] => response[i] = "none"]_vars
  BY DEF Held, HeldCounted, Completing
<1> QED
  BY <1>1, HeldAlways, PTL DEF Spec, ConcludedWhenReady

\* Whoever signs a review off neither asked for it, unless the query that tells
\* may fail, nor judged one of its items, but for the verdicts they gave between
\* the check and this decision.
THEOREM SecondEyesTold == Spec => SecondEyes
<1>1. (\A g \in Handlers : Held(g)) /\ [Next]_vars
         => [\A h \in Handlers :
                Len(approvals') > Len(approvals) /\ req[h].op = "decide" /\ req'[h] = Idle
                => /\ AllowSelfReview \/ \A i \in items \ req[h].since :
                                            verdict[i] # req[h].by
                   /\ SelfReviewBlocked(req[h].by) => "requester" \in Failing]_vars
  BY DEF Held, HeldEyes
<1> QED
  BY <1>1, HeldAlways, PTL DEF Spec, SecondEyes

-----------------------------------------------------------------------------
(* Handed over whole                                                         *)

Handed == Concluded \cup {"SUBMITTED", "RESUBMITTED", "REVIEWING"}

WholeAt(i) == ~OpenOn(i) /\ AnsweredAt(i)

\* What a step must leave alone for a review handed over to stay whole.
LEMMA WholeStays ==
    ASSUME HandedOverWhole, items' = items, unseen \subseteq unseen',
           status' \in Handed => status \in Handed,
           status' \in Concluded => status \in Concluded,
           \A i \in items \ unseen' :
              (WholeAt(i) => WholeAt(i)') /\ (Unverified(i)' => Unverified(i))
    PROVE  HandedOverWhole'
<1>1. status \in Handed => \A i \in items \ unseen : WholeAt(i)
  BY DEF HandedOverWhole, Handed, WholeAt, AnsweredAt
<1>2. status \in Concluded => \A i \in items \ unseen : ~Unverified(i)
  BY DEF HandedOverWhole
<1>3. status' \in Handed => \A i \in items' \ unseen' : WholeAt(i)'
  BY <1>1
<1>4. status' \in Concluded => \A i \in items' \ unseen' : ~Unverified(i)'
  BY <1>2
<1> QED
  BY <1>3, <1>4 DEF HandedOverWhole, Handed, WholeAt, AnsweredAt

\* On the author's desk and once cancelled nothing is promised.
LEMMA NothingHanded ==
    ASSUME status' \in {"DRAFT", "CHANGE_REQUESTED", "CANCELLED"}
    PROVE  HandedOverWhole'
BY DEF HandedOverWhole, Concluded

\* A submission hands over what it found, but for what others wrote since and
\* the corrections it could not count; a conclusion adds that all is verified.
LEMMA HandOver ==
    ASSUME TypeOK, HandedOverWhole, NEW h \in Handlers, Held(h), Submit(h) \/ Complete(h)
    PROVE  HandedOverWhole'
<1> USE DEF row, checklist, judgement
<1>1. UNCHANGED <<items, response, evidence, changes>>
  BY DEF Submit, Complete
<1>2. \A i : (WholeAt(i)' <=> WholeAt(i)) /\ (Unverified(i)' <=> Unverified(i))
  BY <1>1 DEF WholeAt, AnsweredAt, OpenOn, Unverified
<1>3. CASE Submit(h)
  <2>1. /\ status' \notin Concluded
        /\ unseen' = req[h].since \cup {i \in items : req[h].as = "uncounted" /\ OpenOn(i)}
    BY <1>3 DEF Submit, NextSubmissionState, Concluded
  <2>2. \A i \in items \ unseen' : WholeAt(i)
    BY <1>3, <2>1 DEF Submit, Held, HeldWhole, WholeAt
  <2>3. \A i \in items' \ unseen' : WholeAt(i)'
    BY <1>1, <1>2, <2>2
  <2> QED
    BY <2>1, <2>3 DEF HandedOverWhole, WholeAt, AnsweredAt
<1>4. CASE Complete(h)
  <2>1. /\ status = "REVIEWING" /\ unseen' = unseen \cup req[h].since
        /\ req[h].op \in Completing
    BY <1>4 DEF Complete, Completing
  <2>2. \A i \in items \ unseen' : WholeAt(i) /\ ~Unverified(i)
    BY <2>1 DEF Held, HeldCounted, HandedOverWhole, WholeAt, AnsweredAt
  <2>3. \A i \in items' \ unseen' : WholeAt(i)' /\ ~Unverified(i)'
    BY <1>1, <1>2, <2>2
  <2> QED
    BY <2>3 DEF HandedOverWhole, WholeAt, AnsweredAt
<1> QED
  BY <1>3, <1>4

\* No other step takes from a review in somebody else's hands without adding
\* to what its hand-over did not see.
LEMMA WholeStep ==
    ASSUME TypeOK, HandedOverWhole, \A g \in Handlers : Held(g), [Next]_vars
    PROVE  HandedOverWhole'
<1> USE DEF row, checklist, judgement
<1>1. ASSUME UNCHANGED <<items, unseen, response, evidence, changes>>,
             status' \in Handed => status \in Handed,
             status' \in Concluded => status \in Concluded
      PROVE  HandedOverWhole'
  <2>1. \A i : (WholeAt(i) => WholeAt(i)') /\ (Unverified(i)' => Unverified(i))
    BY <1>1 DEF WholeAt, AnsweredAt, OpenOn, Unverified
  <2> QED
    BY <1>1, <2>1, WholeStays
<1>2. ASSUME NEW h \in Handlers,
             \/ Update(h) \/ SaveResult(h) \/ BulkSave(h) \/ Begin(h) \/ Withdraw(h)
             \/ Decide(h) \/ Close(h)
      PROVE  HandedOverWhole'
  <2>1. UNCHANGED <<items, unseen, response, evidence, changes>>
    BY <1>2 DEF Update, SaveResult, BulkSave, Begin, Withdraw, Decide, Close
  <2>2. /\ status' \in Handed => status \in Handed
        /\ status' \in Concluded => status \in Concluded
    BY <1>2 DEF Update, SaveResult, BulkSave, Begin, Withdraw, Decide, Close,
                Handed, Concluded
  <2> QED
    BY <1>1, <2>1, <2>2
<1>3. ASSUME NEW h \in Handlers,
             Cancel(h) \/ CreateChange(h) \/ BulkChange(h) \/ Reopen(h)
      PROVE  HandedOverWhole'
  BY <1>3, NothingHanded DEF Cancel, CreateChange, BulkChange, Reopen
<1>4. ASSUME NEW i \in Items, IncludeItem(i) \/ ExcludeItem(i) PROVE HandedOverWhole'
  BY <1>4, NothingHanded DEF IncludeItem, ExcludeItem
<1>5. ASSUME NEW ap \in Users, ReassignApprover(ap) PROVE HandedOverWhole'
  BY <1>1, <1>5 DEF ReassignApprover
<1>6. ASSUME NEW h \in Handlers, Done(h) \/ Verify(h) PROVE HandedOverWhole'
  <2>1. UNCHANGED <<items, unseen, response, evidence, status>>
    BY <1>6 DEF Done, Verify, MoveChange
  <2>2. \A i \in Items : (OpenOn(i)' => OpenOn(i)) /\ (Unverified(i)' => Unverified(i))
    BY <1>6, MoveSettles DEF Done, Verify
  <2>3. \A i \in Items : WholeAt(i) => WholeAt(i)'
    BY <2>1, <2>2 DEF WholeAt, AnsweredAt
  <2> QED
    BY <2>1, <2>2, <2>3, WholeStays DEF TypeOK
<1>7. ASSUME NEW h \in Handlers, Save(h) \/ DeleteEvidence(h) PROVE HandedOverWhole'
  <2>1. PICK S : /\ Late(S)
                 /\ \A i \in Items \ S : response'[i] = response[i]
                                         /\ evidence'[i] = evidence[i]
    <3>1. CASE Save(h)
      <4> DEFINE T == {i \in req[h].items \cap items :
                         req[h].as = "overwrite" \/ response[i] = "none"}
      <4>1. /\ Late(T) /\ UNCHANGED evidence
            /\ \A i \in Items \ T : response'[i] = response[i]
        BY <3>1 DEF Save
      <4> QED
        BY <4>1
    <3>2. CASE DeleteEvidence(h)
      <4>1. PICK i \in Items :
              Late({i}) /\ evidence' = [evidence EXCEPT ![i][req[h].nth] = "deleted"]
        BY <3>2 DEF DeleteEvidence
      <4>2. \A j \in Items \ {i} : response'[j] = response[j] /\ evidence'[j] = evidence[j]
        BY <3>2, <4>1 DEF DeleteEvidence, TypeOK
      <4> QED
        BY <4>1, <4>2
    <3> QED
      BY <1>7, <3>1, <3>2
  <2>2. UNCHANGED <<items, status, changes>>
    BY <1>7 DEF Save, DeleteEvidence
  <2>3. CASE OnDesk
    BY <2>2, <2>3, NothingHanded DEF OnDesk
  <2>4. CASE ~OnDesk
    <3>1. unseen' = unseen \cup S
      BY <2>1, <2>4 DEF Late
    <3>2. \A i \in items \ unseen' :
             response'[i] = response[i] /\ evidence'[i] = evidence[i]
      BY <2>1, <3>1 DEF TypeOK
    <3>3. \A i \in items \ unseen' :
             (WholeAt(i) => WholeAt(i)') /\ (Unverified(i)' => Unverified(i))
      BY <2>2, <3>2 DEF WholeAt, AnsweredAt, OpenOn, Unverified
    <3> QED
      BY <2>2, <3>1, <3>3, WholeStays
  <2> QED
    BY <2>3, <2>4
<1>8. ASSUME NEW h \in Handlers, Assign(h) PROVE HandedOverWhole'
  <2>1. UNCHANGED <<items, unseen, status, evidence, changes>>
    BY <1>8 DEF Assign
  <2>2. \A i \in Items : \/ response'[i] = response[i]
                         \/ response[i] = "none" /\ response'[i] = "blank"
    BY <1>8 DEF Assign
  <2>3. \A i \in Items : (WholeAt(i) => WholeAt(i)') /\ (Unverified(i)' => Unverified(i))
    BY <2>1, <2>2 DEF WholeAt, AnsweredAt, OpenOn, Unverified
  <2> QED
    BY <2>1, <2>3, WholeStays DEF TypeOK
<1>9. ASSUME NEW h \in Handlers, UploadCommit(h) PROVE HandedOverWhole'
  <2>1. UNCHANGED <<items, unseen, status, response, changes>>
    BY <1>9 DEF UploadCommit
  <2>2. ASSUME NEW i \in Items
        PROVE  \A n \in DOMAIN evidence[i] :
                  n \in DOMAIN evidence'[i] /\ evidence'[i][n] = evidence[i][n]
    <3>1. PICK j \in items : \/ UNCHANGED evidence
                             \/ evidence' = [evidence EXCEPT ![j] = Append(@, "live")]
      BY <1>9 DEF UploadCommit
    <3>2. evidence[i] \in Seq({"live", "deleted"})
      BY DEF TypeOK
    <3>3. \A n \in DOMAIN evidence[i] :
             /\ n \in DOMAIN Append(evidence[i], "live")
             /\ Append(evidence[i], "live")[n] = evidence[i][n]
      BY <3>2, AppendProperties
    <3> QED
      BY <3>1, <3>3 DEF TypeOK
  <2>3. \A i \in Items : (WholeAt(i) => WholeAt(i)') /\ (Unverified(i)' => Unverified(i))
    BY <2>1, <2>2 DEF WholeAt, AnsweredAt, OpenOn, Unverified
  <2> QED
    BY <2>1, <2>3, WholeStays DEF TypeOK
<1> QED
  BY <1>1, <1>2, <1>3, <1>4, <1>5, <1>6, <1>7, <1>8, <1>9, HandOver, Writes
     DEF Kept, Written

\* A review in the reviewer's or the approver's hands is whole, and a concluded
\* one has every correction verified, but for what was written past the check
\* of the submission or conclusion, or that check could not count.
THEOREM WholeTold == Spec => []HandedOverWhole
<1>1. ASSUME Init PROVE HandedOverWhole
  BY <1>1 DEF Init, HandedOverWhole, Concluded
<1>2. ASSUME TypeOK, HandedOverWhole, \A g \in Handlers : Held(g), [Next]_vars
      PROVE  HandedOverWhole'
  BY <1>2, WholeStep
<1> QED
  BY <1>1, <1>2, TypeCorrect, HeldAlways, PTL DEF Spec
=============================================================================
