--------------------------- MODULE ReviewLifecycle ---------------------------
(***************************************************************************)
(* What a security review promises the people around it, whatever requests *)
(* arrive and in whatever order: the stages it passes, when a conclusion   *)
(* stands on it, when it counts as approved, and that an approver's        *)
(* decision and its record in the approvals table are one event.           *)
(*                                                                         *)
(* The stages are the values review_requests.status may take.              *)
(***************************************************************************)
EXTENDS Sequences

VARIABLES stage,       \* where the review is
          conclusion,  \* the reviewer's conclusion, "" when none stands
          approved,    \* an approval date is on the review
          decisions    \* the approver's decisions, oldest first

lifecycle == <<stage, conclusion, approved, decisions>>

Conclusions == {"APPROVED", "CONDITIONAL", "REJECTED"}
Pending     == {"DRAFT", "CHANGE_REQUESTED", "SUBMITTED", "RESUBMITTED",
                "REVIEWING", "APPROVAL_PENDING"}

Start == /\ stage = "DRAFT" /\ conclusion = "" /\ approved = FALSE
         /\ decisions = <<>>

Stand == UNCHANGED <<conclusion, approved, decisions>>

HandIn == /\ \/ stage = "DRAFT" /\ stage' = "SUBMITTED"
             \/ stage = "CHANGE_REQUESTED" /\ stage' = "RESUBMITTED"
          /\ Stand

TakeUp == /\ stage \in {"SUBMITTED", "RESUBMITTED"} /\ stage' = "REVIEWING"
          /\ Stand

SendBack == /\ stage = "REVIEWING" /\ stage' = "CHANGE_REQUESTED"
            /\ Stand

\* Without the approval step the reviewer's conclusion is the outcome.
Conclude == /\ stage = "REVIEWING"
            /\ conclusion' \in Conclusions
            /\ stage' = IF conclusion' = "REJECTED" THEN "REJECTED" ELSE "APPROVED"
            /\ approved' = (stage' = "APPROVED")
            /\ UNCHANGED decisions

AskApproval == /\ stage = "REVIEWING" /\ stage' = "APPROVAL_PENDING"
               /\ conclusion' \in Conclusions
               /\ UNCHANGED <<approved, decisions>>

\* A decision is one event: stage, approval date and record move together.
Decision == /\ stage = "APPROVAL_PENDING"
            /\ \/ /\ stage' = "APPROVED" /\ approved' = TRUE
                  /\ UNCHANGED conclusion
               \/ /\ stage' = "REJECTED" /\ conclusion' = "REJECTED"
                  /\ UNCHANGED approved
            /\ decisions' = Append(decisions, stage')

TakeBack == /\ \/ stage = "APPROVAL_PENDING" /\ stage' = "REVIEWING"
               \/ stage = "REJECTED" /\ stage' = "CHANGE_REQUESTED"
            /\ conclusion' = "" /\ approved' = FALSE
            /\ UNCHANGED decisions

Archive == /\ stage \in {"APPROVED", "REJECTED"} /\ stage' = "CLOSED"
           /\ Stand

CallOff == /\ stage \in Pending /\ stage' = "CANCELLED"
           /\ Stand

Move == \/ HandIn \/ TakeUp \/ SendBack \/ Conclude \/ AskApproval \/ Decision
        \/ TakeBack \/ Archive \/ CallOff

Lifecycle == Start /\ [][Move]_lifecycle
=============================================================================
