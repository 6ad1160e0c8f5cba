--------------------------- MODULE MCReviewWorkflow ---------------------------
(* Instances of ReviewWorkflow for TLC. *)
EXTENDS ReviewWorkflow, TLC

CONSTANTS author, u1, u2, i1, i2, h1, h2

\* The author asks and edits; u1 and u2 both review and approve.
StaffRoles == [u \in Users |-> IF u = author THEN {"REQUESTER"}
                               ELSE {"SECURITY_REVIEWER", "APPROVER"}]

\* One person for each part: the fewest people who can take a review through.
SplitRoles == [u \in Users |-> CASE u = author -> {"REQUESTER"}
                                [] u = u1     -> {"SECURITY_REVIEWER"}
                                [] OTHER      -> {"APPROVER"}]

\* The author is an approver too, or a reviewer.
ApproverRoles == [StaffRoles EXCEPT ![author] = {"REQUESTER", "APPROVER"}]
ReviewerRoles == [StaffRoles EXCEPT ![author] = {"REQUESTER", "SECURITY_REVIEWER"}]

\* A staff account may lose every role, or hold both again.
AllOrNothing == {{}, {"SECURITY_REVIEWER", "APPROVER"}}

CallSymmetry    == Permutations({h1, h2})
StaffSymmetry   == Permutations({u1, u2})
HandlerSymmetry == StaffSymmetry \cup CallSymmetry

\* Operation sets: the road to a decision, and the corrections and evidence on
\* the way back to the author, both with two requests at a time; what
\* administrators and co-authors change while one review is decided.
OverlappingOps == {"update", "submit", "begin", "result", "complete", "decide",
                   "withdraw", "reopen", "close", "cancel", "reassign"}
CorrectingOps  == {"update", "save", "upload", "deleteEvidence", "submit", "begin",
                   "result", "bulk", "change", "bulkChange", "done", "verify",
                   "complete", "reopen"}
GoverningOps   == {"update", "save", "submit", "begin", "result", "complete",
                   "decide", "assign", "invite", "remove", "override",
                   "deactivate", "activate", "roles", "reassign", "setting"}
=============================================================================
