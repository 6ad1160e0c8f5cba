------------------------- MODULE MCReviewAssignment -------------------------
(* People and bounds for ReviewAssignment. *)
EXTENDS ReviewAssignment

CONSTANTS a, b, c

(* One review is there; a second may be created or copied.  Everybody may    *)
(* ask and review, two may approve.  It is b who leaves, as the requester,   *)
(* the reviewer or the approver.                                             *)
Numbers == {1, 2}
Staff == [u \in People |-> IF u = a THEN {"REQUESTER", "SECURITY_REVIEWER"} ELSE Roles]

At(s, r, v, p, i, o, f) ==
    [stage |-> s, seat |-> [requester |-> r, reviewer |-> v, approver |-> p],
     item |-> i, correction |-> o, followUp |-> f]
Begun == {At("desk", b, a, c, b, None, "none"),
          At("reviewing", a, b, c, b, b, "none"),
          At("signing", a, c, b, None, b, "none"),
          At("concluded", a, b, c, None, None, "open")}
=============================================================================
