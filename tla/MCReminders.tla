----------------------------- MODULE MCReminders -----------------------------
(* Model values and bounds for Reminders. *)
EXTENDS Reminders, TLC

CONSTANTS p1, p2, p3, m1, m2, m3

Everybody == {p1, p2, p3}
Rows == {m1, m2, m3}
Mix(a, b, c) == (m1 :> a) @@ (m2 :> b) @@ (m3 :> c)
Combined == {Mix("key", "key", None), Mix("correction", "follow-up", None),
             Mix("stalled", "stalled", None), Mix("stalled", "opening", None),
             Mix("correction", "correction", None)}

(* A requester with an assignee, a reviewer and an approver; the second row  *)
(* has no assignee but was raised by the one who reviews the first, and its  *)
(* own reviewer is the approver of that one.                                 *)
Names ==
    LET Of(a, c, r, v, s) == ("assignee" :> a) @@ ("raiser" :> c) @@ ("requester" :> r)
                                @@ ("reviewer" :> v) @@ ("approver" :> s)
    IN  (m1 :> Of(p3, p2, p1, p2, p3)) @@ (m2 :> Of(None, p2, p1, p3, p2))
           @@ (m3 :> Of(None, p2, p1, p2, p3))
=============================================================================
