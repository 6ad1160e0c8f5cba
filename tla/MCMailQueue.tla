----------------------------- MODULE MCMailQueue -----------------------------
(* Instances of MailQueue for TLC. *)
EXTENDS MailQueue

CONSTANTS p1, p2

Reader(mailed, daily, muted) == [email_enabled |-> mailed, daily |-> daily, muted |-> muted]

Daily      == {Reader(TRUE, TRUE, {})}
DailyOrNot == Daily \cup {Reader(TRUE, FALSE, {})}
Choosy     == Daily \cup {Reader(TRUE, TRUE, {"turn"})}
On         == {[enabled |-> TRUE, allowed |-> {"turn", "service"}]}
OnOrPart   == On \cup {[enabled |-> TRUE, allowed |-> {"service"}]}
=============================================================================
