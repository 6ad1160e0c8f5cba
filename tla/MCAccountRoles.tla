---------------------------- MODULE MCAccountRoles ----------------------------
(* Instances of AccountRoles for TLC. *)
EXTENDS AccountRoles, TLC

CONSTANTS a1, a2, p1, p2, h1, h2, t1, t2, g1

OfReviewers == {<<g1, "SECURITY_REVIEWER">>}
OfAdmins    == {<<g1, "SYSTEM_ADMIN">>, <<g1, "SECURITY_REVIEWER">>}

Tried == {OfReviewers, OfAdmins}
Plain == {{}, {"SYSTEM_ADMIN"}}
=============================================================================
