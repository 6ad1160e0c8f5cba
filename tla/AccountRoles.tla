----------------------------- MODULE AccountRoles -----------------------------
(***************************************************************************)
(* Who may do what: the administrator's handlers for accounts and roles,   *)
(* the sign-on through an identity provider with its role mapping and the  *)
(* lock of privileged accounts nobody used, and the command line's grant.  *)
(*                                                                         *)
(* A request is authorised in one step and acts in later ones.  A save of  *)
(* roles is a READ COMMITTED transaction that deletes the roles it finds   *)
(* and inserts its own: what another one inserted meanwhile it never sees. *)
(***************************************************************************)
EXTENDS Naturals, FiniteSets

CONSTANTS
    People,       \* accounts
    Oidc,         \* those the identity provider vouches for
    Founders,     \* accounts that hold SYSTEM_ADMIN at the start
    Callbacks,    \* requests of oidcCallback that may run at once
    Tokens,       \* sign-ons begun
    Roles,        \* role codes in use
    Groups,       \* groups of the directory
    Mappings,     \* values tried for role_mappings
    DefaultRole,  \* oidc.default_role
    Wishes,       \* role lists an administrator saves
    InactiveLock, \* inactive_admin_lock_days is above zero
    MaxTurns,     \* bound on saves and closed or opened accounts
    MaxMoves,     \* bound on changes of the directory and of the mapping
    None

ASSUME RolesAssumption ==
    /\ Oidc \subseteq People /\ Founders \subseteq People /\ Founders # {}
    /\ None \notin People \cup {"service"}
    /\ Wishes \subseteq SUBSET Roles
    /\ Mappings \subseteq SUBSET (Groups \X Roles)
    /\ "SYSTEM_ADMIN" \in Roles
    /\ DefaultRole \in Roles \ {"SYSTEM_ADMIN"}
    /\ InactiveLock \in BOOLEAN
    /\ {MaxTurns, MaxMoves} \subseteq Nat

VARIABLES
    known,      \* rows of users
    active,     \* users.active
    roles,      \* rows of user_roles
    fresh,      \* accounts whose last_login_at is recent, or empty
    hand,       \* roles as an administrator last granted them
    closedBy,   \* who closed an account
    admin,      \* what an administrator's request is about to do
    state,      \* rows of oidc_states
    callback,   \* what a callback of the provider is about to do
    opened,     \* sessions a sign-on led to
    mapping,    \* role_mappings as stored
    member,     \* groups of a person in the directory
    turns, moves

accounts  == <<known, active, roles, fresh, hand, closedBy>>
directory == <<mapping, member>>
vars == <<accounts, admin, state, callback, opened, directory, turns, moves>>

Privileged == {"SYSTEM_ADMIN", "TEMPLATE_ADMIN", "SECURITY_REVIEWER", "APPROVER"}

\* assignableOIDCRoles
Assignable_all == Roles
Assignable == {"TEMPLATE_ADMIN", "SECURITY_REVIEWER", "REQUESTER", "CONTRIBUTOR", "APPROVER",
               "AUDITOR"}

Request  == [phase : {"idle", "allowed", "saving"}, on : People \cup {None},
             wish : SUBSET Roles, unseen : SUBSET Roles]
Callback == [phase : {"idle", "taken", "checked", "written"}, token : Tokens \cup {None},
             who : People \cup {None}, existed : BOOLEAN, had : SUBSET Roles,
             mapped : SUBSET Roles]

Waiting == [phase |-> "idle", on |-> None, wish |-> {}, unseen |-> {}]
Resting == [phase |-> "idle", token |-> None, who |-> None, existed |-> FALSE,
            had |-> {}, mapped |-> {}]

Init ==
    /\ known = Founders
    /\ active = People
    /\ roles = [p \in People |-> IF p \in Founders THEN {"SYSTEM_ADMIN"} ELSE {}]
    /\ fresh = People
    /\ hand = roles
    /\ closedBy = [p \in People |-> None]
    /\ admin = [p \in People |-> Waiting]
    /\ state = [t \in Tokens |-> "none"]
    /\ callback = [h \in Callbacks |-> Resting]
    /\ opened = [t \in Tokens |-> 0]
    /\ mapping = {}
    /\ member = [p \in People |-> {}]
    /\ turns = MaxTurns /\ moves = MaxMoves

IsAdmin(p) == p \in known \cap active /\ "SYSTEM_ADMIN" \in roles[p]

Turn == turns > 0 /\ turns' = turns - 1
Move == moves > 0 /\ moves' = moves - 1

-----------------------------------------------------------------------------
(* The administrator *)

\* require(): Authenticate read the account and its roles.
Authorise(a) ==
    /\ admin[a].phase = "idle"
    /\ IsAdmin(a)
    /\ admin' = [admin EXCEPT ![a] = [Waiting EXCEPT !.phase = "allowed"]]
    /\ UNCHANGED <<accounts, state, callback, opened, directory, turns, moves>>

Allowed(a) == admin[a].phase = "allowed"
Done(a)    == admin' = [admin EXCEPT ![a] = Waiting]

CreateUser(a, p, wish) ==
    /\ Allowed(a) /\ Turn
    /\ p \notin known /\ p \notin Oidc
    /\ known' = known \cup {p}
    /\ roles' = [roles EXCEPT ![p] = wish]
    /\ hand' = [hand EXCEPT ![p] = wish]
    /\ Done(a)
    /\ UNCHANGED <<active, fresh, closedBy, state, callback, opened, directory, moves>>

\* The administrator's own role is not theirs to take away.
MaySave_anyone(a, p, wish) == TRUE
MaySave(a, p, wish) == p = a => "SYSTEM_ADMIN" \in wish

\* updateUserRoles' DELETE
BeginSave(a, p, wish) ==
    /\ Allowed(a) /\ Turn
    /\ p \in known
    /\ MaySave(a, p, wish)
    /\ admin' = [admin EXCEPT ![a] = [phase |-> "saving", on |-> p, wish |-> wish, unseen |-> {}]]
    /\ UNCHANGED <<accounts, state, callback, opened, directory, moves>>

\* Every save under way for p misses the rows inserted now.
Unseen(p, inserted) ==
    [a \in People |-> IF admin[a].phase = "saving" /\ admin[a].on = p
                      THEN [admin[a] EXCEPT !.unseen = @ \cup inserted] ELSE admin[a]]

\* The INSERTs and the COMMIT; a row that is there already ends in an error.
CommitSave(a) ==
    LET save == admin[a]
        left == roles[save.on] \cap save.unseen
    IN  /\ save.phase = "saving"
        /\ IF save.wish \cap left # {}
           THEN Done(a) /\ UNCHANGED <<roles, hand>>
           ELSE /\ roles' = [roles EXCEPT ![save.on] = left \cup save.wish]
                /\ hand' = [hand EXCEPT ![save.on] = (@ \cap left) \cup save.wish]
                /\ admin' = [Unseen(save.on, save.wish) EXCEPT ![a] = Waiting]
        /\ UNCHANGED <<known, active, fresh, closedBy, state, callback, opened,
                       directory, turns, moves>>

\* setUserActive leaves last_login_at alone.
SetUserActive(a, p, on) ==
    /\ Allowed(a) /\ Turn
    /\ p \in known
    /\ p = a => on
    /\ active' = IF on THEN active \cup {p} ELSE active \ {p}
    /\ closedBy' = [closedBy EXCEPT ![p] = IF on THEN None ELSE "admin"]
    /\ Done(a)
    /\ UNCHANGED <<known, roles, hand, fresh, state, callback, opened, directory, moves>>

\* recoverAdmin, at any time: --unlock opens the account, --grant-admin gives
\* the role, each a statement of its own.
RecoverAdmin(p) ==
    /\ p \in known /\ Turn
    /\ \/ /\ active' = active \cup {p}
          /\ closedBy' = [closedBy EXCEPT ![p] = None]
          /\ UNCHANGED <<roles, hand, admin>>
       \/ /\ roles' = [roles EXCEPT ![p] = @ \cup {"SYSTEM_ADMIN"}]
          /\ hand' = [hand EXCEPT ![p] = @ \cup {"SYSTEM_ADMIN"}]
          /\ admin' = Unseen(p, {"SYSTEM_ADMIN"} \ roles[p])
          /\ UNCHANGED <<active, closedBy>>
    /\ UNCHANGED <<known, fresh, state, callback, opened, directory, moves>>

\* updateSetting with validateSetting's rules for "oidc"
SaveMapping(a, pairs) ==
    /\ Allowed(a) /\ Move
    /\ \A pair \in pairs : pair[2] \in Assignable
    /\ mapping # pairs
    /\ mapping' = pairs
    /\ Done(a)
    /\ UNCHANGED <<accounts, state, callback, opened, member, turns>>

-----------------------------------------------------------------------------
(* Sign-on through the provider *)

BeginOIDC(t) ==
    /\ state[t] = "none"
    /\ state' = [state EXCEPT ![t] = "open"]
    /\ UNCHANGED <<accounts, admin, callback, opened, directory, turns, moves>>

\* AbandonOIDC, or ten minutes and the sweep
EndState(t) ==
    /\ state[t] = "open"
    /\ state' = [state EXCEPT ![t] = "gone"]
    /\ UNCHANGED <<accounts, admin, callback, opened, directory, turns, moves>>

\* CompleteOIDC deletes the row it reads.
After_kept(t) == state
After(t)      == [state EXCEPT ![t] = "gone"]

TakeState(h, t) ==
    /\ callback[h].phase = "idle" /\ state[t] = "open"
    /\ state' = After(t)
    /\ callback' = [callback EXCEPT ![h] = [Resting EXCEPT !.phase = "taken", !.token = t]]
    /\ UNCHANGED <<accounts, admin, opened, directory, turns, moves>>

Abort(h) == callback' = [callback EXCEPT ![h] = Resting]

\* rolesFromGroups
Mapped(p) ==
    LET granted == {pair[2] : pair \in {m \in mapping : m[1] \in member[p]}}
    IN  IF granted = {} THEN {DefaultRole} ELSE granted

\* The provider vouches for p, and the account is looked up.
CheckAccount(h, p) ==
    /\ callback[h].phase = "taken"
    /\ IF p \in known /\ (p \notin Oidc \/ p \notin active) THEN Abort(h)
       ELSE callback' = [callback EXCEPT ![h] =
                           [@ EXCEPT !.phase = "checked", !.who = p, !.existed = p \in known,
                                     !.had = roles[p],
                                     !.mapped = IF mapping = {} THEN {} ELSE Mapped(p)]]
    /\ p \in Oidc \cup known
    /\ UNCHANGED <<accounts, admin, state, opened, directory, turns, moves>>

IsStale(h) ==
    LET p == callback[h].who
    IN  InactiveLock /\ callback[h].existed /\ p \notin fresh /\ callback[h].had \cap Privileged # {}

\* enforceInactiveAdminLock
LockInactive(h) ==
    /\ callback[h].phase = "checked" /\ IsStale(h)
    /\ active' = active \ {callback[h].who}
    /\ closedBy' = [closedBy EXCEPT ![callback[h].who] = "service"]
    /\ Abort(h)
    /\ UNCHANGED <<known, roles, fresh, hand, admin, state, opened, directory,
                   turns, moves>>

\* The UPDATE of an account asks again whether it is active, the callback
\* does not ask what the UPDATE found.  A first sign-on creates the account,
\* unless another one did meanwhile: that INSERT fails.
WriteAccount(h) ==
    LET p == callback[h].who
    IN  /\ callback[h].phase = "checked" /\ ~IsStale(h)
        /\ p \in known => callback[h].existed
        /\ known' = known \cup {p}
        /\ fresh' = IF p \in active THEN fresh \cup {p} ELSE fresh
        /\ callback' = [callback EXCEPT ![h].phase = "written", ![h].had = roles[p]]
        /\ UNCHANGED <<active, roles, hand, closedBy, admin, state, opened, directory,
                       turns, moves>>

\* syncOIDCRoles, or the default role of a first sign-on, and the session
Synced(h) ==
    LET held == roles[callback[h].who]
    IN  IF callback[h].mapped # {}
        THEN (held \ (Assignable \ callback[h].mapped)) \cup (callback[h].mapped \cap Assignable)
        ELSE IF callback[h].had = {} THEN held \cup {DefaultRole} ELSE held

SignIn(h) ==
    LET p == callback[h].who
    IN  /\ callback[h].phase = "written"
        /\ roles' = [roles EXCEPT ![p] = Synced(h)]
        /\ admin' = Unseen(p, Synced(h) \ roles[p])
        /\ opened' = [opened EXCEPT ![callback[h].token] = @ + 1]
        /\ Abort(h)
        /\ UNCHANGED <<known, active, fresh, hand, closedBy, state, directory,
                       turns, moves>>

\* The provider or a statement fails.
Fail(h) ==
    /\ callback[h].phase # "idle"
    /\ Abort(h)
    /\ UNCHANGED <<accounts, admin, state, opened, directory, turns, moves>>

-----------------------------------------------------------------------------
(* The directory and time *)

MoveGroups(p, groups) ==
    /\ Move
    /\ p \in Oidc /\ member[p] # groups
    /\ member' = [member EXCEPT ![p] = groups]
    /\ UNCHANGED <<accounts, admin, state, callback, opened, mapping, turns>>

GrowStale(p) ==
    /\ InactiveLock /\ Move
    /\ p \in fresh \cap Oidc \cap known
    /\ fresh' = fresh \ {p}
    /\ UNCHANGED <<known, active, roles, hand, closedBy, admin, state, callback, opened,
                   directory, turns>>

-----------------------------------------------------------------------------

Administer(a) ==
    \/ Authorise(a) \/ CommitSave(a)
    \/ \E p \in People : (\E wish \in Wishes : CreateUser(a, p, wish) \/ BeginSave(a, p, wish))
                         \/ (\E on \in BOOLEAN : SetUserActive(a, p, on))
    \/ \E pairs \in Mappings : SaveMapping(a, pairs)

SignOn(h) ==
    \/ \E t \in Tokens : TakeState(h, t)
    \/ \E p \in People : CheckAccount(h, p)
    \/ LockInactive(h) \/ WriteAccount(h) \/ SignIn(h) \/ Fail(h)

Next ==
    \/ \E a \in People : Administer(a)
    \/ \E h \in Callbacks : SignOn(h)
    \/ \E t \in Tokens : BeginOIDC(t) \/ EndState(t)
    \/ \E p \in People : RecoverAdmin(p) \/ GrowStale(p)
    \/ \E p \in People, groups \in SUBSET Groups : MoveGroups(p, groups)

\* A request that began is answered.
Fairness ==
    /\ \A a \in People : WF_vars(CommitSave(a))
    /\ \A h \in Callbacks : WF_vars(LockInactive(h) \/ WriteAccount(h) \/ SignIn(h) \/ Fail(h))

Spec == Init /\ [][Next]_vars /\ Fairness

-----------------------------------------------------------------------------
(* Properties *)

\* Every variable holds what the code may put there.
TypeOK ==
    /\ known \subseteq People /\ active \subseteq People
    /\ fresh \subseteq People
    /\ roles \in [People -> SUBSET Roles]
    /\ hand \in [People -> SUBSET Roles]
    /\ closedBy \in [People -> {None, "admin", "service"}]
    /\ admin \in [People -> Request]
    /\ state \in [Tokens -> {"none", "open", "gone"}]
    /\ callback \in [Callbacks -> Callback]
    /\ opened \in [Tokens -> Nat]
    /\ mapping \in SUBSET (Groups \X Roles)
    /\ member \in [People -> SUBSET Groups]
    /\ turns \in 0..MaxTurns /\ moves \in 0..MaxMoves

\* "Administrators stay a deliberate in-app assignment" (auth.go:775): no
\* sign-on grants SYSTEM_ADMIN or takes it away, whatever the mapping says and
\* however it overlaps with a save.
AdministratorsAreMadeByHand ==
    \A p \in People : "SYSTEM_ADMIN" \in roles[p] <=> "SYSTEM_ADMIN" \in hand[p]

\* An administrator cannot leave the service without one: the last goes only
\* when two requests overlapped and the one who acts is no administrator any
\* more, or when the service closes the account (updateUserRoles,
\* setUserActive, enforceInactiveAdminLock).
LastAdministratorStays ==
    [][(\E p \in People : IsAdmin(p)) /\ ~(\E p \in People : IsAdmin(p))' =>
          \/ \E a \in People : admin[a].phase # "idle" /\ ~IsAdmin(a)
          \/ \E p \in People : closedBy[p] # "service" /\ closedBy'[p] = "service"]_vars

\* A sign-on opens one session at most, however often the browser repeats the
\* provider's answer (CompleteOIDC's DELETE ... RETURNING).
SignOnCompletesOnce == \A t \in Tokens : opened[t] <= 1

=============================================================================
