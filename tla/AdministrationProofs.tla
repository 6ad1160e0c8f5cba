------------------------- MODULE AdministrationProofs -------------------------
(***************************************************************************)
(* Proofs about what administrators do in overlapping requests: to roles   *)
(* and accounts (AccountRoles: Spec, vars), and to templates and their     *)
(* versions (TemplateVersions: TemplateSpec, templateVars); and about the  *)
(* rules of a checklist (RuleEngine).  They hold for any people, directory *)
(* and mapping, any items and services, rules of any depth, and any number *)
(* of requests, callbacks and reviews at once.                             *)
(***************************************************************************)
EXTENDS AccountRoles, TemplateVersions, FiniteSetTheorems, SequenceTheorems,
        WellFoundedInduction, TLAPS

Assigned ==
    /\ DOMAIN roles = People /\ DOMAIN hand = People
    /\ AdministratorsAreMadeByHand

(* The browser's sign-on is worth one session: its row, the callback that    *)
(* took the row, or the session.                                             *)
Spent ==
    /\ DOMAIN opened = Tokens /\ DOMAIN state = Tokens /\ DOMAIN callback = Callbacks
    /\ \A h \in Callbacks : DOMAIN callback[h] = DOMAIN Resting
    /\ \A t \in Tokens :
          /\ opened[t] \in {0, 1}
          /\ state[t] # "gone" => opened[t] = 0
    /\ \A h \in Callbacks : callback[h].phase # "idle" =>
          LET t == callback[h].token
          IN  /\ t \in Tokens /\ state[t] = "gone" /\ opened[t] = 0
              /\ \A g \in Callbacks : callback[g].phase # "idle" /\ callback[g].token = t
                                         => g = h

(* A save never takes an administrator's own role, and an account the        *)
(* service closed is closed.                                                 *)
Guarded ==
    /\ DOMAIN admin = People /\ DOMAIN closedBy = People /\ DOMAIN roles = People
    /\ \A a \in People :
          /\ DOMAIN admin[a] = DOMAIN Waiting
          /\ admin[a].phase = "saving" /\ admin[a].on = a => "SYSTEM_ADMIN" \in admin[a].wish
    /\ \A p \in active : closedBy[p] # "service"

-----------------------------------------------------------------------------
(* No step gives or takes SYSTEM_ADMIN unless an administrator's list or the *)
(* command line says so: a save keeps what it did not see as it is, and a    *)
(* sign-on writes assignable roles only.                                     *)
LEMMA AssignedKept ==
    ASSUME Assigned, [Next]_vars
    PROVE  Assigned'
<1> USE DEF Assigned, AdministratorsAreMadeByHand
<1>1. ASSUME UNCHANGED <<roles, hand>>
      PROVE  Assigned'
  BY <1>1
<1>2. ASSUME NEW a \in People, NEW p \in People, NEW wish \in Wishes, CreateUser(a, p, wish)
      PROVE  Assigned'
  BY <1>2 DEF CreateUser
<1>3. ASSUME NEW a \in People, CommitSave(a)
      PROVE  Assigned'
  <2> DEFINE save == admin[a]
             left == roles[save.on] \cap save.unseen
  <2>1. CASE save.wish \cap left # {}
    BY <1>3, <2>1 DEF CommitSave
  <2>2. CASE save.wish \cap left = {}
    <3>1. /\ roles' = [roles EXCEPT ![save.on] = left \cup save.wish]
          /\ hand' = [hand EXCEPT ![save.on] = (@ \cap left) \cup save.wish]
      BY <1>3, <2>2 DEF CommitSave
    <3>2. ASSUME NEW p \in People
          PROVE  "SYSTEM_ADMIN" \in roles'[p] <=> "SYSTEM_ADMIN" \in hand'[p]
      BY <3>1
    <3> QED
      BY <3>1, <3>2
  <2> QED
    BY <2>1, <2>2
<1>4. ASSUME NEW h \in Callbacks, SignIn(h)
      PROVE  Assigned'
  <2> DEFINE p == callback[h].who
  <2>1. "SYSTEM_ADMIN" \notin Assignable /\ DefaultRole # "SYSTEM_ADMIN"
    BY RolesAssumption DEF Assignable
  <2>2. "SYSTEM_ADMIN" \in Synced(h) <=> "SYSTEM_ADMIN" \in roles[p]
    BY <2>1 DEF Synced
  <2>3. roles' = [roles EXCEPT ![p] = Synced(h)] /\ hand' = hand
    BY <1>4 DEF SignIn
  <2> QED
    BY <2>2, <2>3
<1>5. ASSUME NEW p \in People, RecoverAdmin(p)
      PROVE  Assigned'
  BY <1>5 DEF RecoverAdmin
<1>6. ASSUME NEW a \in People, Administer(a)
      PROVE  Assigned'
  <2>1. ASSUME NEW p \in People, NEW wish \in Wishes, BeginSave(a, p, wish)
        PROVE  UNCHANGED <<roles, hand>>
    BY <2>1 DEF BeginSave, accounts
  <2>2. ASSUME NEW p \in People, NEW on \in BOOLEAN, SetUserActive(a, p, on)
        PROVE  UNCHANGED <<roles, hand>>
    BY <2>2 DEF SetUserActive
  <2>3. ASSUME NEW pairs \in Mappings, SaveMapping(a, pairs)
        PROVE  UNCHANGED <<roles, hand>>
    BY <2>3 DEF SaveMapping, accounts
  <2>4. ASSUME Authorise(a)
        PROVE  UNCHANGED <<roles, hand>>
    BY <2>4 DEF Authorise, accounts
  <2> QED
    BY <1>1, <1>2, <1>3, <1>6, <2>1, <2>2, <2>3, <2>4 DEF Administer
<1>7. ASSUME NEW h \in Callbacks, SignOn(h)
      PROVE  Assigned'
  BY <1>1, <1>4, <1>7
     DEF SignOn, TakeState, CheckAccount, LockInactive, WriteAccount, Fail, accounts
<1>8. ASSUME \/ \E t \in Tokens : BeginOIDC(t) \/ EndState(t)
             \/ \E p \in People : GrowStale(p)
             \/ \E p \in People, groups \in SUBSET Groups : MoveGroups(p, groups)
             \/ UNCHANGED vars
      PROVE  Assigned'
  BY <1>1, <1>8 DEF BeginOIDC, EndState, GrowStale, MoveGroups, accounts, vars
<1> QED
  BY <1>5, <1>6, <1>7, <1>8 DEF Next

(* A callback takes the row away with reading it, and opens one session.     *)
LEMMA SpentKept ==
    ASSUME Spent, [Next]_vars
    PROVE  Spent'
<1> USE DEF Spent
<1>1. ASSUME UNCHANGED <<opened, state, callback>>
      PROVE  Spent'
  BY <1>1
<1>2. ASSUME NEW h \in Callbacks, NEW t \in Tokens, TakeState(h, t)
      PROVE  Spent'
  <2>1. /\ state[t] = "open" /\ state' = [state EXCEPT ![t] = "gone"]
        /\ opened' = opened
        /\ callback[h].phase = "idle"
        /\ \A g \in Callbacks : g # h => callback'[g] = callback[g]
        /\ callback'[h].phase = "taken" /\ callback'[h].token = t
        /\ DOMAIN callback' = Callbacks /\ DOMAIN callback'[h] = DOMAIN Resting
    BY <1>2 DEF TakeState, After, Resting
  <2> QED
    BY <2>1
<1>3. ASSUME NEW h \in Callbacks, LockInactive(h) \/ WriteAccount(h) \/ Fail(h)
                                    \/ \E p \in People : CheckAccount(h, p)
      PROVE  Spent'
  <2> DEFINE Goes ==
        /\ UNCHANGED <<opened, state>> /\ DOMAIN callback' = Callbacks
        /\ callback[h].phase # "idle"
        /\ \A g \in Callbacks : g # h => callback'[g] = callback[g]
        /\ callback'[h].phase = "idle" \/ callback'[h].token = callback[h].token
        /\ DOMAIN callback'[h] = DOMAIN Resting
  <2>1. Goes
    <3>1. CASE LockInactive(h) \/ Fail(h)
      BY <3>1 DEF LockInactive, Fail, Abort, Resting
    <3>2. CASE WriteAccount(h)
      BY <3>2 DEF WriteAccount, Resting
    <3>3. ASSUME NEW p \in People, CheckAccount(h, p)
          PROVE  Goes
      <4>1. callback[h].phase = "taken"
        BY <3>3 DEF CheckAccount
      <4>2. CASE callback' = [callback EXCEPT ![h] = Resting]
        BY <3>3, <4>1, <4>2 DEF CheckAccount, Resting
      <4>3. CASE callback' # [callback EXCEPT ![h] = Resting]
        <5> DEFINE mapped == IF mapping = {} THEN {} ELSE Mapped(p)
        <5>1. callback' = [callback EXCEPT ![h] =
                [@ EXCEPT !.phase = "checked", !.who = p, !.existed = p \in known,
                          !.had = roles[p], !.mapped = mapped]]
          BY <3>3, <4>3 DEF CheckAccount, Abort
        <5> HIDE DEF mapped
        <5>2. UNCHANGED <<opened, state>>
          BY <3>3 DEF CheckAccount
        <5> QED
          BY <4>1, <5>1, <5>2 DEF Resting
      <4> QED
        BY <4>2, <4>3
    <3> QED
      BY <1>3, <3>1, <3>2, <3>3
  <2> QED
    BY <2>1
<1>4. ASSUME NEW h \in Callbacks, SignIn(h)
      PROVE  Spent'
  <2>1. /\ state' = state /\ DOMAIN callback' = Callbacks
        /\ callback[h].phase # "idle"
        /\ \A g \in Callbacks : g # h => callback'[g] = callback[g]
        /\ callback'[h].phase = "idle"
        /\ DOMAIN callback'[h] = DOMAIN Resting
        /\ opened' = [opened EXCEPT ![callback[h].token] = @ + 1]
    BY <1>4 DEF SignIn, Abort, Resting
  <2> QED
    BY <2>1
<1>5. ASSUME NEW t \in Tokens, BeginOIDC(t) \/ EndState(t)
      PROVE  Spent'
  BY <1>5 DEF BeginOIDC, EndState
<1>6. ASSUME NEW h \in Callbacks, SignOn(h)
      PROVE  Spent'
  BY <1>2, <1>3, <1>4, <1>6 DEF SignOn
<1>7. ASSUME \/ \E a \in People : Administer(a)
             \/ \E p \in People : RecoverAdmin(p) \/ GrowStale(p)
             \/ \E p \in People, groups \in SUBSET Groups : MoveGroups(p, groups)
             \/ UNCHANGED vars
      PROVE  Spent'
  <2>1. ASSUME NEW a \in People, Administer(a)
        PROVE  UNCHANGED <<opened, state, callback>>
    BY <2>1 DEF Administer, Authorise, CommitSave, CreateUser, BeginSave, SetUserActive, SaveMapping
  <2>2. ASSUME NEW p \in People, RecoverAdmin(p) \/ GrowStale(p)
        PROVE  UNCHANGED <<opened, state, callback>>
    BY <2>2 DEF RecoverAdmin, GrowStale
  <2>3. ASSUME NEW p \in People, NEW groups \in SUBSET Groups, MoveGroups(p, groups)
        PROVE  UNCHANGED <<opened, state, callback>>
    BY <2>3 DEF MoveGroups
  <2>4. ASSUME UNCHANGED vars
        PROVE  UNCHANGED <<opened, state, callback>>
    BY <2>4 DEF vars
  <2> QED
    BY <1>1, <1>7, <2>1, <2>2, <2>3, <2>4
<1> QED
  BY <1>5, <1>6, <1>7 DEF Next

(* What the saves missed is noted, and nothing else of them changes.         *)
LEMMA UnseenKeeps ==
    ASSUME Guarded, NEW p, NEW inserted
    PROVE  /\ DOMAIN Unseen(p, inserted) = People
           /\ \A a \in People :
                 /\ DOMAIN Unseen(p, inserted)[a] = DOMAIN Waiting
                 /\ Unseen(p, inserted)[a].phase = admin[a].phase
                 /\ Unseen(p, inserted)[a].on = admin[a].on
                 /\ Unseen(p, inserted)[a].wish = admin[a].wish
BY DEF Unseen, Guarded, Waiting

(* Whoever saves keeps their own role, and only the service's lock writes    *)
(* "service".                                                                *)
LEMMA GuardedKept ==
    ASSUME Guarded, [Next]_vars
    PROVE  Guarded'
<1>1. ASSUME UNCHANGED <<admin, closedBy, active>>, DOMAIN roles' = People
      PROVE  Guarded'
  BY <1>1 DEF Guarded
<1>2. ASSUME NEW a \in People, Administer(a)
      PROVE  Guarded'
  <2>1. CASE Authorise(a)
    BY <2>1 DEF Guarded, Authorise, accounts, Waiting
  <2>2. CASE CommitSave(a)
    <3>1. UNCHANGED <<closedBy, active>> /\ DOMAIN roles' = People
      BY <2>2 DEF CommitSave, Guarded
    <3>2. \/ admin' = [admin EXCEPT ![a] = Waiting]
          \/ admin' = [Unseen(admin[a].on, admin[a].wish) EXCEPT ![a] = Waiting]
      BY <2>2 DEF CommitSave, Done
    <3> QED
      BY <3>1, <3>2, UnseenKeeps DEF Guarded, Waiting
  <2>3. ASSUME NEW p \in People, NEW wish \in Wishes, CreateUser(a, p, wish)
        PROVE  Guarded'
    BY <2>3 DEF Guarded, CreateUser, Done, Waiting
  <2>4. ASSUME NEW p \in People, NEW wish \in Wishes, BeginSave(a, p, wish)
        PROVE  Guarded'
    BY <2>4 DEF Guarded, BeginSave, MaySave, accounts, Waiting
  <2>5. ASSUME NEW p \in People, NEW on \in BOOLEAN, SetUserActive(a, p, on)
        PROVE  Guarded'
    <3>1. \A q \in active' : closedBy'[q] # "service"
      BY <2>5, RolesAssumption DEF Guarded, SetUserActive
    <3> QED
      BY <2>5, <3>1 DEF Guarded, SetUserActive, Done, Waiting
  <2>6. ASSUME NEW pairs \in Mappings, SaveMapping(a, pairs)
        PROVE  Guarded'
    BY <2>6 DEF Guarded, SaveMapping, Done, accounts, Waiting
  <2> QED
    BY <1>2, <2>1, <2>2, <2>3, <2>4, <2>5, <2>6 DEF Administer
<1>3. ASSUME NEW h \in Callbacks, SignOn(h)
      PROVE  Guarded'
  <2>1. CASE LockInactive(h)
    BY <2>1 DEF Guarded, LockInactive
  <2>2. CASE SignIn(h)
    <3>1. /\ UNCHANGED <<closedBy, active>> /\ DOMAIN roles' = People
          /\ admin' = Unseen(callback[h].who, Synced(h) \ roles[callback[h].who])
      BY <2>2 DEF SignIn, Guarded
    <3> QED
      BY <3>1, UnseenKeeps DEF Guarded
  <2> QED
    BY <1>1, <1>3, <2>1, <2>2
       DEF Guarded, SignOn, TakeState, CheckAccount, WriteAccount, Fail, accounts
<1>4. ASSUME NEW p \in People, RecoverAdmin(p)
      PROVE  Guarded'
  <2>1. CASE UNCHANGED <<roles, hand, admin>>
    <3>1. \A q \in active' : closedBy'[q] # "service"
      <4>1. CASE UNCHANGED <<active, closedBy>>
        BY <4>1 DEF Guarded
      <4>2. CASE active' = active \cup {p} /\ closedBy' = [closedBy EXCEPT ![p] = None]
        BY <4>2, RolesAssumption DEF Guarded
      <4> QED
        BY <1>4, <4>1, <4>2 DEF RecoverAdmin
    <3>2. DOMAIN closedBy' = People
      BY <1>4 DEF Guarded, RecoverAdmin
    <3> QED
      BY <2>1, <3>1, <3>2 DEF Guarded
  <2>2. CASE ~ UNCHANGED <<roles, hand, admin>>
    <3>1. /\ UNCHANGED <<active, closedBy>> /\ DOMAIN roles' = People
          /\ admin' = Unseen(p, {"SYSTEM_ADMIN"} \ roles[p])
      BY <1>4, <2>2 DEF Guarded, RecoverAdmin
    <3> QED
      BY <3>1, UnseenKeeps DEF Guarded
  <2> QED
    BY <2>1, <2>2
<1>5. ASSUME \/ \E t \in Tokens : BeginOIDC(t) \/ EndState(t)
             \/ \E p \in People : GrowStale(p)
             \/ \E p \in People, groups \in SUBSET Groups : MoveGroups(p, groups)
             \/ UNCHANGED vars
      PROVE  Guarded'
  BY <1>1, <1>5 DEF Guarded, BeginOIDC, EndState, GrowStale, MoveGroups, accounts, vars
<1> QED
  BY <1>2, <1>3, <1>4, <1>5 DEF Next

(* Where the last administrator goes, the one who acts was none any more, or *)
(* the service locked an account nobody used.                                *)
LEMMA LastGoes ==
    ASSUME Guarded, [Next]_vars, \E p \in People : IsAdmin(p), ~\E p \in People : IsAdmin(p)'
    PROVE  \/ \E a \in People : admin[a].phase # "idle" /\ ~IsAdmin(a)
           \/ \E p \in People : closedBy[p] # "service" /\ closedBy'[p] = "service"
<1>1. ASSUME UNCHANGED <<active, roles>>, known \subseteq known'
      PROVE  FALSE
  BY <1>1 DEF IsAdmin
<1>2. ASSUME NEW a \in People, Administer(a)
      PROVE  admin[a].phase # "idle" /\ ~IsAdmin(a)
  <2>1. CASE CommitSave(a)
    <3>1. admin[a].phase = "saving" /\ UNCHANGED <<known, active>>
      BY <2>1 DEF CommitSave
    <3>2. roles' # roles
      BY <1>1, <3>1
    <3>3. roles' = [roles EXCEPT ![admin[a].on] =
                       (roles[admin[a].on] \cap admin[a].unseen) \cup admin[a].wish]
      BY <2>1, <3>2 DEF CommitSave
    <3>4. CASE admin[a].on = a
      <4>1. "SYSTEM_ADMIN" \in roles'[a]
        BY <3>1, <3>3, <3>4 DEF Guarded
      <4> QED
        BY <3>1, <4>1 DEF IsAdmin
    <3>5. CASE admin[a].on # a
      <4>1. roles'[a] = roles[a]
        BY <3>3, <3>5
      <4> QED
        BY <3>1, <4>1 DEF IsAdmin
    <3> QED
      BY <3>4, <3>5
  <2>2. ASSUME NEW p \in People, NEW on \in BOOLEAN, SetUserActive(a, p, on)
        PROVE  admin[a].phase # "idle" /\ ~IsAdmin(a)
    <3>1. admin[a].phase # "idle" /\ UNCHANGED <<known, roles>>
      BY <2>2 DEF SetUserActive, Allowed
    <3>2. a \in active => a \in active'
      BY <2>2 DEF SetUserActive
    <3> QED
      BY <3>1, <3>2 DEF IsAdmin
  <2>3. ASSUME NEW p \in People, NEW wish \in Wishes, CreateUser(a, p, wish)
        PROVE  FALSE
    <3>1. /\ p \notin known /\ known \subseteq known' /\ active' = active
          /\ \A q \in People \ {p} : roles'[q] = roles[q]
      BY <2>3 DEF CreateUser, Guarded
    <3> QED
      BY <3>1 DEF IsAdmin
  <2> QED
    BY <1>1, <1>2, <2>1, <2>2, <2>3 DEF Administer, Authorise, BeginSave, SaveMapping, accounts
<1>3. ASSUME NEW h \in Callbacks, SignOn(h)
      PROVE  \E p \in People : closedBy[p] # "service" /\ closedBy'[p] = "service"
  <2>1. CASE LockInactive(h)
    <3>1. /\ UNCHANGED <<known, roles>> /\ active' = active \ {callback[h].who}
          /\ closedBy' = [closedBy EXCEPT ![callback[h].who] = "service"]
      BY <2>1 DEF LockInactive
    <3>2. callback[h].who \in People \cap active
      BY <3>1 DEF IsAdmin
    <3> QED
      BY <3>1, <3>2 DEF Guarded
  <2>2. CASE SignIn(h)
    <3>1. "SYSTEM_ADMIN" \notin Assignable
      BY DEF Assignable
    <3>2. "SYSTEM_ADMIN" \in roles[callback[h].who] => "SYSTEM_ADMIN" \in Synced(h)
      BY <3>1 DEF Synced
    <3>3. /\ UNCHANGED <<known, active>>
          /\ roles' = [roles EXCEPT ![callback[h].who] = Synced(h)]
      BY <2>2 DEF SignIn
    <3>4. \A p \in People : "SYSTEM_ADMIN" \in roles[p] => "SYSTEM_ADMIN" \in roles'[p]
      BY <3>2, <3>3 DEF Guarded
    <3> QED
      BY <3>3, <3>4 DEF IsAdmin
  <2> QED
    BY <1>1, <1>3, <2>1, <2>2 DEF SignOn, TakeState, CheckAccount, WriteAccount, Fail, accounts
<1>4. ASSUME NEW p \in People, RecoverAdmin(p)
      PROVE  FALSE
  <2>1. DOMAIN roles = People /\ known' = known /\ active \subseteq active'
    BY <1>4 DEF RecoverAdmin, Guarded
  <2>2. \A q \in People : "SYSTEM_ADMIN" \in roles[q] => "SYSTEM_ADMIN" \in roles'[q]
    BY <1>4, <2>1 DEF RecoverAdmin
  <2> QED
    BY <2>1, <2>2 DEF IsAdmin
<1>5. ASSUME \/ \E t \in Tokens : BeginOIDC(t) \/ EndState(t)
             \/ \E p \in People : GrowStale(p)
             \/ \E p \in People, groups \in SUBSET Groups : MoveGroups(p, groups)
             \/ UNCHANGED vars
      PROVE  FALSE
  BY <1>1, <1>5 DEF BeginOIDC, EndState, GrowStale, MoveGroups, accounts, vars
<1> QED
  BY <1>2, <1>3, <1>4, <1>5 DEF Next

-----------------------------------------------------------------------------
(* "Administrators stay a deliberate in-app assignment": for every mapping   *)
(* and however sign-ons and saves overlap.                                   *)
THEOREM AdministratorsTold == Spec => []AdministratorsAreMadeByHand
<1>1. Init => Assigned
  BY DEF Init, Assigned, AdministratorsAreMadeByHand
<1>2. Assigned => AdministratorsAreMadeByHand
  BY DEF Assigned
<1> QED
  BY <1>1, <1>2, AssignedKept, PTL DEF Spec

(* A sign-on opens one session at most, however often its answer is sent.    *)
THEOREM SignOnTold == Spec => []SignOnCompletesOnce
<1>1. Init => Spent
  BY DEF Init, Spent, Resting
<1>2. Spent => SignOnCompletesOnce
  BY DEF Spent, SignOnCompletesOnce
<1> QED
  BY <1>1, <1>2, SpentKept, PTL DEF Spec

(* No administrator can leave the service without one, neither with a save   *)
(* of roles nor by closing an account: the last goes only where two requests *)
(* overlapped, or with the lock of unused accounts (updateUserRoles,         *)
(* setUserActive, enforceInactiveAdminLock).                                 *)
THEOREM LastAdministratorTold == Spec => LastAdministratorStays
<1>1. Init => Guarded
  BY RolesAssumption DEF Init, Guarded, Waiting
<1>2. Guarded /\ [Next]_vars
         => [(\E p \in People : IsAdmin(p)) /\ ~(\E p \in People : IsAdmin(p))' =>
                \/ \E a \in People : admin[a].phase # "idle" /\ ~IsAdmin(a)
                \/ \E p \in People : closedBy[p] # "service" /\ closedBy'[p] = "service"]_vars
  BY LastGoes
<1> QED
  BY <1>1, <1>2, GuardedKept, PTL DEF Spec, LastAdministratorStays

-----------------------------------------------------------------------------
(* Accounts, requests, callbacks and the directory; what a request or a      *)
(* callback is about is there once it is needed.                             *)
RolesKnown ==
    /\ known \subseteq People /\ active \subseteq People /\ fresh \subseteq People
    /\ roles \in [People -> SUBSET Roles] /\ hand \in [People -> SUBSET Roles]
    /\ closedBy \in [People -> {None, "admin", "service"}]

AdminFits(r) == r \in Request /\ (r.phase = "saving" => r.on \in People)
CallFits(c) ==
    /\ c \in Callback
    /\ c.phase # "idle" => c.token \in Tokens
    /\ c.phase \in {"checked", "written"} => c.who \in People

DirectoryTyped ==
    /\ state \in [Tokens -> {"none", "open", "gone"}] /\ opened \in [Tokens -> Nat]
    /\ mapping \in SUBSET (Groups \X Roles) /\ member \in [People -> SUBSET Groups]
    /\ turns \in 0..MaxTurns /\ moves \in 0..MaxMoves

RolesInv ==
    /\ RolesKnown /\ DirectoryTyped
    /\ DOMAIN admin = People /\ admin = [a \in People |-> admin[a]]
    /\ \A a \in People : AdminFits(admin[a])
    /\ DOMAIN callback = Callbacks /\ callback = [h \in Callbacks |-> callback[h]]
    /\ \A h \in Callbacks : CallFits(callback[h])

(* Nothing under way fits.                                                  *)
LEMMA WaitingFits == AdminFits(Waiting) /\ CallFits(Resting)
  BY DEF AdminFits, CallFits, Waiting, Resting, Request, Callback

(* A step that is counted leaves a number of them.                           *)
LEMMA TurnsLeft ==
    ASSUME DirectoryTyped
    PROVE  /\ Turn => turns' \in 0..MaxTurns
           /\ Move => moves' \in 0..MaxMoves
  BY RolesAssumption DEF DirectoryTyped, Turn, Move

(* Where other saves learn of what was inserted.                             *)
LEMMA UnseenFits ==
    ASSUME RolesInv, NEW p, NEW inserted \in SUBSET Roles
    PROVE  /\ DOMAIN Unseen(p, inserted) = People
           /\ \A a \in People : AdminFits(Unseen(p, inserted)[a])
<1>1. ASSUME NEW a \in People PROVE AdminFits([admin[a] EXCEPT !.unseen = @ \cup inserted])
  <2>1. PICK r \in Request : r = admin[a] /\ AdminFits(r)
    BY DEF RolesInv, AdminFits
  <2>2. [r EXCEPT !.unseen = @ \cup inserted] \in Request
        /\ [r EXCEPT !.unseen = @ \cup inserted].phase = r.phase
        /\ [r EXCEPT !.unseen = @ \cup inserted].on = r.on
    BY DEF Request
  <2> QED
    BY <2>1, <2>2 DEF AdminFits
<1> QED
  BY <1>1 DEF Unseen, RolesInv

(* An administrator's request.                                               *)
LEMMA AdminSteps ==
    ASSUME RolesInv, NEW a \in People, Administer(a)
    PROVE  RolesInv'
<1>0. /\ AdminFits(Waiting) /\ AdminFits(admin[a])
  BY WaitingFits DEF RolesInv
<1>1. ASSUME Authorise(a) PROVE RolesInv'
  <2>1. AdminFits([Waiting EXCEPT !.phase = "allowed"])
    BY DEF AdminFits, Waiting, Request
  <2>2. /\ admin' = [admin EXCEPT ![a] = [Waiting EXCEPT !.phase = "allowed"]]
        /\ UNCHANGED <<accounts, state, callback, opened, directory, turns, moves>>
    BY <1>1 DEF Authorise
  <2> QED
    BY <2>1, <2>2 DEF RolesInv, RolesKnown, DirectoryTyped, accounts, directory
<1>2. ASSUME NEW p \in People, NEW wish \in Wishes, CreateUser(a, p, wish) PROVE RolesInv'
  <2>1. wish \in SUBSET Roles
    BY RolesAssumption
  <2>2. turns' \in 0..MaxTurns
    BY <1>2, TurnsLeft DEF CreateUser, RolesInv
  <2> QED
    BY <1>0, <1>2, <2>1, <2>2 DEF CreateUser, Done, RolesInv, RolesKnown, DirectoryTyped, directory
<1>3. ASSUME NEW p \in People, NEW wish \in Wishes, BeginSave(a, p, wish) PROVE RolesInv'
  <2>1. AdminFits([phase |-> "saving", on |-> p, wish |-> wish, unseen |-> {}])
    BY RolesAssumption DEF AdminFits, Request
  <2>2. turns' \in 0..MaxTurns
    BY <1>3, TurnsLeft DEF BeginSave, RolesInv
  <2> QED
    BY <1>3, <2>1, <2>2 DEF BeginSave, RolesInv, RolesKnown, DirectoryTyped, directory, accounts
<1>4. ASSUME CommitSave(a) PROVE RolesInv'
  <2> DEFINE save == admin[a]
             left == roles[save.on] \cap save.unseen
  <2>1. save.phase = "saving" /\ save.on \in People /\ save.wish \in SUBSET Roles
    BY <1>0, <1>4 DEF CommitSave, AdminFits, Request
  <2>2. CASE save.wish \cap left # {}
    BY <1>0, <1>4, <2>2 DEF CommitSave, Done, RolesInv, RolesKnown, DirectoryTyped, directory
  <2>3. CASE save.wish \cap left = {}
    <3>1. roles' = [roles EXCEPT ![save.on] = left \cup save.wish]
          /\ hand' = [hand EXCEPT ![save.on] = (@ \cap left) \cup save.wish]
          /\ admin' = [Unseen(save.on, save.wish) EXCEPT ![a] = Waiting]
      BY <1>4, <2>3 DEF CommitSave
    <3>2. roles' \in [People -> SUBSET Roles] /\ hand' \in [People -> SUBSET Roles]
      BY <2>1, <3>1 DEF RolesInv, RolesKnown
    <3>3. /\ DOMAIN Unseen(save.on, save.wish) = People
          /\ \A b \in People : AdminFits(Unseen(save.on, save.wish)[b])
      BY <2>1, UnseenFits
    <3>4. DOMAIN admin' = People /\ admin' = [b \in People |-> admin'[b]]
          /\ \A b \in People : AdminFits(admin'[b])
      BY <1>0, <3>1, <3>3
    <3> QED
      BY <1>4, <3>2, <3>4 DEF CommitSave, RolesInv, RolesKnown, DirectoryTyped, directory
  <2> QED
    BY <2>2, <2>3
<1>5. ASSUME NEW p \in People, NEW on \in BOOLEAN, SetUserActive(a, p, on) PROVE RolesInv'
  <2>1. turns' \in 0..MaxTurns
    BY <1>5, TurnsLeft DEF SetUserActive, RolesInv
  <2> QED
    BY <1>0, <1>5, <2>1 DEF SetUserActive, Done, RolesInv, RolesKnown, DirectoryTyped, directory
<1>6. ASSUME NEW pairs \in Mappings, SaveMapping(a, pairs) PROVE RolesInv'
  <2>1. moves' \in 0..MaxMoves /\ pairs \in SUBSET (Groups \X Roles)
    BY <1>6, TurnsLeft, RolesAssumption DEF SaveMapping, RolesInv
  <2> QED
    BY <1>0, <1>6, <2>1 DEF SaveMapping, Done, RolesInv, RolesKnown, DirectoryTyped, accounts
<1> QED
  BY <1>1, <1>2, <1>3, <1>4, <1>5, <1>6 DEF Administer

(* A sign-on.                                                                *)
LEMMA SignOnSteps ==
    ASSUME RolesInv, NEW h \in Callbacks, SignOn(h)
    PROVE  RolesInv'
<1>0. CallFits(Resting) /\ CallFits(callback[h])
  BY WaitingFits DEF RolesInv
<1>1. ASSUME NEW t \in Tokens, TakeState(h, t) PROVE RolesInv'
  <2>1. CallFits([Resting EXCEPT !.phase = "taken", !.token = t])
    BY DEF CallFits, Resting, Callback
  <2> QED
    BY <1>1, <2>1 DEF TakeState, After, RolesInv, RolesKnown, DirectoryTyped, accounts, directory
<1>2. ASSUME NEW p \in People, CheckAccount(h, p) PROVE RolesInv'
  <2>1. Mapped(p) \in SUBSET Roles
    BY RolesAssumption DEF Mapped, RolesInv, DirectoryTyped
  <2>2. roles[p] \in SUBSET Roles
    BY DEF RolesInv, RolesKnown
  <2> DEFINE checked(existed, had, mapped) ==
        [callback[h] EXCEPT !.phase = "checked", !.who = p, !.existed = existed,
                            !.had = had, !.mapped = mapped]
  <2>3. ASSUME callback[h].phase = "taken", NEW existed \in BOOLEAN, NEW had \in SUBSET Roles,
               NEW mapped \in SUBSET Roles
        PROVE  CallFits(checked(existed, had, mapped))
    <3>1. PICK c \in Callback : c = callback[h] /\ c.token \in Tokens
      BY <1>0, <2>3 DEF CallFits
    <3>2. /\ checked(existed, had, mapped) \in Callback
          /\ checked(existed, had, mapped).token = c.token
          /\ checked(existed, had, mapped).who = p
      BY <3>1 DEF Callback
    <3> QED
      BY <3>1, <3>2 DEF CallFits, Callback
  <2> DEFINE mapped == IF mapping = {} THEN {} ELSE Mapped(p)
  <2>4. CallFits(checked(p \in known, roles[p], mapped))
    <3>1. /\ callback[h].phase = "taken" /\ (p \in known) \in BOOLEAN
          /\ mapped \in SUBSET Roles
      BY <1>2, <2>1 DEF CheckAccount
    <3> HIDE DEF checked, mapped
    <3> QED
      BY <2>2, <2>3, <3>1
  <2>5. \/ callback' = [callback EXCEPT ![h] = Resting]
        \/ callback' = [callback EXCEPT ![h] = checked(p \in known, roles[p], mapped)]
    BY <1>2 DEF CheckAccount, Abort
  <2>6. UNCHANGED <<accounts, admin, state, opened, directory, turns, moves>>
    BY <1>2 DEF CheckAccount
  <2> HIDE DEF checked
  <2> QED
    BY <1>0, <2>4, <2>5, <2>6 DEF RolesInv, RolesKnown, DirectoryTyped, accounts, directory
<1>3. ASSUME LockInactive(h) PROVE RolesInv'
  <2>1. callback[h].who \in People
    BY <1>0, <1>3 DEF LockInactive, CallFits
  <2> QED
    BY <1>0, <1>3, <2>1 DEF LockInactive, Abort, RolesInv, RolesKnown, DirectoryTyped, directory
<1>4. ASSUME WriteAccount(h) PROVE RolesInv'
  <2>1. callback[h].who \in People /\ callback[h].phase = "checked"
    BY <1>0, <1>4 DEF WriteAccount, CallFits
  <2> DEFINE p == callback[h].who
             c == [callback[h] EXCEPT !.phase = "written", !.had = roles[p]]
  <2>2. roles[p] \in SUBSET Roles
    BY <2>1 DEF RolesInv, RolesKnown
  <2>3. CallFits(c)
    BY <1>0, <2>1, <2>2 DEF CallFits, Callback
  <2>4. callback' = [callback EXCEPT ![h] = c]
    BY <1>4 DEF WriteAccount
  <2> HIDE DEF c
  <2> QED
    BY <1>4, <2>1, <2>3, <2>4 DEF WriteAccount, RolesInv, RolesKnown, DirectoryTyped, directory
<1>5. ASSUME SignIn(h) PROVE RolesInv'
  <2> DEFINE p == callback[h].who
  <2>1. p \in People /\ callback[h].token \in Tokens
    BY <1>0, <1>5 DEF SignIn, CallFits
  <2>2. Synced(h) \in SUBSET Roles
    BY <1>0, <2>1, RolesAssumption DEF Synced, RolesInv, RolesKnown, CallFits, Callback
  <2>3. /\ DOMAIN Unseen(p, Synced(h) \ roles[p]) = People
        /\ \A b \in People : AdminFits(Unseen(p, Synced(h) \ roles[p])[b])
    BY <2>2, UnseenFits
  <2>4. admin' = Unseen(p, Synced(h) \ roles[p]) /\ admin' = [b \in People |-> admin'[b]]
    BY <1>5 DEF SignIn, Unseen
  <2>5. opened' \in [Tokens -> Nat]
    BY <1>5, <2>1 DEF SignIn, RolesInv, DirectoryTyped
  <2>6. roles' \in [People -> SUBSET Roles]
    BY <1>5, <2>1, <2>2 DEF SignIn, RolesInv, RolesKnown
  <2>7. /\ callback' = [callback EXCEPT ![h] = Resting]
        /\ UNCHANGED <<known, active, fresh, hand, closedBy, state, directory, turns, moves>>
    BY <1>5 DEF SignIn, Abort
  <2>8. RolesKnown' /\ DirectoryTyped'
    BY <2>5, <2>6, <2>7 DEF RolesInv, RolesKnown, DirectoryTyped, directory
  <2>9. /\ DOMAIN admin' = People /\ \A b \in People : AdminFits(admin'[b])
    BY <2>3, <2>4
  <2> HIDE DEF p
  <2> QED
    BY <1>0, <2>4, <2>7, <2>8, <2>9 DEF RolesInv
<1>6. ASSUME Fail(h) PROVE RolesInv'
  BY <1>0, <1>6 DEF Fail, Abort, RolesInv, RolesKnown, DirectoryTyped, accounts, directory
<1> QED
  BY <1>1, <1>2, <1>3, <1>4, <1>5, <1>6 DEF SignOn

(* So every step.                                                            *)
LEMMA RolesKept == RolesInv /\ [Next]_vars => RolesInv'
<1> SUFFICES ASSUME RolesInv, [Next]_vars PROVE RolesInv'
  OBVIOUS
<1>1. ASSUME NEW t \in Tokens, BeginOIDC(t) \/ EndState(t) PROVE RolesInv'
  BY <1>1 DEF BeginOIDC, EndState, RolesInv, RolesKnown, DirectoryTyped, accounts, directory
<1>2. ASSUME NEW p \in People, RecoverAdmin(p) PROVE RolesInv'
  <2>1. {"SYSTEM_ADMIN"} \ roles[p] \in SUBSET Roles
    BY RolesAssumption
  <2>2. /\ DOMAIN Unseen(p, {"SYSTEM_ADMIN"} \ roles[p]) = People
        /\ \A b \in People : AdminFits(Unseen(p, {"SYSTEM_ADMIN"} \ roles[p])[b])
    BY <2>1, UnseenFits
  <2>3. \/ UNCHANGED admin
        \/ /\ admin' = Unseen(p, {"SYSTEM_ADMIN"} \ roles[p])
           /\ admin' = [b \in People |-> admin'[b]]
    BY <1>2 DEF RecoverAdmin, Unseen
  <2>4. turns' \in 0..MaxTurns
    BY <1>2, TurnsLeft DEF RecoverAdmin, RolesInv
  <2>5. RolesKnown'
    BY <1>2, RolesAssumption DEF RecoverAdmin, RolesInv, RolesKnown
  <2> QED
    BY <1>2, <2>2, <2>3, <2>4, <2>5 DEF RecoverAdmin, RolesInv, DirectoryTyped, directory
<1>3. ASSUME NEW p \in People, GrowStale(p) PROVE RolesInv'
  <2>1. moves' \in 0..MaxMoves
    BY <1>3, TurnsLeft DEF GrowStale, RolesInv
  <2> QED
    BY <1>3, <2>1 DEF GrowStale, RolesInv, RolesKnown, DirectoryTyped, directory
<1>4. ASSUME NEW p \in People, NEW groups \in SUBSET Groups, MoveGroups(p, groups) PROVE RolesInv'
  <2>1. moves' \in 0..MaxMoves
    BY <1>4, TurnsLeft DEF MoveGroups, RolesInv
  <2> QED
    BY <1>4, <2>1 DEF MoveGroups, RolesInv, RolesKnown, DirectoryTyped, accounts
<1>5. ASSUME UNCHANGED vars PROVE RolesInv'
  BY <1>5 DEF vars, RolesInv, RolesKnown, DirectoryTyped, accounts, directory
<1> QED
  BY <1>1, <1>2, <1>3, <1>4, <1>5, AdminSteps, SignOnSteps DEF Next

(* The founders' accounts are there at first.                                *)
LEMMA RolesFirst == Init => RolesInv
<1> SUFFICES ASSUME Init PROVE RolesInv
  OBVIOUS
<1>1. RolesKnown
  BY RolesAssumption DEF Init, RolesKnown
<1>2. DirectoryTyped
  BY RolesAssumption DEF Init, DirectoryTyped
<1> QED
  BY <1>1, <1>2, WaitingFits DEF Init, RolesInv

(* Accounts, roles, requests, callbacks, sign-ons and the directory are what *)
(* their columns and variables can hold; no role is stored that does not     *)
(* exist, whatever the mapping grants (updateUserRoles, syncOIDCRoles).      *)
THEOREM AccountTypesTold == Spec => []TypeOK
<1>1. RolesInv => TypeOK
  BY DEF RolesInv, RolesKnown, DirectoryTyped, AdminFits, CallFits, TypeOK
<1> QED
  BY RolesFirst, RolesKept, <1>1, PTL DEF Spec

-----------------------------------------------------------------------------
(* Templates and their versions                                              *)

Change == [before : SUBSET Item, after : SUBSET Item]
Doings == {"nothing", "add", "count", "inspect", "retire", "delete"}
Question == [doing : Doings, at : 0..NVersions, on : 0..NTemplates, item : SUBSET Item,
             overtaken : BOOLEAN]
Snapshot == [made : BOOLEAN, given : [Templates -> 0..NVersions],
             items : SUBSET [version : Versions, item : Item]]

TemplatesTyped ==
    /\ template \in [Templates -> {"none", "active", "inactive", "deleted"}]
    /\ of \in [Versions -> 0..NTemplates]
    /\ status \in [Versions -> {"none", "DRAFT", "PUBLISHED", "RETIRED", "deleted"}]
    /\ published \in [Versions -> Nat]
    /\ items \in [Versions -> SUBSET Item]
    /\ base \in [Versions -> SUBSET Item]
    /\ changes \in [Versions -> Seq(Change)]
    /\ held \in [Reviews -> Snapshot]
    /\ request \in [Editors -> Question]
    /\ overlapped \subseteq Templates

(* A version is empty before it is made; once made it has a template, and a  *)
(* template has a version.  A request goes on acting on what it asked about. *)
Asked(q) ==
    /\ q.doing \in {"add", "count", "inspect", "retire"} =>
          q.at \in Versions /\ of[q.at] # 0 /\ q.on = of[q.at]
    /\ q.doing = "delete" => q.on \in Templates /\ template[q.on] # "none"

Placed ==
    /\ \A v \in Versions :
          /\ of[v] = 0 => status[v] = "none" /\ items[v] = {} /\ changes[v] = <<>>
          /\ of[v] # 0 => template[of[v]] # "none"
    /\ \A t \in Templates : template[t] # "none" => VersionsOf(t) # {}
    /\ \A e \in Editors : Asked(request[e])

(* As long as no other request wrote to its template, what a request found   *)
(* when it asked still holds.                                                *)
StillTrue(q) ==
    ~ q.overtaken =>
        /\ q.doing = "add" => IsDraft(q.at)
        /\ q.doing = "inspect" => Broken(q.at) = {}
        /\ q.doing = "retire" => MayRetire(q.at)
        /\ q.doing = "delete" => \A v \in VersionsOf(q.on) : IsDraft(v)

TemplatesOrdered == TemplatesTyped /\ Placed

(* A nonempty set of numbers has a least one: what induction on a number     *)
(* comes to here.                                                            *)
Less == {pair \in Nat \X Nat : pair[1] < pair[2]}

LEMMA LeastNumber ==
    ASSUME NEW T \in SUBSET Nat, T # {}
    PROVE  \E x \in T : \A y \in T : x <= y
<1>1. IsWellFoundedOn(Less, Nat)
  BY NatLessThanWellFounded DEF OpToRel, Less
<1>2. PICK x \in T : \A y \in T : ~ (<<y, x>> \in Less)
  BY <1>1, WFMin
<1>3. \A y \in T : y < x => <<y, x>> \in Less
  BY DEF Less
<1>4. \A y \in T : x \in Nat /\ y \in Nat /\ ~ (y < x)
  BY <1>2, <1>3
<1> QED
  BY <1>4

(* Numbers given to the members of 1..n have an upper bound.                 *)
LEMMA NumbersAreBounded ==
    ASSUME NEW n \in Nat, NEW f \in [1..n -> Nat]
    PROVE  \E b \in Nat : \A v \in 1..n : f[v] <= b
<1> DEFINE Bounded(k) == \E b \in Nat : \A v \in 1..k : f[v] <= b
           T == {k \in 0..n : ~ Bounded(k)}
<1>1. SUFFICES ASSUME T # {} PROVE FALSE
  <2>0. n \in 0..n
    OBVIOUS
  <2>1. T = {} => Bounded(n)
    <3> HIDE DEF Bounded
    <3> QED
      BY <2>0
  <2> QED
    BY <2>1
<1>2. T \in SUBSET Nat
  OBVIOUS
<1>3. PICK k \in T : \A y \in T : k <= y
  BY <1>1, <1>2, LeastNumber
<1>4. Bounded(0)
  BY \A v \in 1..0 : FALSE, 0 \in Nat
<1>5. k \in 1..n /\ k - 1 \in 0..n
  BY <1>3, <1>4
<1>6. Bounded(k - 1)
  <2>1. k - 1 \notin T
    <3>1. k \in Nat /\ ~ (k <= k - 1)
      BY <1>5
    <3> HIDE DEF T
    <3> QED
      BY <1>3, <3>1
  <2> HIDE DEF Bounded
  <2> QED
    BY <1>5, <2>1
<1>7. PICK b \in Nat : \A v \in 1..(k - 1) : f[v] <= b
  BY <1>6
<1>8. f[k] \in Nat
  BY <1>5
<1>9. \A v \in 1..k : v \in 1..(k - 1) \/ v = k
  BY <1>5
<1>10. CASE f[k] <= b
  <2>1. \A v \in 1..k : f[v] <= b
    BY <1>7, <1>9, <1>10
  <2> QED
    BY <2>1, <1>3
<1>11. CASE ~ (f[k] <= b)
  <2>1. \A v \in 1..k : f[v] <= f[k]
    <3>1. \A v \in 1..(k - 1) : f[v] \in Nat /\ f[v] <= b
      BY <1>5, <1>7
    <3> QED
      BY <1>8, <1>9, <1>11, <3>1
  <2> QED
    BY <2>1, <1>3, <1>8
<1> QED
  BY <1>10, <1>11

(* So some of them have the greatest one.                                    *)
LEMMA Highest ==
    ASSUME NEW n \in Nat, NEW f \in [1..n -> Nat], NEW S \in SUBSET (1..n), S # {}
    PROVE  \E v \in S : \A w \in S : f[w] <= f[v]
<1>1. PICK b \in Nat : \A v \in 1..n : f[v] <= b
  BY NumbersAreBounded
<1> DEFINE T == {b - f[v] : v \in S}
<1>2. T \in SUBSET Nat /\ T # {}
  <2>1. \A v \in S : f[v] \in Nat /\ f[v] <= b
    BY <1>1
  <2> QED
    BY <2>1
<1>3. PICK x \in T : \A y \in T : x <= y
  BY <1>2, LeastNumber
<1>4. PICK v \in S : x = b - f[v]
  BY <1>3
<1>5. \A w \in S : b - f[v] <= b - f[w]
  BY <1>3, <1>4
<1>6. ASSUME NEW w \in S PROVE f[w] <= f[v]
  <2>1. f[v] \in Nat /\ f[w] \in Nat /\ v \in S
    OBVIOUS
  <2>2. b - f[v] <= b - f[w]
    BY <1>5
  <2> QED
    BY <2>1, <2>2
<1> QED
  BY <1>6

LEMMA StampIsNumber ==
    ASSUME TemplatesTyped
    PROVE  Stamp \in Nat
<1> DEFINE S == {published[v] : v \in Versions} \cup {0}
<1>1. published \in [1..NVersions -> Nat] /\ NVersions \in Nat
  BY TemplatesAssumption DEF TemplatesTyped, Versions
<1>2. \E x \in S : \A y \in S : x >= y
  <2>1. CASE Versions = {}
    BY <2>1
  <2>2. CASE Versions # {}
    <3>1. PICK v \in Versions : \A w \in Versions : published[w] <= published[v]
      BY <1>1, <2>2, Highest DEF Versions
    <3>2. \A w \in Versions : published[v] \in Nat /\ published[w] \in Nat
      BY <1>1 DEF Versions
    <3> QED
      BY <3>1, <3>2
  <2> QED
    BY <2>1, <2>2
<1>3. Max(S) \in S
  BY <1>2 DEF Max
<1>4. S \subseteq Nat
  BY <1>1 DEF Versions
<1>5. Max(S) \in Nat
  BY <1>3, <1>4
<1> QED
  BY <1>5 DEF Stamp

(* The newest version of a template, and the last published one.             *)
LEMMA NewestIsOne ==
    ASSUME NEW t, VersionsOf(t) # {}
    PROVE  Max(VersionsOf(t)) \in VersionsOf(t)
<1> DEFINE S == VersionsOf(t)
           f == [v \in 1..NVersions |-> v]
<1>1. S \in SUBSET (1..NVersions) /\ f \in [1..NVersions -> Nat] /\ NVersions \in Nat
  BY TemplatesAssumption DEF VersionsOf, Versions
<1>2. PICK v \in S : \A w \in S : f[w] <= f[v]
  BY <1>1, Highest
<1>3. \A w \in S : v >= w
  BY <1>1, <1>2
<1> QED
  BY <1>3 DEF Max

LEMMA LatestIsPublished ==
    ASSUME TemplatesTyped, NEW t, PublishedOf(t) # {}
    PROVE  Latest(t) \in PublishedOf(t)
<1>1. /\ PublishedOf(t) \in SUBSET (1..NVersions)
      /\ published \in [1..NVersions -> Nat] /\ NVersions \in Nat
  BY TemplatesAssumption DEF TemplatesTyped, PublishedOf, VersionsOf, Versions
<1>2. \E v \in PublishedOf(t) : \A w \in PublishedOf(t) : published[w] <= published[v]
  BY <1>1, Highest
<1> QED
  BY <1>2 DEF Latest
-----------------------------------------------------------------------------
(* What a step is: a version is made, a question asked, an item edited, a    *)
(* version published or retired, a template switched or deleted, or a review *)
(* created.                                                                  *)
Making(t, v, content, stage) ==
    /\ Made(t, v, content, stage)
    /\ stage = "PUBLISHED" => \A i \in content : Usable(i.text)
    /\ \/ template[t] = "none" /\ template' = [template EXCEPT ![t] = "active"]
       \/ Exists(t) /\ stage = "DRAFT" /\ UNCHANGED template

Asking(e, q) ==
    Step(e, q) /\ q \in Question /\ Asked(q) /\ StillTrue(q)

Editing(e, v, before, after) ==
    /\ of[v] # 0 /\ before \subseteq items[v]
    /\ \/ request[e].doing = "add" /\ request[e].at = v /\ before = {}
       \/ IsDraft(v)
    /\ Edit(e, v, before, after)

LEMMA MakingSteps ==
    ASSUME TemplatesOrdered, NEW e \in Editors, NEW t \in Templates, NEW v \in Versions,
           \/ CreateTemplate(e, t, v) \/ ImportTemplate(e, t, v) \/ CreateVersion(e, t, v)
           \/ \E source \in Templates : CopyTemplate(e, source, t, v)
    PROVE  \E content \in SUBSET Item, stage \in {"DRAFT", "PUBLISHED"} :
              Making(t, v, content, stage)
<1>1. CASE CreateTemplate(e, t, v)
  BY <1>1 DEF CreateTemplate, MadeTemplate, NextTemplate, Making
<1>2. CASE ImportTemplate(e, t, v)
  <2>1. PICK content \in SUBSET {i \in Item : i.text.answerable /\ i.text.rule = NoRule},
             stage \in {"DRAFT", "PUBLISHED"} : MadeTemplate(t, v, content, stage)
    BY <1>2 DEF ImportTemplate
  <2>2. \A i \in content : Usable(i.text)
    BY DEF Usable, checkedRule
  <2>3. Making(t, v, content, stage)
    BY <2>1, <2>2 DEF MadeTemplate, NextTemplate, Making
  <2> QED
    BY <2>3
<1>3. CASE CreateVersion(e, t, v)
  <2>1. PICK content \in {{}} \cup {items[w] : w \in {w \in Versions : of[w] # 0}} :
           Made(t, v, content, "DRAFT") /\ UNCHANGED template /\ Exists(t)
    BY <1>3 DEF CreateVersion
  <2>2. content \in SUBSET Item
    BY DEF TemplatesOrdered, TemplatesTyped
  <2> QED
    BY <2>1, <2>2 DEF Making
<1>4. CASE \E source \in Templates : CopyTemplate(e, source, t, v)
  <2>1. PICK source \in Templates :
           /\ Exists(source)
           /\ MadeTemplate(t, v, items[Max(VersionsOf(source))], "DRAFT")
    BY <1>4 DEF CopyTemplate
  <2>2. VersionsOf(source) # {}
    BY <2>1 DEF Exists, TemplatesOrdered, Placed
  <2>3. Max(VersionsOf(source)) \in Versions
    BY <2>2, NewestIsOne DEF VersionsOf
  <2>4. items[Max(VersionsOf(source))] \in SUBSET Item
    BY <2>3 DEF TemplatesOrdered, TemplatesTyped
  <2> QED
    BY <2>1, <2>4 DEF MadeTemplate, NextTemplate, Making
<1> QED
  BY <1>1, <1>2, <1>3, <1>4

LEMMA AskingSteps ==
    ASSUME TemplatesOrdered, NEW e \in Editors,
           \/ \E v \in Versions : \/ PublishCount(e, v) \/ RetireAsk(e, v)
                                  \/ \E item \in Item : InsertItem(e, v, item)
           \/ \E t \in Templates : DeleteAsk(e, t)
           \/ PublishInspect(e) \/ WriteRefused(e)
    PROVE  \E q : Asking(e, q)
<1>0. TemplatesTyped /\ Placed /\ request[e] \in Question /\ Asked(request[e])
  BY DEF TemplatesOrdered, TemplatesTyped, Placed
<1>1. Idle \in Question /\ Asked(Idle) /\ StillTrue(Idle)
  BY TemplatesAssumption DEF Idle, About, Question, Doings, Asked, StillTrue
<1>2. ASSUME NEW v \in Versions, PublishCount(e, v) PROVE \E q : Asking(e, q)
  <2> DEFINE q == About("count", v, of[v], {})
  <2>1. of[v] \in 0..NTemplates /\ of[v] # 0
    BY <1>0, <1>2 DEF PublishCount, Placed, TemplatesTyped
  <2>2. q \in Question /\ Asked(q) /\ StillTrue(q)
    BY <2>1 DEF About, Question, Doings, Asked, StillTrue, Versions
  <2> QED
    BY <1>2, <2>2 DEF PublishCount, Start, Asking
<1>3. ASSUME NEW v \in Versions, RetireAsk(e, v) PROVE \E q : Asking(e, q)
  <2> DEFINE q == About("retire", v, of[v], {})
  <2>1. of[v] \in 0..NTemplates /\ of[v] # 0 /\ MayRetire(v)
    BY <1>0, <1>3 DEF RetireAsk, TemplatesTyped
  <2>2. q \in Question /\ Asked(q) /\ StillTrue(q)
    BY <2>1 DEF About, Question, Doings, Asked, StillTrue, Versions
  <2> QED
    BY <1>3, <2>2 DEF RetireAsk, Start, Asking
<1>4. ASSUME NEW v \in Versions, NEW item \in Item, InsertItem(e, v, item)
      PROVE  \E q : Asking(e, q)
  <2> DEFINE q == About("add", v, of[v], {item})
  <2>1. of[v] \in 0..NTemplates /\ of[v] # 0 /\ IsDraft(v)
    BY <1>0, <1>4 DEF InsertItem, Placed, TemplatesTyped, IsDraft
  <2>2. q \in Question /\ Asked(q) /\ StillTrue(q)
    BY <2>1 DEF About, Question, Doings, Asked, StillTrue, Versions
  <2> QED
    BY <1>4, <2>2 DEF InsertItem, Asking
<1>5. ASSUME NEW t \in Templates, DeleteAsk(e, t) PROVE \E q : Asking(e, q)
  <2> DEFINE q == About("delete", 0, t, {})
  <2>1. template[t] # "none" /\ \A v \in VersionsOf(t) : IsDraft(v)
    BY <1>5 DEF DeleteAsk, Exists, Unused
  <2>2. q \in Question /\ Asked(q) /\ StillTrue(q)
    BY <2>1, TemplatesAssumption DEF About, Question, Doings, Asked, StillTrue, Templates
  <2> QED
    BY <1>5, <2>2 DEF DeleteAsk, Start, Asking
<1>6. ASSUME PublishInspect(e) PROVE \E q : Asking(e, q)
  <2>1. CASE Refused(request[e].at)
    BY <1>1, <1>6, <2>1 DEF PublishInspect, Asking
  <2>2. CASE ~ Refused(request[e].at)
    <3> DEFINE q == [request[e] EXCEPT !.doing = "inspect"]
    <3>1. q \in Question /\ Asked(q) /\ StillTrue(q)
      BY <1>0, <1>6, <2>2 DEF PublishInspect, Question, Doings, Asked, StillTrue, Refused
    <3> QED
      BY <1>6, <2>2, <3>1 DEF PublishInspect, Asking
  <2> QED
    BY <2>1, <2>2
<1>7. ASSUME WriteRefused(e) PROVE \E q : Asking(e, q)
  BY <1>1, <1>7 DEF WriteRefused, Asking
<1> QED
  BY <1>2, <1>3, <1>4, <1>5, <1>6, <1>7

LEMMA EditingSteps ==
    ASSUME TemplatesOrdered, NEW e \in Editors,
           \/ CommitItem(e)
           \/ \E v \in Versions, old \in Item : DeleteItem(e, v, old)
           \/ \E v \in Versions, old, new \in Item : UpdateItem(e, v, old, new)
    PROVE  \E v \in Versions, before, after \in SUBSET Item : Editing(e, v, before, after)
<1>0. TemplatesTyped /\ Placed /\ request[e] \in Question /\ Asked(request[e])
  BY DEF TemplatesOrdered, TemplatesTyped, Placed
<1>1. CASE CommitItem(e)
  <2>1. /\ request[e].at \in Versions /\ of[request[e].at] # 0
        /\ request[e].item \in SUBSET Item /\ {} \in SUBSET Item
    BY <1>0, <1>1 DEF CommitItem, Asked, Question
  <2>2. Editing(e, request[e].at, {}, request[e].item)
    BY <1>1, <2>1 DEF CommitItem, Editing
  <2> QED
    BY <2>1, <2>2
<1>2. ASSUME NEW v \in Versions, IsDraft(v) PROVE of[v] # 0
  BY <1>0, <1>2 DEF Placed, IsDraft
<1>3. ASSUME NEW v \in Versions, NEW old \in Item, DeleteItem(e, v, old)
      PROVE  Editing(e, v, {old}, {})
  BY <1>2, <1>3 DEF DeleteItem, Editable, Editing
<1>4. ASSUME NEW v \in Versions, NEW old \in Item, NEW new \in Item, UpdateItem(e, v, old, new)
      PROVE  Editing(e, v, {old}, {new})
  BY <1>2, <1>4 DEF UpdateItem, Editable, Editing
<1>5. {} \in SUBSET Item /\ \A i \in Item : {i} \in SUBSET Item
  OBVIOUS
<1> QED
  BY <1>1, <1>3, <1>4, <1>5

LEMMA TemplateSteps ==
    ASSUME TemplatesOrdered, [TemplateNext]_templateVars
    PROVE  \/ UNCHANGED templateVars
           \/ \E t \in Templates, v \in Versions, content \in SUBSET Item,
                 stage \in {"DRAFT", "PUBLISHED"} : Making(t, v, content, stage)
           \/ \E e \in Editors :
                 \/ \E q : Asking(e, q)
                 \/ \E v \in Versions, before, after \in SUBSET Item :
                       Editing(e, v, before, after)
                 \/ \E t \in Templates, on \in {"active", "inactive"} :
                       UpdateTemplate(e, t, on)
                 \/ PublishWrite(e) \/ RetireWrite(e) \/ DeleteWrite(e)
           \/ \E r \in Reviews : CreateReview(r)
<1>1. \A v \in Versions : items[v] \subseteq Item
  BY DEF TemplatesOrdered, TemplatesTyped
<1>2. CASE \E e \in Editors, t \in Templates, v \in Versions :
              \/ CreateTemplate(e, t, v) \/ ImportTemplate(e, t, v)
              \/ CreateVersion(e, t, v)
              \/ \E source \in Templates : CopyTemplate(e, source, t, v)
  BY <1>2, MakingSteps
<1>3. CASE \E e \in Editors : \/ \E v \in Versions : \/ PublishCount(e, v) \/ RetireAsk(e, v)
                                  \/ \E item \in Item : InsertItem(e, v, item)
                              \/ \E t \in Templates : DeleteAsk(e, t)
                              \/ PublishInspect(e) \/ WriteRefused(e)
  BY <1>3, AskingSteps
<1>4. CASE \E e \in Editors :
              \/ CommitItem(e)
              \/ \E v \in Versions : \E old \in items[v] : DeleteItem(e, v, old)
              \/ \E v \in Versions : \E old \in items[v], new \in Item :
                    UpdateItem(e, v, old, new)
  BY <1>1, <1>4, EditingSteps
<1>5. CASE \E e \in Editors, t \in Templates, on \in {"active", "inactive"} :
              UpdateTemplate(e, t, on)
  BY <1>5
<1>6. CASE \E e \in Editors : PublishWrite(e) \/ RetireWrite(e) \/ DeleteWrite(e)
  BY <1>6
<1>7. CASE (\E r \in Reviews : CreateReview(r)) \/ UNCHANGED templateVars
  BY <1>7
<1> QED
  BY <1>2, <1>3, <1>4, <1>5, <1>6, <1>7 DEF TemplateNext

-----------------------------------------------------------------------------
(* Each of these keeps the types and the order of things.                    *)

LEMMA MakingOrdered ==
    ASSUME TemplatesOrdered, NEW t \in Templates, NEW v \in Versions,
           NEW content \in SUBSET Item, NEW stage \in {"DRAFT", "PUBLISHED"},
           Making(t, v, content, stage)
    PROVE  TemplatesOrdered'
<1>0. TemplatesTyped /\ Placed
  BY DEF TemplatesOrdered
<1>1. of[v] = 0 /\ t # 0 /\ t \in 0..NTemplates
  BY TemplatesAssumption DEF Making, Made, NextVersion, Templates
<1>2. /\ template' \in [Templates -> {"none", "active", "inactive", "deleted"}]
      /\ \A u \in Templates : u # t => template'[u] = template[u]
      /\ template'[t] # "none" /\ (template[t] # "none" => template'[t] = template[t])
  BY <1>0 DEF Making, Exists, TemplatesTyped
<1>3. TemplatesTyped'
  <2>1. published' \in [Versions -> Nat]
    BY <1>0, StampIsNumber DEF Making, Made, TemplatesTyped
  <2> QED
    BY <1>0, <1>1, <1>2, <2>1 DEF Making, Made, TemplatesTyped
<1>4. /\ of'[v] = t /\ \A w \in Versions : w # v => of'[w] = of[w]
      /\ \A w \in Versions : w # v => status'[w] = status[w] /\ items'[w] = items[w]
      /\ UNCHANGED <<changes, request>>
  BY <1>0 DEF Making, Made, TemplatesTyped
<1>5. ASSUME NEW w \in Versions
      PROVE  /\ of'[w] = 0 => status'[w] = "none" /\ items'[w] = {} /\ changes'[w] = <<>>
             /\ of'[w] # 0 => template'[of'[w]] # "none"
  <2>1. of[w] # 0 => of[w] \in Templates
    BY <1>0, TemplatesAssumption DEF TemplatesTyped, Templates
  <2> QED
    BY <1>0, <1>1, <1>2, <1>4, <2>1 DEF Placed
<1>6. ASSUME NEW u \in Templates, template'[u] # "none" PROVE VersionsOf(u)' # {}
  <2>1. CASE u = t
    BY <1>4, <2>1 DEF VersionsOf
  <2>2. CASE u # t
    <3>1. PICK w \in Versions : of[w] = u
      BY <1>0, <1>2, <1>6, <2>2 DEF Placed, VersionsOf
    <3>2. w # v
      BY <1>1, <3>1 DEF Templates
    <3> QED
      BY <1>4, <3>1, <3>2 DEF VersionsOf
  <2> QED
    BY <2>1, <2>2
<1>7. ASSUME NEW e \in Editors PROVE Asked(request[e])'
  <2>1. Asked(request[e]) /\ request'[e] = request[e]
    BY <1>0, <1>4 DEF Placed
  <2>2. \A w \in Versions : of[w] # 0 => of'[w] = of[w]
    BY <1>1, <1>4
  <2> QED
    BY <1>2, <2>1, <2>2 DEF Asked
<1> QED
  BY <1>3, <1>5, <1>6, <1>7 DEF TemplatesOrdered, Placed

LEMMA AskingOrdered ==
    ASSUME TemplatesOrdered, NEW e \in Editors, NEW q, Asking(e, q)
    PROVE  TemplatesOrdered'
<1>0. TemplatesTyped /\ Placed
  BY DEF TemplatesOrdered
<1>1. /\ UNCHANGED <<template, of, status, published, items, base, changes, held, overlapped>>
      /\ request' = [request EXCEPT ![e] = q] /\ q \in Question /\ Asked(q)
  BY DEF Asking, Step, rows
<1>2. TemplatesTyped'
  BY <1>0, <1>1 DEF TemplatesTyped
<1>3. \A f \in Editors : Asked(request[f])'
  BY <1>0, <1>1 DEF TemplatesTyped, Placed, Asked
<1> QED
  BY <1>0, <1>1, <1>2, <1>3 DEF TemplatesOrdered, Placed, VersionsOf

(* A write leaves the other requests as they are, but marks those about the  *)
(* same template, and the template if its writer was marked itself.          *)
Marking(e, t) ==
    /\ overlapped \subseteq overlapped' /\ overlapped' \subseteq Templates
    /\ request[e].overtaken => t \in overlapped'
    /\ \A f \in Editors :
          \/ request'[f] = Idle
          \/ LET q == request[f]
                 r == request'[f]
             IN  /\ r.doing = q.doing /\ r.at = q.at /\ r.on = q.on
                 /\ r.overtaken \/ (~ q.overtaken /\ q.on # t)

LEMMA WritesMark ==
    ASSUME TemplatesTyped, NEW e \in Editors, NEW t \in Templates, Writes(e, t)
    PROVE  request' \in [Editors -> Question] /\ Marking(e, t)
<1> DEFINE Later(f) == IF f = e THEN Idle
                       ELSE [request[f] EXCEPT !.overtaken = @ \/ request[f].on = t]
<1>1. request' = [f \in Editors |-> Later(f)]
  BY DEF Writes
<1>2. Idle \in Question
  BY TemplatesAssumption DEF Idle, About, Question, Doings
<1>3. ASSUME NEW f \in Editors
      PROVE  /\ Later(f) \in Question
             /\ \/ Later(f) = Idle
                \/ /\ Later(f).doing = request[f].doing /\ Later(f).at = request[f].at
                   /\ Later(f).on = request[f].on
                   /\ Later(f).overtaken \/ (~ request[f].overtaken /\ request[f].on # t)
  BY <1>2 DEF TemplatesTyped, Question
<1>4. /\ overlapped \subseteq overlapped' /\ overlapped' \subseteq Templates
      /\ request[e].overtaken => t \in overlapped'
  BY DEF Writes, TemplatesTyped
<1> HIDE DEF Later
<1> QED
  BY <1>1, <1>3, <1>4 DEF Marking

(* So a write that makes no version and no template keeps what is placed, as *)
(* long as an unmade version stays empty.                                    *)
LEMMA WritesPlaced ==
    ASSUME TemplatesOrdered, NEW e \in Editors, NEW t \in Templates, Marking(e, t),
           UNCHANGED of,
           \A u \in Templates : template'[u] = "none" <=> template[u] = "none",
           \A v \in Versions : of[v] = 0 =>
              status'[v] = status[v] /\ items'[v] = items[v] /\ changes'[v] = changes[v]
    PROVE  Placed'
<1>0. TemplatesTyped /\ Placed
  BY DEF TemplatesOrdered
<1>1. \A v \in Versions : of[v] # 0 => of[v] \in Templates
  BY <1>0, TemplatesAssumption DEF TemplatesTyped, Templates
<1>2. \A v \in Versions :
         /\ of'[v] = 0 => status'[v] = "none" /\ items'[v] = {} /\ changes'[v] = <<>>
         /\ of'[v] # 0 => template'[of'[v]] # "none"
  BY <1>0, <1>1 DEF Placed
<1>3. \A u \in Templates : template'[u] # "none" => VersionsOf(u)' # {}
  BY <1>0 DEF Placed, VersionsOf
<1>4. ASSUME NEW f \in Editors PROVE Asked(request[f])'
  <2>1. Asked(request[f])
    BY <1>0 DEF Placed
  <2>2. CASE request'[f] = Idle
    BY <2>2 DEF Asked, Idle, About
  <2>3. CASE request'[f] # Idle
    BY <2>1, <2>3 DEF Marking, Asked
  <2> QED
    BY <2>2, <2>3
<1> QED
  BY <1>2, <1>3, <1>4 DEF Placed

LEMMA EditingOrdered ==
    ASSUME TemplatesOrdered, NEW e \in Editors, NEW v \in Versions,
           NEW before \in SUBSET Item, NEW after \in SUBSET Item,
           Editing(e, v, before, after)
    PROVE  TemplatesOrdered' /\ Marking(e, of[v])
<1>0. TemplatesTyped /\ Placed
  BY DEF TemplatesOrdered
<1>1. of[v] \in Templates /\ Writes(e, of[v])
  BY <1>0, TemplatesAssumption DEF Editing, Edit, TemplatesTyped, Templates
<1>2. request' \in [Editors -> Question] /\ Marking(e, of[v])
  BY <1>0, <1>1, WritesMark
<1>3. /\ items' \in [Versions -> SUBSET Item]
      /\ \A w \in Versions : w # v => items'[w] = items[w]
  BY <1>0 DEF Editing, Edit, TemplatesTyped
<1>4. /\ changes' \in [Versions -> Seq(Change)]
      /\ \A w \in Versions : w # v => changes'[w] = changes[w]
  <2> DEFINE c == [before |-> before, after |-> after]
  <2>0. c \in Change /\ Recorded(before, after) = <<c>>
    BY DEF Change, Recorded
  <2> HIDE DEF c
  <2>1. changes[v] \in Seq(Change) /\ Recorded(before, after) \in Seq(Change)
    BY <1>0, <2>0 DEF TemplatesTyped
  <2>2. changes[v] \o Recorded(before, after) \in Seq(Change)
    BY <2>1, ConcatProperties
  <2> QED
    BY <1>0, <2>2 DEF Editing, Edit, TemplatesTyped
<1>5. TemplatesTyped'
  BY <1>0, <1>2, <1>3, <1>4 DEF Editing, Edit, Marking, TemplatesTyped
<1>6. Placed'
  BY <1>1, <1>2, <1>3, <1>4, WritesPlaced DEF Editing, Edit
<1> QED
  BY <1>2, <1>5, <1>6 DEF TemplatesOrdered

LEMMA UpdateOrdered ==
    ASSUME TemplatesOrdered, NEW e \in Editors, NEW t \in Templates,
           NEW on \in {"active", "inactive"}, UpdateTemplate(e, t, on)
    PROVE  TemplatesOrdered' /\ Marking(e, t)
<1>0. TemplatesTyped /\ Placed
  BY DEF TemplatesOrdered
<1>1. request' \in [Editors -> Question] /\ Marking(e, t)
  BY <1>0, WritesMark DEF UpdateTemplate
<1>2. TemplatesTyped'
  BY <1>0, <1>1 DEF UpdateTemplate, Marking, TemplatesTyped
<1>3. \A u \in Templates : template'[u] = "none" <=> template[u] = "none"
  BY <1>0 DEF UpdateTemplate, Exists, TemplatesTyped
<1>4. Placed'
  BY <1>1, <1>3, WritesPlaced DEF UpdateTemplate
<1> QED
  BY <1>1, <1>2, <1>4 DEF TemplatesOrdered

LEMMA StageOrdered ==
    ASSUME TemplatesOrdered, NEW e \in Editors, PublishWrite(e) \/ RetireWrite(e)
    PROVE  /\ TemplatesOrdered' /\ Marking(e, of[request[e].at])
           /\ request[e].at \in Versions /\ of[request[e].at] \in Templates
<1>0. TemplatesTyped /\ Placed
  BY DEF TemplatesOrdered
<1> DEFINE v == request[e].at
<1>1. v \in Versions /\ of[v] # 0
  BY <1>0 DEF PublishWrite, RetireWrite, Placed, Asked
<1>2. of[v] \in Templates
  BY <1>0, <1>1, TemplatesAssumption DEF TemplatesTyped, Templates
<1>3. request' \in [Editors -> Question] /\ Marking(e, of[v])
  BY <1>0, <1>2, WritesMark DEF PublishWrite, RetireWrite
<1>4. /\ published' \in [Versions -> Nat]
      /\ status' \in [Versions -> {"none", "DRAFT", "PUBLISHED", "RETIRED", "deleted"}]
      /\ \A w \in Versions : w # v => status'[w] = status[w]
      /\ UNCHANGED <<template, of, items, base, changes, held>>
  BY <1>0, StampIsNumber DEF PublishWrite, RetireWrite, TemplatesTyped
<1>5. TemplatesTyped'
  BY <1>0, <1>3, <1>4 DEF Marking, TemplatesTyped
<1>6. Placed'
  BY <1>1, <1>2, <1>3, <1>4, WritesPlaced
<1> QED
  BY <1>1, <1>2, <1>3, <1>5, <1>6 DEF TemplatesOrdered

LEMMA DeleteOrdered ==
    ASSUME TemplatesOrdered, NEW e \in Editors, DeleteWrite(e)
    PROVE  /\ TemplatesOrdered' /\ Marking(e, request[e].on)
           /\ request[e].on \in Templates /\ template[request[e].on] # "none"
<1>0. TemplatesTyped /\ Placed
  BY DEF TemplatesOrdered
<1> DEFINE t == request[e].on
<1>1. t \in Templates /\ template[t] # "none"
  BY <1>0 DEF DeleteWrite, Placed, Asked
<1>2. request' \in [Editors -> Question] /\ Marking(e, t)
  BY <1>0, <1>1, WritesMark DEF DeleteWrite
<1>3. \A v \in Versions : of[v] = 0 => v \notin VersionsOf(t)
  BY <1>1 DEF VersionsOf, Templates
<1>4. TemplatesTyped'
  BY <1>0, <1>2, EmptySeq DEF DeleteWrite, Marking, TemplatesTyped
<1>5. /\ \A u \in Templates : template'[u] = "none" <=> template[u] = "none"
      /\ \A v \in Versions : of[v] = 0 =>
            status'[v] = status[v] /\ items'[v] = items[v] /\ changes'[v] = changes[v]
  BY <1>0, <1>1, <1>3 DEF DeleteWrite, TemplatesTyped
<1>6. Placed'
  BY <1>1, <1>2, <1>5, WritesPlaced DEF DeleteWrite
<1> QED
  BY <1>1, <1>2, <1>4, <1>6 DEF TemplatesOrdered

LEMMA ReviewOrdered ==
    ASSUME TemplatesOrdered, NEW r \in Reviews, CreateReview(r)
    PROVE  TemplatesOrdered'
<1>0. TemplatesTyped /\ Placed
  BY DEF TemplatesOrdered
<1>1. ASSUME NEW t \in Templates
      PROVE  /\ Given(t) \in 0..NVersions
             /\ Given(t) # 0 => Given(t) \in Versions
  BY <1>0, LatestIsPublished, TemplatesAssumption
     DEF Given, PublishedOf, VersionsOf, Versions
<1> DEFINE taken == UNION {{[version |-> v, item |-> i] :
                                i \in {i \in items[v] : Applies(r, i)}} :
                            v \in {Given(t) : t \in Templates} \ {0}}
           h == [made |-> TRUE, given |-> [t \in Templates |-> Given(t)], items |-> taken]
<1>2. taken \subseteq [version : Versions, item : Item]
  BY <1>0, <1>1 DEF TemplatesTyped
<1>3. h \in Snapshot
  BY <1>1, <1>2 DEF Snapshot
<1>4. held' = [held EXCEPT ![r] = h] /\ UNCHANGED <<rows, request, overlapped>>
  BY DEF CreateReview
<1> HIDE DEF h
<1>5. TemplatesTyped'
  BY <1>0, <1>3, <1>4 DEF TemplatesTyped, rows
<1>6. Placed'
  BY <1>0, <1>4 DEF Placed, Asked, VersionsOf, rows
<1> QED
  BY <1>5, <1>6 DEF TemplatesOrdered

LEMMA OrderedKept ==
    ASSUME TemplatesOrdered, [TemplateNext]_templateVars
    PROVE  TemplatesOrdered'
<1>1. CASE UNCHANGED templateVars
  BY <1>1 DEF templateVars, rows, TemplatesOrdered, TemplatesTyped, Placed, Asked, VersionsOf
<1> QED
  BY <1>1, TemplateSteps, MakingOrdered, AskingOrdered, EditingOrdered, UpdateOrdered,
     StageOrdered, DeleteOrdered, ReviewOrdered

LEMMA OrderedFirst ==
    ASSUME TemplateInit
    PROVE  TemplatesOrdered
<1>1. Idle \in Question /\ Asked(Idle)
  BY TemplatesAssumption DEF Idle, About, Question, Doings, Asked
<1>2. NoReview \in Snapshot
  BY TemplatesAssumption DEF NoReview, Snapshot
<1>3. TemplatesTyped
  BY <1>1, <1>2, EmptySeq, TemplatesAssumption DEF TemplateInit, TemplatesTyped
<1>4. Placed
  BY <1>1 DEF TemplateInit, Placed
<1> QED
  BY <1>3, <1>4 DEF TemplatesOrdered

-----------------------------------------------------------------------------
(* The change history                                                        *)

(* A row is written with the change it tells of.                             *)
LEMMA HistoryEdited ==
    ASSUME TemplatesOrdered, NEW e \in Editors, NEW v \in Versions,
           NEW before \in SUBSET Item, NEW after \in SUBSET Item,
           Editing(e, v, before, after), HistoryExplains
    PROVE  HistoryExplains'
<1> DEFINE c == [before |-> before, after |-> after]
<1>1. c \in Change /\ c.before = before /\ c.after = after /\ Recorded(before, after) = <<c>>
  BY DEF Change, Recorded
<1>2. changes[v] \in Seq(Change) /\ Len(changes[v]) \in Nat
  BY DEF TemplatesOrdered, TemplatesTyped
<1>3. PICK L \in Nat : L = Len(changes[v])
  BY <1>2
<1>4. changes[v] \in Seq(Change) /\ L \in Nat /\ DOMAIN changes[v] = 1..L
  BY <1>2, <1>3
<1>5. /\ UNCHANGED base
      /\ \A w \in Versions : w # v => items'[w] = items[w] /\ changes'[w] = changes[w]
      /\ items'[v] = (items[v] \ before) \cup after
      /\ changes'[v] = changes[v] \o Recorded(before, after)
      /\ before \subseteq items[v]
  BY DEF Editing, Edit, TemplatesOrdered, TemplatesTyped
<1> HIDE DEF c
<1>6. /\ Len(changes'[v]) = L + 1 /\ DOMAIN changes'[v] = 1..(L + 1)
      /\ \A n \in 1..L : changes'[v][n] = changes[v][n]
      /\ changes'[v][L + 1] = c
  <2>1. <<c>> \in Seq(Change) /\ Len(<<c>>) = 1 /\ <<c>>[1] = c
    BY <1>1
  <2> QED
    BY <1>1, <1>4, <1>3, <1>5, <2>1, ConcatProperties
<1>7. /\ \A n \in 0..L : Put(v, n)' = Put(v, n)
      /\ Put(v, L + 1)' = after
  <2>1. ASSUME NEW n \in 0..L PROVE Put(v, n)' = Put(v, n)
    <3>1. n # 0 => n \in 1..L
      BY <1>4
    <3> QED
      BY <1>5, <1>6, <3>1 DEF Put
  <2>2. L + 1 # 0
    BY <1>4
  <2>3. Put(v, L + 1)' = changes'[v][L + 1].after
    BY <2>2 DEF Put
  <2> QED
    BY <1>1, <1>6, <2>1, <2>3
<1>8. /\ \A n \in 0..L : TakenAfter(v, n)' = TakenAfter(v, n) \cup before
      /\ TakenAfter(v, L + 1)' = {}
  <2>1. ASSUME NEW n \in 0..L PROVE TakenAfter(v, n)' = TakenAfter(v, n) \cup before
    <3>1. (n + 1)..(L + 1) = ((n + 1)..L) \cup {L + 1}
      BY <1>4
    <3>2. \A m \in (n + 1)..L : m \in 1..L
      BY <1>4
    <3>3. TakenAfter(v, n)' = UNION {changes'[v][m].before : m \in (n + 1)..(L + 1)}
      BY <1>6 DEF TakenAfter
    <3>4. TakenAfter(v, n) = UNION {changes[v][m].before : m \in (n + 1)..L}
      BY <1>3 DEF TakenAfter
    <3>5. /\ \A m \in (n + 1)..L : changes'[v][m].before = changes[v][m].before
          /\ changes'[v][L + 1].before = before
      BY <1>1, <1>6, <3>2
    <3> QED
      BY <3>1, <3>3, <3>4, <3>5
  <2>2. (L + 1 + 1)..(L + 1) = {}
    BY <1>4
  <2>3. TakenAfter(v, L + 1)' = UNION {changes'[v][m].before : m \in (L + 1 + 1)..Len(changes'[v])}
    BY DEF TakenAfter
  <2>4. TakenAfter(v, L + 1)' = {}
    BY <1>6, <2>2, <2>3
  <2> QED
    BY <2>1, <2>4
<1>9. Replayed(v)' = (Replayed(v) \ before) \cup after
  <2>1. 0..(L + 1) = (0..L) \cup {L + 1}
    BY <1>4
  <2>2. Replayed(v)' = UNION {Put(v, n)' \ TakenAfter(v, n)' : n \in 0..(L + 1)}
    BY <1>6 DEF Replayed
  <2>3. Replayed(v) = UNION {Put(v, n) \ TakenAfter(v, n) : n \in 0..L}
    BY <1>3 DEF Replayed
  <2>4. ASSUME NEW i PROVE i \in Replayed(v)' <=> i \in (Replayed(v) \ before) \cup after
    <3>1. ASSUME NEW n \in 0..L
          PROVE  i \in Put(v, n)' \ TakenAfter(v, n)' <=>
                    i \in Put(v, n) \ TakenAfter(v, n) /\ i \notin before
      BY <1>7, <1>8
    <3>2. i \in Put(v, L + 1)' \ TakenAfter(v, L + 1)' <=> i \in after
      BY <1>7, <1>8
    <3>3. i \in Replayed(v)' <=>
             \/ \E n \in 0..L : i \in Put(v, n)' \ TakenAfter(v, n)'
             \/ i \in Put(v, L + 1)' \ TakenAfter(v, L + 1)'
      BY <2>1, <2>2
    <3>4. i \in Replayed(v) <=> \E n \in 0..L : i \in Put(v, n) \ TakenAfter(v, n)
      BY <2>3
    <3> QED
      BY <3>1, <3>2, <3>3, <3>4
  <2> QED
    BY <2>4
<1>10. Replayed(v) \subseteq UNION {Put(v, m) : m \in 0..L}
  BY <1>3 DEF Replayed
<1>11. Replayed(v)' = items'[v]
  BY <1>5, <1>9 DEF HistoryExplains
<1>12. ASSUME NEW n \in DOMAIN changes'[v]
       PROVE  changes'[v][n].before \subseteq UNION {Put(v, m)' : m \in 0..(n - 1)}
  <2>1. CASE n = L + 1
    <3>1. before \subseteq UNION {Put(v, m) : m \in 0..L}
      BY <1>5, <1>10 DEF HistoryExplains
    <3>2. n - 1 = L
      BY <1>4, <2>1
    <3> QED
      BY <1>1, <1>6, <1>7, <2>1, <3>1, <3>2
  <2>2. CASE n \in 1..L
    <3>1. changes[v][n].before \subseteq UNION {Put(v, m) : m \in 0..(n - 1)}
      BY <1>4, <2>2 DEF HistoryExplains
    <3>2. \A m \in 0..(n - 1) : m \in 0..L
      BY <1>4, <2>2
    <3> QED
      BY <1>6, <1>7, <2>2, <3>1, <3>2
  <2> QED
    BY <1>4, <1>6, <2>1, <2>2
<1>13. ASSUME NEW w \in Versions, w # v
       PROVE  /\ Replayed(w)' = items'[w]
              /\ \A n \in DOMAIN changes'[w] :
                    changes'[w][n].before \subseteq UNION {Put(w, m)' : m \in 0..(n - 1)}
  <2>1. changes'[w] = changes[w] /\ base'[w] = base[w] /\ items'[w] = items[w]
    BY <1>5, <1>13
  <2>2. /\ \A n : Put(w, n)' = Put(w, n)
        /\ \A n : TakenAfter(w, n)' = TakenAfter(w, n)
    BY <2>1 DEF Put, TakenAfter
  <2> QED
    BY <2>1, <2>2 DEF HistoryExplains, Replayed
<1> QED
  BY <1>11, <1>12, <1>13 DEF HistoryExplains

(* A version that was just made or deleted has no row.                       *)
LEMMA HistoryEmpty ==
    ASSUME NEW v \in Versions, changes[v] = <<>>, base[v] = items[v]
    PROVE  /\ Replayed(v) = items[v]
           /\ \A n \in DOMAIN changes[v] :
                 changes[v][n].before \subseteq UNION {Put(v, m) : m \in 0..(n - 1)}
<1>1. Len(changes[v]) = 0 /\ DOMAIN changes[v] = {} /\ 0..0 = {0} /\ 1..0 = {}
  OBVIOUS
<1>2. Put(v, 0) = items[v] /\ TakenAfter(v, 0) = {}
  BY <1>1 DEF Put, TakenAfter
<1> QED
  BY <1>1, <1>2 DEF Replayed

LEMMA HistoryStep ==
    ASSUME TemplatesOrdered, HistoryExplains, [TemplateNext]_templateVars
    PROVE  HistoryExplains'
<1>0. TemplatesTyped /\ Placed
  BY DEF TemplatesOrdered
<1> DEFINE Explained(v) ==
              /\ Replayed(v) = items[v]
              /\ \A n \in DOMAIN changes[v] :
                    changes[v][n].before \subseteq UNION {Put(v, m) : m \in 0..(n - 1)}
<1>1. ASSUME UNCHANGED <<items, base, changes>> PROVE HistoryExplains'
  BY <1>1 DEF HistoryExplains, Replayed, TakenAfter, Put
<1>2. ASSUME NEW v \in Versions,
             \/ changes'[v] = <<>> /\ base'[v] = items'[v]
             \/ changes'[v] = changes[v] /\ base'[v] = base[v] /\ items'[v] = items[v]
      PROVE  Explained(v)'
  <2>1. CASE changes'[v] = <<>> /\ base'[v] = items'[v]
    <3>1. Len(changes'[v]) = 0 /\ DOMAIN changes'[v] = {} /\ 0..0 = {0} /\ 1..0 = {}
      BY <2>1
    <3>2. Put(v, 0)' = items'[v] /\ TakenAfter(v, 0)' = {}
      BY <2>1, <3>1 DEF Put, TakenAfter
    <3> QED
      BY <3>1, <3>2 DEF Replayed
  <2>2. CASE changes'[v] = changes[v] /\ base'[v] = base[v] /\ items'[v] = items[v]
    BY <2>2 DEF HistoryExplains, Replayed, TakenAfter, Put
  <2> QED
    BY <1>2, <2>1, <2>2
<1>3. ASSUME NEW t \in Templates, NEW v \in Versions, NEW content \in SUBSET Item,
             NEW stage \in {"DRAFT", "PUBLISHED"}, Making(t, v, content, stage)
      PROVE  HistoryExplains'
  <2>1. ASSUME NEW w \in Versions
        PROVE  \/ changes'[w] = <<>> /\ base'[w] = items'[w]
               \/ changes'[w] = changes[w] /\ base'[w] = base[w] /\ items'[w] = items[w]
    BY <1>0, <1>3 DEF Making, Made, NextVersion, TemplatesTyped, Placed
  <2> QED
    BY <1>2, <2>1 DEF HistoryExplains
<1>4. ASSUME NEW e \in Editors, DeleteWrite(e) PROVE HistoryExplains'
  <2>1. ASSUME NEW w \in Versions
        PROVE  \/ changes'[w] = <<>> /\ base'[w] = items'[w]
               \/ changes'[w] = changes[w] /\ base'[w] = base[w] /\ items'[w] = items[w]
    BY <1>4 DEF DeleteWrite
  <2> QED
    BY <1>2, <2>1 DEF HistoryExplains
<1>5. ASSUME \/ UNCHANGED templateVars
             \/ \E e \in Editors :
                   \/ \E q : Asking(e, q)
                   \/ \E t \in Templates, on \in {"active", "inactive"} :
                         UpdateTemplate(e, t, on)
                   \/ PublishWrite(e) \/ RetireWrite(e)
             \/ \E r \in Reviews : CreateReview(r)
      PROVE  UNCHANGED <<items, base, changes>>
  BY <1>5 DEF templateVars, rows, Asking, Step, UpdateTemplate, PublishWrite, RetireWrite,
              CreateReview
<1> QED
  BY <1>1, <1>3, <1>4, <1>5, TemplateSteps, HistoryEdited

(* The rows of template_changes replay to the items a version has, and every *)
(* row starts from an item that was there, for any number of editors.        *)
THEOREM ChangesTold == TemplateSpec => []HistoryExplains
<1>1. ASSUME TemplateInit PROVE HistoryExplains
  <2>1. \A v \in Versions : changes[v] = <<>> /\ base[v] = items[v]
    BY <1>1 DEF TemplateInit
  <2> QED
    BY <2>1, HistoryEmpty DEF HistoryExplains
<1> QED
  BY <1>1, OrderedFirst, OrderedKept, HistoryStep, PTL DEF TemplateSpec

-----------------------------------------------------------------------------
(* What was published stays, and a template in use keeps a version           *)

Told == {"PUBLISHED", "RETIRED"}

(* The exceptions are the templates an overtaken request wrote to.           *)
Truthful == \A e \in Editors : StillTrue(request[e])

PublishedFits ==
    \A v \in Versions : status[v] \in Told /\ of[v] \notin overlapped => Broken(v) = {}

GivenFits ==
    \A r \in Reviews, t \in Templates :
        LET v == held[r].given[t]
        IN  v # 0 =>
              /\ v \in Versions /\ of[v] = t /\ status[v] \in Told \cup {"deleted"}
              /\ t \notin overlapped =>
                    /\ status[v] # "deleted"
                    /\ {h.item : h \in {h \in held[r].items : h.version = v}}
                          = {i \in items[v] : Applies(r, i)}

HeldFits ==
    \A r \in Reviews : \A h \in held[r].items :
        of[h.version] # 0 /\ (Usable(h.item.text) \/ of[h.version] \in overlapped)

TemplatesInv == TemplatesOrdered /\ Truthful /\ PublishedFits /\ GivenFits /\ HeldFits

(* Beyond the template it writes to, a write changes nothing these speak of. *)
LEMMA OthersUntouched ==
    ASSUME TemplatesInv, NEW e \in Editors, NEW t \in Templates, Marking(e, t),
           UNCHANGED <<of, held>>,
           \A u \in Templates : u # t => template'[u] = template[u],
           \A v \in Versions : of[v] # t => status'[v] = status[v] /\ items'[v] = items[v]
    PROVE  /\ Truthful' /\ HeldFits'
           /\ \A v \in Versions : of[v] # t /\ status'[v] \in Told /\ of'[v] \notin overlapped'
                                     => Broken(v)' = {}
<1>0. TemplatesTyped /\ Placed
  BY DEF TemplatesInv, TemplatesOrdered
<1>1. overlapped \subseteq overlapped'
  BY DEF Marking
<1>2. ASSUME NEW f \in Editors PROVE StillTrue(request[f])'
  <2>1. CASE request'[f] = Idle
    BY <2>1 DEF StillTrue, Idle, About
  <2>2. CASE request'[f].overtaken
    BY <2>2 DEF StillTrue
  <2>3. CASE request'[f] # Idle /\ ~ request'[f].overtaken
    <3>1. /\ request'[f].doing = request[f].doing /\ request'[f].at = request[f].at
          /\ request'[f].on = request[f].on /\ request[f].on # t /\ ~ request[f].overtaken
      BY <2>3 DEF Marking
    <3>2. StillTrue(request[f]) /\ Asked(request[f])
      BY <1>0 DEF TemplatesInv, Truthful, Placed
    <3>3. /\ request[f].doing = "add" => IsDraft(request[f].at)'
          /\ request[f].doing = "inspect" => Broken(request[f].at)' = {}
      <4>1. \A v \in Versions : (request[f].at = v /\ request'[f].at = v /\ of[v] # t) =>
               /\ (IsDraft(request[f].at)' <=> IsDraft(request[f].at))
               /\ Broken(request[f].at)' = Broken(request[f].at)
        BY DEF IsDraft, Broken
      <4> QED
        BY <3>1, <3>2, <4>1 DEF StillTrue, Asked
    <3>4. request[f].doing = "retire" => MayRetire(request[f].at)'
      <4>1. SUFFICES ASSUME request[f].doing = "retire" PROVE MayRetire(request[f].at)'
        OBVIOUS
      <4>2. PICK v \in Versions : v = request[f].at
        BY <3>2, <4>1 DEF Asked
      <4>3. of[v] # t /\ of[v] \in Templates /\ of'[v] = of[v] /\ MayRetire(v)
        BY <1>0, <3>1, <3>2, <4>1, <4>2, TemplatesAssumption
           DEF Asked, StillTrue, TemplatesTyped, Templates
      <4>4. template'[of[v]] = template[of[v]] /\ PublishedOf(of[v])' = PublishedOf(of[v])
        BY <4>3 DEF PublishedOf, VersionsOf
      <4>5. MayRetire(v)'
        BY <4>3, <4>4 DEF MayRetire
      <4> QED
        BY <3>1, <4>2, <4>5
    <3>5. request[f].doing = "delete" =>
             \A v \in VersionsOf(request[f].on)' : IsDraft(v)'
      BY <3>1, <3>2 DEF StillTrue, VersionsOf, IsDraft
    <3> QED
      BY <3>1, <3>3, <3>4, <3>5 DEF StillTrue
  <2> QED
    BY <2>1, <2>2, <2>3
<1>3. HeldFits'
  BY <1>1 DEF TemplatesInv, HeldFits
<1>4. ASSUME NEW v \in Versions, of[v] # t, status'[v] \in Told, of'[v] \notin overlapped'
      PROVE  Broken(v)' = {}
  BY <1>1, <1>4 DEF TemplatesInv, PublishedFits, Broken
<1> QED
  BY <1>2, <1>3, <1>4 DEF Truthful

(* A review's source goes on explaining it if the write leaves that one so.  *)
LEMMA GivenUntouched ==
    ASSUME TemplatesInv, UNCHANGED <<of, held>>, overlapped \subseteq overlapped',
           \A v \in Versions : of[v] # 0 /\ status[v] \in Told \cup {"deleted"} =>
              /\ status'[v] \in Told \cup {"deleted"}
              /\ of[v] \notin overlapped' /\ status[v] # "deleted" =>
                    status'[v] # "deleted" /\ items'[v] = items[v]
    PROVE  GivenFits'
<1> SUFFICES ASSUME NEW r \in Reviews, NEW t \in Templates, NEW v, v = held[r].given[t], v # 0
             PROVE  /\ v \in Versions /\ of[v] = t /\ status'[v] \in Told \cup {"deleted"}
                    /\ t \notin overlapped' =>
                          /\ status'[v] # "deleted"
                          /\ {h.item : h \in {h \in held[r].items : h.version = v}}
                                = {i \in items'[v] : Applies(r, i)}
  BY DEF GivenFits
<1>1. /\ v \in Versions /\ of[v] = t /\ status[v] \in Told \cup {"deleted"}
      /\ t \notin overlapped =>
            /\ status[v] # "deleted"
            /\ {h.item : h \in {h \in held[r].items : h.version = v}}
                  = {i \in items[v] : Applies(r, i)}
  BY DEF TemplatesInv, GivenFits
<1>2. of[v] # 0
  BY <1>1 DEF Templates
<1>3. t \notin overlapped' => t \notin overlapped
  OBVIOUS
<1> QED
  BY <1>1, <1>2, <1>3

(* A new version is a draft of the template, or the first of a new one.      *)
LEMMA MakingFits ==
    ASSUME TemplatesInv, NEW t \in Templates, NEW v \in Versions,
           NEW content \in SUBSET Item, NEW stage \in {"DRAFT", "PUBLISHED"},
           Making(t, v, content, stage)
    PROVE  Truthful' /\ PublishedFits' /\ GivenFits' /\ HeldFits'
<1>0. TemplatesTyped /\ Placed
  BY DEF TemplatesInv, TemplatesOrdered
<1>1. of[v] = 0 /\ t # 0
  BY DEF Making, Made, NextVersion, Templates
<1>2. /\ of'[v] = t /\ status'[v] = stage /\ items'[v] = content
      /\ \A w \in Versions : w # v => of'[w] = of[w] /\ status'[w] = status[w]
                                        /\ items'[w] = items[w]
      /\ UNCHANGED <<held, overlapped, request>>
  BY <1>0 DEF Making, Made, TemplatesTyped
<1>3. ASSUME NEW e \in Editors, ~ request[e].overtaken PROVE StillTrue(request[e])'
  <2>1. StillTrue(request[e]) /\ Asked(request[e]) /\ request'[e] = request[e]
    BY <1>0, <1>2 DEF TemplatesInv, Truthful, Placed
  <2>2. /\ request[e].doing = "add" => IsDraft(request[e].at)'
        /\ request[e].doing = "inspect" => Broken(request[e].at)' = {}
    BY <1>1, <1>2, <1>3, <2>1 DEF StillTrue, Asked, IsDraft, Broken
  <2>3. request[e].doing = "retire" => MayRetire(request[e].at)'
    <3>1. SUFFICES ASSUME request[e].doing = "retire" PROVE MayRetire(request[e].at)'
      OBVIOUS
    <3>2. PICK w \in Versions : w = request[e].at /\ of[w] # 0 /\ MayRetire(w)
      BY <1>3, <2>1, <3>1 DEF Asked, StillTrue
    <3>3. of[w] \in Templates /\ w # v /\ of'[w] = of[w] /\ template[of[w]] # "none"
      BY <1>0, <1>1, <1>2, <3>2, TemplatesAssumption DEF Placed, TemplatesTyped, Templates
    <3>4. template'[of[w]] = template[of[w]]
      BY <1>0, <3>3 DEF Making, TemplatesTyped
    <3>5. PublishedOf(of[w]) \subseteq PublishedOf(of[w])'
      BY <1>1, <1>2, <3>2 DEF PublishedOf, VersionsOf
    <3>6. MayRetire(w)'
      BY <3>2, <3>3, <3>4, <3>5 DEF MayRetire
    <3> QED
      BY <2>1, <3>2, <3>6
  <2>4. request[e].doing = "delete" => \A w \in VersionsOf(request[e].on)' : IsDraft(w)'
    <3>1. SUFFICES ASSUME request[e].doing = "delete", NEW w \in Versions,
                          of'[w] = request[e].on
                   PROVE  IsDraft(w)'
      BY <2>1 DEF VersionsOf
    <3>2. CASE w # v
      BY <1>2, <1>3, <2>1, <3>1, <3>2 DEF StillTrue, VersionsOf, IsDraft
    <3>3. CASE w = v
      <4>1. template[t] # "none"
        BY <1>2, <2>1, <3>1, <3>3 DEF Asked
      <4>2. stage = "DRAFT"
        BY <4>1 DEF Making
      <4> QED
        BY <1>2, <3>3, <4>2 DEF IsDraft
    <3> QED
      BY <3>2, <3>3
  <2> QED
    BY <2>1, <2>2, <2>3, <2>4 DEF StillTrue
<1>4. Truthful'
  BY <1>2, <1>3 DEF Truthful, StillTrue
<1>5. PublishedFits'
  <2>1. stage = "PUBLISHED" => \A i \in content : Usable(i.text)
    BY DEF Making
  <2>2. ASSUME NEW w \in Versions, status'[w] \in Told, of'[w] \notin overlapped'
        PROVE  Broken(w)' = {}
    <3>1. CASE w = v
      BY <1>2, <2>1, <2>2, <3>1 DEF Told, Broken
    <3>2. CASE w # v
      BY <1>2, <2>2, <3>2 DEF TemplatesInv, PublishedFits, Broken
    <3> QED
      BY <3>1, <3>2
  <2> QED
    BY <2>2 DEF PublishedFits
<1>6. GivenFits'
  <2> SUFFICES ASSUME NEW r \in Reviews, NEW u \in Templates, NEW w,
                      w = held[r].given[u], w # 0
               PROVE  /\ w \in Versions /\ of'[w] = u /\ status'[w] \in Told \cup {"deleted"}
                      /\ u \notin overlapped =>
                            /\ status'[w] # "deleted"
                            /\ {h.item : h \in {h \in held[r].items : h.version = w}}
                                  = {i \in items'[w] : Applies(r, i)}
    BY <1>2 DEF GivenFits
  <2>1. /\ w \in Versions /\ of[w] = u /\ status[w] \in Told \cup {"deleted"}
        /\ u \notin overlapped =>
              /\ status[w] # "deleted"
              /\ {h.item : h \in {h \in held[r].items : h.version = w}}
                    = {i \in items[w] : Applies(r, i)}
    BY DEF TemplatesInv, GivenFits
  <2>2. w # v
    BY <1>1, <2>1 DEF Templates
  <2> QED
    BY <1>2, <2>1, <2>2
<1>7. HeldFits'
  <2>1. ASSUME NEW r \in Reviews, NEW h \in held[r].items
        PROVE  h.version \in Versions
    BY <1>0 DEF TemplatesTyped, Snapshot
  <2> QED
    BY <1>1, <1>2, <2>1 DEF TemplatesInv, HeldFits
<1> QED
  BY <1>4, <1>5, <1>6, <1>7

LEMMA AskingFits ==
    ASSUME TemplatesInv, NEW e \in Editors, NEW q, Asking(e, q)
    PROVE  Truthful' /\ PublishedFits' /\ GivenFits' /\ HeldFits'
<1>0. TemplatesTyped
  BY DEF TemplatesInv, TemplatesOrdered
<1>1. /\ UNCHANGED <<template, of, status, published, items, base, changes, held, overlapped>>
      /\ request' = [request EXCEPT ![e] = q] /\ StillTrue(q)
  BY DEF Asking, Step, rows
<1>2. ASSUME NEW f \in Editors PROVE StillTrue(request[f])'
  <2>1. StillTrue(request'[f])
    BY <1>0, <1>1 DEF TemplatesInv, Truthful, TemplatesTyped
  <2> QED
    BY <1>1, <2>1 DEF StillTrue, IsDraft, Broken, MayRetire, PublishedOf, VersionsOf
<1> QED
  BY <1>1, <1>2 DEF TemplatesInv, Truthful, PublishedFits, GivenFits, HeldFits, Broken

(* An item that is committed after its version was published is one that was *)
(* inserted by a request which the publication overtook.                     *)
LEMMA EditingFits ==
    ASSUME TemplatesInv, NEW e \in Editors, NEW v \in Versions,
           NEW before \in SUBSET Item, NEW after \in SUBSET Item,
           Editing(e, v, before, after)
    PROVE  Truthful' /\ PublishedFits' /\ GivenFits' /\ HeldFits'
<1>0. TemplatesTyped /\ TemplatesOrdered
  BY DEF TemplatesInv, TemplatesOrdered
<1>1. Marking(e, of[v]) /\ of[v] \in Templates
  <2>1. Marking(e, of[v])
    BY <1>0, EditingOrdered
  <2>2. of[v] \in Templates
    BY <1>0, TemplatesAssumption DEF Editing, TemplatesTyped, Templates
  <2> QED
    BY <2>1, <2>2
<1>2. /\ UNCHANGED <<template, of, status, held>>
      /\ \A w \in Versions : w # v => items'[w] = items[w]
  BY <1>0 DEF Editing, Edit, TemplatesTyped
<1>3. IsDraft(v) \/ of[v] \in overlapped'
  BY <1>1 DEF Editing, TemplatesInv, Truthful, StillTrue, Marking
<1>4. /\ Truthful' /\ HeldFits'
      /\ \A w \in Versions : of[w] # of[v] /\ status'[w] \in Told /\ of'[w] \notin overlapped'
                                => Broken(w)' = {}
  BY <1>1, <1>2, OthersUntouched
<1>5. ASSUME NEW w \in Versions, status'[w] \in Told, of'[w] \notin overlapped'
      PROVE  Broken(w)' = {}
  <2>1. w # v
    BY <1>2, <1>3, <1>5 DEF Told, IsDraft
  <2> QED
    BY <1>1, <1>2, <1>5, <2>1 DEF TemplatesInv, PublishedFits, Broken, Marking
<1>6. GivenFits'
  BY <1>1, <1>2, <1>3, GivenUntouched DEF Marking, IsDraft, Told
<1> QED
  BY <1>4, <1>5, <1>6 DEF PublishedFits

LEMMA UpdateFits ==
    ASSUME TemplatesInv, NEW e \in Editors, NEW t \in Templates,
           NEW on \in {"active", "inactive"}, UpdateTemplate(e, t, on)
    PROVE  Truthful' /\ PublishedFits' /\ GivenFits' /\ HeldFits'
<1>0. TemplatesTyped /\ TemplatesOrdered
  BY DEF TemplatesInv, TemplatesOrdered
<1>1. /\ Marking(e, t) /\ UNCHANGED <<of, status, items, held>>
      /\ \A u \in Templates : u # t => template'[u] = template[u]
  BY <1>0, UpdateOrdered DEF UpdateTemplate, TemplatesTyped
<1>2. Truthful' /\ HeldFits'
  BY <1>1, OthersUntouched
<1>3. GivenFits'
  BY <1>1, GivenUntouched DEF Marking
<1>4. PublishedFits'
  BY <1>1 DEF TemplatesInv, PublishedFits, Broken, Marking
<1> QED
  BY <1>2, <1>3, <1>4

(* What is published was inspected, unless its template was written to since. *)
LEMMA StageFits ==
    ASSUME TemplatesInv, NEW e \in Editors, PublishWrite(e) \/ RetireWrite(e)
    PROVE  Truthful' /\ PublishedFits' /\ GivenFits' /\ HeldFits'
<1>0. TemplatesTyped /\ TemplatesOrdered
  BY DEF TemplatesInv, TemplatesOrdered
<1> DEFINE v == request[e].at
           t == of[v]
<1>1. Marking(e, t) /\ v \in Versions /\ t \in Templates
  BY <1>0, StageOrdered
<1>2. /\ UNCHANGED <<template, of, items, held>>
      /\ \A w \in Versions : w # v => status'[w] = status[w]
  BY <1>0 DEF PublishWrite, RetireWrite, TemplatesTyped
<1>3. /\ Truthful' /\ HeldFits'
      /\ \A w \in Versions : of[w] # t /\ status'[w] \in Told /\ of'[w] \notin overlapped'
                                => Broken(w)' = {}
  <2>1. \A w \in Versions : of[w] # t => status'[w] = status[w]
    BY <1>2
  <2> HIDE DEF t
  <2> QED
    BY <1>1, <1>2, <2>1, OthersUntouched
<1>4. \/ IsDraft(v) /\ (Broken(v) = {} \/ t \in overlapped')
      \/ status[v] \in Told /\ status'[v] = "RETIRED"
  <2>1. CASE PublishWrite(e)
    BY <1>1, <2>1 DEF PublishWrite, TemplatesInv, Truthful, StillTrue, Marking
  <2>2. CASE RetireWrite(e)
    BY <1>0, <1>1, <2>2 DEF RetireWrite, Told, TemplatesTyped
  <2> QED
    BY <2>1, <2>2
<1>5. ASSUME NEW w \in Versions, status'[w] \in Told, of'[w] \notin overlapped'
      PROVE  Broken(w)' = {}
  <2>1. Broken(w)' = Broken(w) /\ of'[w] = of[w]
    BY <1>2 DEF Broken
  <2>2. CASE w = v
    BY <1>1, <1>4, <1>5, <2>1, <2>2 DEF TemplatesInv, PublishedFits, Marking
  <2>3. CASE w # v
    BY <1>1, <1>2, <1>5, <2>1, <2>3 DEF TemplatesInv, PublishedFits, Marking
  <2> QED
    BY <2>2, <2>3
<1>6. GivenFits'
  <2>1. ASSUME NEW w \in Versions, status[w] \in Told \cup {"deleted"}
        PROVE  /\ status'[w] \in Told \cup {"deleted"}
               /\ status[w] # "deleted" => status'[w] # "deleted"
    BY <1>2, <1>4, <2>1 DEF IsDraft, Told
  <2> QED
    BY <1>1, <1>2, <2>1, GivenUntouched DEF Marking
<1> QED
  BY <1>3, <1>5, <1>6 DEF PublishedFits

(* A template that goes had nothing published, unless that came in between.  *)
LEMMA DeleteFits ==
    ASSUME TemplatesInv, NEW e \in Editors, DeleteWrite(e)
    PROVE  Truthful' /\ PublishedFits' /\ GivenFits' /\ HeldFits'
<1>0. TemplatesTyped /\ TemplatesOrdered
  BY DEF TemplatesInv, TemplatesOrdered
<1> DEFINE t == request[e].on
<1>1. Marking(e, t) /\ t \in Templates
  BY <1>0, DeleteOrdered
<1>2. /\ UNCHANGED <<of, held>>
      /\ \A u \in Templates : u # t => template'[u] = template[u]
      /\ \A w \in Versions : of[w] # t => status'[w] = status[w] /\ items'[w] = items[w]
      /\ \A w \in Versions : of[w] = t => status'[w] = "deleted"
  BY <1>0 DEF DeleteWrite, VersionsOf, TemplatesTyped
<1>3. t \in overlapped' \/ \A w \in Versions : of[w] = t => IsDraft(w)
  BY <1>1 DEF DeleteWrite, TemplatesInv, Truthful, StillTrue, Marking, VersionsOf
<1> HIDE DEF t
<1>4. /\ Truthful' /\ HeldFits'
      /\ \A w \in Versions : of[w] # t /\ status'[w] \in Told /\ of'[w] \notin overlapped'
                                => Broken(w)' = {}
  BY <1>1, <1>2, OthersUntouched
<1>5. PublishedFits'
  BY <1>2, <1>4 DEF PublishedFits, Told
<1>6. GivenFits'
  <2>1. ASSUME NEW w \in Versions, of[w] # 0, status[w] \in Told \cup {"deleted"}
        PROVE  /\ status'[w] \in Told \cup {"deleted"}
               /\ of[w] \notin overlapped' /\ status[w] # "deleted" =>
                     status'[w] # "deleted" /\ items'[w] = items[w]
    BY <1>2, <1>3, <2>1 DEF IsDraft, Told
  <2> QED
    BY <1>1, <1>2, <2>1, GivenUntouched DEF Marking
<1> QED
  BY <1>4, <1>5, <1>6

(* A review is given what the last published version of a template says.     *)
LEMMA GivenIsPublished ==
    ASSUME TemplatesTyped, NEW t \in Templates, Given(t) # 0
    PROVE  Given(t) \in Versions /\ of[Given(t)] = t /\ status[Given(t)] = "PUBLISHED"
  BY LatestIsPublished DEF Given, PublishedOf, VersionsOf

LEMMA ReviewFits ==
    ASSUME TemplatesInv, NEW r \in Reviews, CreateReview(r)
    PROVE  Truthful' /\ PublishedFits' /\ GivenFits' /\ HeldFits'
<1>0. TemplatesTyped
  BY DEF TemplatesInv, TemplatesOrdered
<1>1. /\ UNCHANGED <<template, of, status, published, items, base, changes, request, overlapped>>
      /\ \A s \in Reviews : s # r => held'[s] = held[s]
  BY <1>0 DEF CreateReview, rows, TemplatesTyped
<1>2. /\ held'[r].given = [t \in Templates |-> Given(t)]
      /\ held'[r].items = UNION {{[version |-> v, item |-> i] :
                                     i \in {i \in items[v] : Applies(r, i)}} :
                                 v \in {Given(t) : t \in Templates} \ {0}}
  BY <1>0 DEF CreateReview, TemplatesTyped
<1>3. ASSUME NEW h \in held'[r].items
      PROVE  /\ h.version \in {Given(t) : t \in Templates} \ {0}
             /\ h.item \in items[h.version] /\ Applies(r, h.item)
  BY <1>2
<1>4. ASSUME NEW t \in Templates, NEW v, v = Given(t), v # 0
      PROVE  /\ v \in Versions /\ of[v] = t /\ status[v] = "PUBLISHED"
             /\ {h.item : h \in {h \in held'[r].items : h.version = v}}
                   = {i \in items[v] : Applies(r, i)}
  <2>1. v \in Versions /\ of[v] = t /\ status[v] = "PUBLISHED"
    BY <1>0, <1>4, GivenIsPublished
  <2>2. ASSUME NEW i \in items[v], Applies(r, i)
        PROVE  \E h \in held'[r].items : h.version = v /\ h.item = i
    <3> DEFINE h == [version |-> v, item |-> i]
    <3>1. h \in held'[r].items
      BY <1>2, <1>4, <2>2
    <3>2. h.version = v /\ h.item = i
      OBVIOUS
    <3> QED
      BY <3>1, <3>2
  <2> QED
    BY <1>3, <2>1, <2>2
<1>5. Truthful' /\ PublishedFits'
  BY <1>1 DEF TemplatesInv, Truthful, StillTrue, IsDraft, MayRetire, PublishedOf, VersionsOf,
              PublishedFits, Broken
<1>6. GivenFits'
  <2>1. ASSUME NEW s \in Reviews, NEW t \in Templates, NEW v, v = held'[s].given[t], v # 0
        PROVE  /\ v \in Versions /\ of[v] = t /\ status[v] \in Told \cup {"deleted"}
               /\ t \notin overlapped =>
                     /\ status[v] # "deleted"
                     /\ {h.item : h \in {h \in held'[s].items : h.version = v}}
                           = {i \in items[v] : Applies(s, i)}
    <3>1. CASE s = r
      BY <1>2, <1>4, <2>1, <3>1 DEF Told
    <3>2. CASE s # r
      BY <1>1, <2>1, <3>2 DEF TemplatesInv, GivenFits
    <3> QED
      BY <3>1, <3>2
  <2> QED
    BY <1>1, <2>1 DEF GivenFits
<1>7. HeldFits'
  <2>1. ASSUME NEW h \in held'[r].items
        PROVE  of[h.version] # 0 /\ (Usable(h.item.text) \/ of[h.version] \in overlapped)
    <3>1. PICK t \in Templates : h.version = Given(t) /\ Given(t) # 0
      BY <1>3, <2>1
    <3>2. h.version \in Versions /\ of[h.version] = t /\ status[h.version] = "PUBLISHED"
      BY <1>4, <3>1
    <3>3. h.item \in items[h.version]
      BY <1>3, <2>1
    <3>4. t \notin overlapped => Broken(h.version) = {}
      BY <3>2 DEF TemplatesInv, PublishedFits, Told
    <3> QED
      BY <3>2, <3>3, <3>4 DEF Broken, Templates
  <2>2. ASSUME NEW s \in Reviews, s # r, NEW h \in held'[s].items
        PROVE  of[h.version] # 0 /\ (Usable(h.item.text) \/ of[h.version] \in overlapped)
    BY <1>1, <2>2 DEF TemplatesInv, HeldFits
  <2> QED
    BY <1>1, <2>1, <2>2 DEF HeldFits
<1> QED
  BY <1>5, <1>6, <1>7

LEMMA TemplatesKept ==
    ASSUME TemplatesInv, [TemplateNext]_templateVars
    PROVE  TemplatesInv'
<1>0. TemplatesOrdered /\ TemplatesOrdered'
  BY OrderedKept DEF TemplatesInv
<1>1. CASE UNCHANGED templateVars
  BY <1>0, <1>1 DEF templateVars, rows, TemplatesInv, Truthful, StillTrue, IsDraft,
     MayRetire, PublishedOf, VersionsOf, PublishedFits, GivenFits, HeldFits, Broken
<1>2. CASE ~ UNCHANGED templateVars
  <2>1. Truthful' /\ PublishedFits' /\ GivenFits' /\ HeldFits'
    BY <1>0, <1>2, TemplateSteps, MakingFits, AskingFits, EditingFits, UpdateFits,
       StageFits, DeleteFits, ReviewFits
  <2> QED
    BY <1>0, <2>1 DEF TemplatesInv
<1> QED
  BY <1>1, <1>2

LEMMA TemplatesAlways == TemplateSpec => []TemplatesInv
<1>1. ASSUME TemplateInit PROVE TemplatesInv
  <2>1. \A r \in Reviews : held[r].items = {} /\ \A t \in Templates : held[r].given[t] = 0
    BY <1>1 DEF TemplateInit, NoReview
  <2>2. \A e \in Editors : StillTrue(request[e])
    BY <1>1 DEF TemplateInit, Idle, About, StillTrue
  <2>3. \A v \in Versions : status[v] \notin Told
    BY <1>1 DEF TemplateInit, Told
  <2> QED
    BY <1>1, <2>1, <2>2, <2>3, OrderedFirst
       DEF TemplatesInv, Truthful, PublishedFits, GivenFits, HeldFits
<1> QED
  BY <1>1, TemplatesKept, PTL DEF TemplateSpec

-----------------------------------------------------------------------------
(* F[x][g] is a value in V for x, made from those that g gives to what is    *)
(* lower than x: a recursive definition.  A function that follows it exists. *)
Recursive(D, V, height, F) ==
    /\ V # {} /\ height \in [D -> Nat] /\ F \in [D -> [[D -> V] -> V]]
    /\ \A x \in D : \A g, h \in [D -> V] :
          (\A y \in D : height[y] < height[x] => g[y] = h[y]) => F[x][g] = F[x][h]

Follows(f, D, F) == \A x \in D : f[x] = F[x][f]

LEMMA RecursionIsDefined ==
    ASSUME NEW D, NEW V, NEW height, NEW F, Recursive(D, V, height, F)
    PROVE  \E f \in [D -> V] : Follows(f, D, F)
<1> USE DEF Recursive
<1> DEFINE Good(g, n) == \A x \in D : height[x] < n => g[x] = F[x][g]
<1>1. ASSUME NEW n \in Nat, NEW g \in [D -> V], NEW h \in [D -> V], Good(g, n), Good(h, n),
             NEW x \in D, height[x] < n
      PROVE  g[x] = h[x]
  <2> DEFINE T == {height[y] : y \in {y \in D : height[y] < n /\ g[y] # h[y]}}
  <2>1. SUFFICES ASSUME T # {} PROVE FALSE
    BY <1>1
  <2>2. T \in SUBSET Nat
    OBVIOUS
  <2>3. PICK k \in T : \A j \in T : k <= j
    BY <2>1, <2>2, LeastNumber
  <2>4. PICK y \in D : k = height[y] /\ height[y] < n /\ g[y] # h[y]
    BY <2>3
  <2>5. ASSUME NEW z \in D, height[z] < height[y] PROVE g[z] = h[z]
    <3>1. height[z] \in Nat /\ height[y] \in Nat
      OBVIOUS
    <3>2. height[z] < n /\ ~ (k <= height[z])
      BY <2>4, <2>5, <3>1
    <3>3. height[z] \notin T
      BY <2>3, <3>2
    <3> QED
      BY <3>2, <3>3
  <2>6. F[y][g] = F[y][h]
    BY <2>5
  <2> QED
    BY <1>1, <2>4, <2>6
<1>2. ASSUME NEW n \in Nat PROVE \E g \in [D -> V] : Good(g, n)
  <2> DEFINE T == {m \in Nat : ~ \E g \in [D -> V] : Good(g, m)}
  <2>1. SUFFICES ASSUME T # {} PROVE FALSE
    OBVIOUS
  <2>2. PICK m \in T : \A j \in T : m <= j
    BY <2>1, LeastNumber
  <2>3. m # 0
    <3>1. PICK v \in V : TRUE
      OBVIOUS
    <3> DEFINE g == [x \in D |-> v]
    <3>2. g \in [D -> V] /\ Good(g, 0)
      OBVIOUS
    <3> HIDE DEF g, Good
    <3> QED
      BY <2>2, <3>2
  <2>4. m - 1 \in Nat /\ m - 1 \notin T
    <3>1. m - 1 \in Nat /\ ~ (m <= m - 1)
      BY <2>2, <2>3
    <3> HIDE DEF T
    <3> QED
      BY <2>2, <3>1
  <2>5. PICK g \in [D -> V] : Good(g, m - 1)
    BY <2>4
  <2> DEFINE h == [x \in D |-> F[x][g]]
  <2>6. h \in [D -> V]
    OBVIOUS
  <2>7. ASSUME NEW y \in D, height[y] < m - 1 PROVE h[y] = g[y]
    BY <2>5, <2>7
  <2>8. ASSUME NEW x \in D, height[x] < m PROVE h[x] = F[x][h]
    <3>1. ASSUME NEW y \in D, height[y] < height[x] PROVE g[y] = h[y]
      <4>1. height[y] \in Nat /\ height[x] \in Nat /\ m \in Nat
        BY <2>2
      <4>2. height[y] < m - 1
        BY <2>8, <3>1, <4>1
      <4> QED
        BY <2>7, <4>2
    <3>2. F[x][g] = F[x][h]
      BY <2>6, <3>1
    <3> QED
      BY <3>2
  <2> HIDE DEF h
  <2> QED
    BY <2>2, <2>6, <2>8
<1> DEFINE G == [n \in Nat |-> CHOOSE g \in [D -> V] : Good(g, n)]
           f == [x \in D |-> G[height[x] + 1][x]]
<1>3. \A n \in Nat : G[n] \in [D -> V] /\ Good(G[n], n)
  <2> HIDE DEF Good
  <2> QED
    BY <1>2
<1> HIDE DEF G
<1>4. f \in [D -> V]
  BY <1>3
<1>5. ASSUME NEW x \in D PROVE f[x] = F[x][f]
  <2> DEFINE g == G[height[x] + 1]
  <2>1. height[x] \in Nat /\ height[x] + 1 \in Nat /\ height[x] < height[x] + 1
    OBVIOUS
  <2>2. g \in [D -> V] /\ g[x] = F[x][g] /\ Good(g, height[x] + 1)
    BY <1>3, <2>1
  <2>3. ASSUME NEW y \in D, height[y] < height[x] PROVE f[y] = g[y]
    <3>1. height[y] \in Nat /\ height[y] + 1 \in Nat /\ height[y] < height[y] + 1
      OBVIOUS
    <3>2. G[height[y] + 1] \in [D -> V] /\ Good(G[height[y] + 1], height[y] + 1)
      BY <1>3, <3>1
    <3>3. Good(g, height[y] + 1)
      <4>1. \A z \in D : height[z] < height[y] + 1 => height[z] < height[x] + 1
        BY <2>1, <2>3, <3>1
      <4> QED
        BY <2>2, <4>1
    <3>4. G[height[y] + 1][y] = g[y]
      <4> HIDE DEF Good, g
      <4> QED
        BY <1>1, <2>2, <3>1, <3>2, <3>3
    <3> QED
      BY <3>4
  <2> HIDE DEF f
  <2>4. F[x][f] = F[x][g]
    <3> HIDE DEF g, Good
    <3> QED
      BY <1>4, <2>2, <2>3
  <2> QED
    BY <2>2, <2>4 DEF f
<1> QED
  BY <1>4, <1>5 DEF Follows

-----------------------------------------------------------------------------
(* What a walk over a rule makes of a node, given what it makes of the       *)
(* branches; and the sequence of sequences that FlattenSeq walks along.      *)
Validated(f, node) ==
    LET Every(nodes) == \A k \in DOMAIN nodes : f[nodes[k]]
    IN  IF node = Scrap THEN FALSE
        ELSE IF Has(node, "all") THEN Filled(node.all) /\ Every(node.all)
        ELSE IF Has(node, "any") THEN Filled(node.any) /\ Every(node.any)
        ELSE IF Has(node, "not") THEN f[node.not]
        ELSE /\ node.field \in reviewFields
             /\ node.op \in ruleOperators
             /\ node.op = "in" => node.values # <<>>

Holds(f, node, service) ==
    IF node = Scrap THEN TRUE
    ELSE IF Has(node, "all") THEN \A k \in DOMAIN node.all : f[node.all[k]]
    ELSE IF Has(node, "any") THEN \E k \in DOMAIN node.any : f[node.any[k]]
    ELSE IF Has(node, "not") THEN ~ f[node.not]
    ELSE evalLeaf(node, service)

ListedOf(f, node, service) ==
    [negated \in BOOLEAN |->
        IF node = Scrap THEN <<>>
        ELSE IF Has(node, "all") THEN
            FlattenSeq([k \in DOMAIN node.all |-> f[node.all[k]][negated]])
        ELSE IF Has(node, "any") THEN
            FlattenSeq([k \in DOMAIN node.any |-> f[node.any[k]][negated]])
        ELSE IF Has(node, "not") THEN f[node.not][~ negated]
        ELSE <<Heard(evalLeaf(node, service), negated)>>]

Joined(f, seqs, i) == IF i = 1 THEN seqs[i] ELSE f[i - 1] \o seqs[i]

(* A rule is nested finitely deep: it is higher than its branches.           *)
Branches(node) ==
    IF node = Scrap THEN {}
    ELSE IF Has(node, "all") THEN {node.all[k] : k \in DOMAIN node.all}
    ELSE IF Has(node, "any") THEN {node.any[k] : k \in DOMAIN node.any}
    ELSE IF Has(node, "not") THEN {node.not} ELSE {}

Nested(height) ==
    /\ height \in [Rules -> Nat]
    /\ \A node \in Rules : \A b \in Branches(node) : height[b] < height[node]

(* The branches of a rule are rules.                                         *)
LEMMA BranchesAreRules ==
    ASSUME NEW node \in Rules
    PROVE  \A b \in Branches(node) : b \in Rules
  BY RulesAssumption DEF Branches

(* A walk sees of a rule only what it made of the branches.                  *)
LEMMA Agree ==
    ASSUME NEW node \in Rules, NEW g, NEW h, NEW service,
           \A b \in Branches(node) : g[b] = h[b]
    PROVE  /\ Validated(g, node) <=> Validated(h, node)
           /\ Holds(g, node, service) <=> Holds(h, node, service)
           /\ ListedOf(g, node, service) = ListedOf(h, node, service)
<1>1. Validated(g, node) <=> Validated(h, node)
  BY DEF Validated, Branches
<1>2. Holds(g, node, service) <=> Holds(h, node, service)
  BY DEF Holds, Branches
<1>3. ListedOf(g, node, service) = ListedOf(h, node, service)
  <2>1. CASE node # Scrap /\ Has(node, "all")
    <3>1. \A k \in DOMAIN node.all : g[node.all[k]] = h[node.all[k]]
      BY <2>1 DEF Branches
    <3>2. \A neg \in BOOLEAN : [k \in DOMAIN node.all |-> g[node.all[k]][neg]]
                               = [k \in DOMAIN node.all |-> h[node.all[k]][neg]]
      BY <3>1
    <3> QED
      BY <2>1, <3>2 DEF ListedOf
  <2>2. CASE node # Scrap /\ ~ Has(node, "all") /\ Has(node, "any")
    <3>1. \A k \in DOMAIN node.any : g[node.any[k]] = h[node.any[k]]
      BY <2>2 DEF Branches
    <3>2. \A neg \in BOOLEAN : [k \in DOMAIN node.any |-> g[node.any[k]][neg]]
                               = [k \in DOMAIN node.any |-> h[node.any[k]][neg]]
      BY <3>1
    <3> QED
      BY <2>2, <3>2 DEF ListedOf
  <2>3. CASE node = Scrap \/ (~ Has(node, "all") /\ ~ Has(node, "any"))
    BY <2>3 DEF ListedOf, Branches
  <2> QED
    BY <2>1, <2>2, <2>3
<1> QED
  BY <1>1, <1>2, <1>3

(* The walks of the module are these functions.                              *)
LEMMA ValidateIs == validateRule = CHOOSE f : f = [node \in Rules |-> Validated(f, node)]
  BY DEF validateRule, Validated

(* The two that depend on a service.                                         *)
Holding(service) == CHOOSE f : f = [node \in Rules |-> Holds(f, node, service)]
Listing(service) == CHOOSE f : f = [node \in Rules |-> ListedOf(f, node, service)]

(* A rule holds if the engine's walk gives so at its root.                   *)
LEMMA EvalIs ==
    ASSUME NEW rule, NEW service
    PROVE  evalNode(rule, service) = Holding(service)[rule]
  BY DEF evalNode, Holds, Holding

(* The conditions of a rule are those its walk lists at the root.            *)
LEMMA CollectIs ==
    ASSUME NEW rule, NEW service
    PROVE  collectConditions(rule, service) = Listing(service)[rule][FALSE]
  BY DEF collectConditions, ListedOf, Listing

(* A list of conditions has one that is met (TRUE), or one that fails.       *)
Says(s, b) == \E k \in DOMAIN s : s[k] = b

(* Two lists joined say what either of them says.                            *)
LEMMA SaysOfBoth ==
    ASSUME NEW s \in Seq(BOOLEAN), NEW t \in Seq(BOOLEAN), NEW b
    PROVE  s \o t \in Seq(BOOLEAN) /\ (Says(s \o t, b) <=> Says(s, b) \/ Says(t, b))
<1>1. /\ s \o t \in Seq(BOOLEAN) /\ Len(s \o t) = Len(s) + Len(t)
      /\ \A i \in 1 .. Len(s) + Len(t) :
            (s \o t)[i] = IF i <= Len(s) THEN s[i] ELSE t[i - Len(s)]
  BY ConcatProperties
<1>2. /\ DOMAIN s = 1..Len(s) /\ DOMAIN t = 1..Len(t)
      /\ DOMAIN (s \o t) = 1..(Len(s) + Len(t)) /\ Len(s) \in Nat /\ Len(t) \in Nat
  BY <1>1
<1> DEFINE st == s \o t
<1> HIDE DEF st
<1>3. Says(s, b) => Says(st, b)
  <2>1. ASSUME NEW k \in 1..Len(s) PROVE k \in DOMAIN st /\ st[k] = s[k]
    BY <1>1, <1>2 DEF st
  <2> QED
    BY <1>2, <2>1 DEF Says
<1>4. Says(t, b) => Says(st, b)
  <2>1. ASSUME NEW k \in 1..Len(t)
        PROVE  Len(s) + k \in DOMAIN st /\ st[Len(s) + k] = t[k]
    <3>1. /\ Len(s) + k \in 1..(Len(s) + Len(t)) /\ ~ (Len(s) + k <= Len(s))
          /\ (Len(s) + k) - Len(s) = k
      BY <1>2
    <3> QED
      BY <1>1, <1>2, <3>1 DEF st
  <2> QED
    BY <1>2, <2>1 DEF Says
<1>5. Says(st, b) => Says(s, b) \/ Says(t, b)
  <2>1. ASSUME NEW k \in 1..(Len(s) + Len(t)), st[k] = b PROVE Says(s, b) \/ Says(t, b)
    <3>1. CASE k <= Len(s)
      BY <1>1, <1>2, <2>1, <3>1 DEF st, Says
    <3>2. CASE ~ (k <= Len(s))
      <4>1. k - Len(s) \in DOMAIN t
        BY <1>2, <3>2
      <4> QED
        BY <1>1, <2>1, <3>2, <4>1 DEF st, Says
    <3> QED
      BY <3>1, <3>2
  <2> QED
    BY <1>2, <2>1 DEF st, Says
<1> QED
  BY <1>1, <1>3, <1>4, <1>5 DEF st

(* What is listed is what one of the sequences lists.                        *)
LEMMA FlattenSays ==
    ASSUME NEW seqs \in Seq(Seq(BOOLEAN))
    PROVE  /\ FlattenSeq(seqs) \in Seq(BOOLEAN)
           /\ \A b \in BOOLEAN :
                 Says(FlattenSeq(seqs), b) <=> \E k \in DOMAIN seqs : Says(seqs[k], b)
<1>1. CASE Len(seqs) = 0
  <2>1. seqs = <<>> /\ FlattenSeq(seqs) = <<>>
    BY <1>1 DEF FlattenSeq
  <2>2. DOMAIN <<>> = {} /\ <<>> \in Seq(BOOLEAN)
    BY EmptySeq
  <2> QED
    BY <2>1, <2>2 DEF Says
<1>2. CASE Len(seqs) # 0
  <2>0. PICK n \in Nat : n = Len(seqs)
    OBVIOUS
  <2>1. n \in Nat /\ n # 0 /\ DOMAIN seqs = 1..n
    BY <1>2, <2>0
  <2> DEFINE V == Seq(BOOLEAN)
             h == CHOOSE f : f = [i \in 1..n |-> Joined(f, seqs, i)]
             F == [i \in 1..n |-> [g \in [1..n -> V] |-> Joined(g, seqs, i)]]
             height == [i \in 1..n |-> i]
  <2>2. FlattenSeq(seqs) = h[n]
    BY <1>2, <2>0 DEF FlattenSeq, Joined
  <2>3. \A i \in 1..n : seqs[i] \in V
    BY <2>1
  <2>4. \E f \in [1..n -> V] : \A i \in 1..n : f[i] = F[i][f]
    <3>1. ASSUME NEW i \in 1..n, NEW g \in [1..n -> V] PROVE Joined(g, seqs, i) \in V
      <4>1. CASE i = 1
        BY <2>3, <4>1 DEF Joined
      <4>2. CASE i # 1
        <5>1. i - 1 \in 1..n
          BY <2>1, <4>2
        <5>2. g[i - 1] \in Seq(BOOLEAN) /\ seqs[i] \in Seq(BOOLEAN)
          BY <2>3, <5>1
        <5> QED
          BY <4>2, <5>2, ConcatProperties DEF Joined
      <4> QED
        BY <4>1, <4>2
    <3>2. F \in [1..n -> [[1..n -> V] -> V]]
      BY <3>1
    <3>3. V # {} /\ height \in [1..n -> Nat]
      BY <2>3, <2>1
    <3>4. ASSUME NEW i \in 1..n, NEW g \in [1..n -> V], NEW k \in [1..n -> V],
                 \A j \in 1..n : height[j] < height[i] => g[j] = k[j]
          PROVE  F[i][g] = F[i][k]
      <4>1. i # 1 => i - 1 \in 1..n /\ i - 1 < i
        BY <2>1
      <4>2. Joined(g, seqs, i) = Joined(k, seqs, i)
        BY <3>4, <4>1 DEF Joined
      <4> QED
        BY <4>2
    <3> DEFINE D == 1..n
    <3>5. \A i \in D : \A g, k \in [D -> V] :
             (\A j \in D : height[j] < height[i] => g[j] = k[j]) => F[i][g] = F[i][k]
      <4> HIDE DEF F, height, V
      <4> QED
        BY <3>4
    <3>6. F \in [D -> [[D -> V] -> V]] /\ height \in [D -> Nat]
      BY <3>2, <3>3
    <3>7. Recursive(D, V, height, F)
      <4> HIDE DEF F, height, V, D
      <4> QED
        BY <3>3, <3>5, <3>6 DEF Recursive
    <3>8. \E f \in [D -> V] : Follows(f, D, F)
      <4> HIDE DEF F, height, V, D
      <4> QED
        BY <3>7, RecursionIsDefined
    <3> HIDE DEF F, height, V
    <3> QED
      BY <3>8 DEF Follows
  <2>5. \E f : f = [i \in 1..n |-> Joined(f, seqs, i)]
    <3>1. PICK f \in [1..n -> V] : \A i \in 1..n : f[i] = F[i][f]
      BY <2>4
    <3>2. f = [i \in 1..n |-> Joined(f, seqs, i)]
      BY <3>1
    <3> QED
      BY <3>2
  <2>6. h = [i \in 1..n |-> Joined(h, seqs, i)]
    BY <2>5
  <2> HIDE DEF h
  <2> DEFINE Fine(i) == /\ h[i] \in Seq(BOOLEAN)
                        /\ \A b \in BOOLEAN : Says(h[i], b) <=> \E k \in 1..i : Says(seqs[k], b)
             T == {i \in 1..n : ~ Fine(i)}
  <2>7. SUFFICES ASSUME T # {} PROVE FALSE
    <3>1. n \in 1..n
      BY <2>1
    <3>2. Fine(n)
      BY <2>7, <3>1
    <3> QED
      BY <2>1, <2>2, <3>2
  <2>8. PICK i \in T : \A j \in T : i <= j
    <3>1. T \in SUBSET Nat
      OBVIOUS
    <3> QED
      BY <2>7, <3>1, LeastNumber
  <2>9. i \in 1..n /\ h[i] = Joined(h, seqs, i)
    BY <2>6
  <2>10. CASE i = 1
    BY <2>3, <2>8, <2>9, <2>10 DEF Joined
  <2>11. CASE i # 1
    <3>1. i - 1 \in 1..n /\ ~ (i <= i - 1) /\ 1..i = (1..(i - 1)) \cup {i}
      BY <2>9, <2>11
    <3>2. Fine(i - 1)
      BY <2>8, <3>1
    <3>3. h[i] = h[i - 1] \o seqs[i] /\ seqs[i] \in Seq(BOOLEAN)
      BY <2>3, <2>9, <2>11 DEF Joined
    <3>4. \A b \in BOOLEAN : Says(h[i], b) <=> Says(h[i - 1], b) \/ Says(seqs[i], b)
      BY <3>2, <3>3, SaysOfBoth
    <3>5. h[i] \in Seq(BOOLEAN)
      BY <3>2, <3>3, SaysOfBoth
    <3> QED
      BY <2>8, <3>1, <3>2, <3>4, <3>5
  <2> QED
    BY <2>10, <2>11
<1> QED
  BY <1>1, <1>2

(* Validation makes of every rule what its definition says.                  *)
LEMMA ValidateFollows ==
    ASSUME NEW height, Nested(height), NEW node \in Rules
    PROVE  validateRule[node] = Validated(validateRule, node)
<1> DEFINE D == Rules
           F == [x \in D |-> [g \in [D -> BOOLEAN] |-> Validated(g, x)]]
<1>1. ASSUME NEW x \in D, NEW g \in [D -> BOOLEAN] PROVE Validated(g, x) \in BOOLEAN
  BY RulesAssumption DEF Validated
<1>2. F \in [D -> [[D -> BOOLEAN] -> BOOLEAN]]
  BY <1>1
<1>3. ASSUME NEW x \in D, NEW g \in [D -> BOOLEAN], NEW h \in [D -> BOOLEAN],
             \A y \in D : height[y] < height[x] => g[y] = h[y]
      PROVE  F[x][g] = F[x][h]
  <2>1. \A b \in Branches(x) : g[b] = h[b]
    BY <1>3, BranchesAreRules DEF Nested
  <2>2. Validated(g, x) = Validated(h, x)
    BY <1>1, <2>1, Agree
  <2> QED
    BY <2>2
<1>4. Recursive(D, BOOLEAN, height, F)
  <2>1. height \in [D -> Nat]
    BY DEF Nested
  <2> HIDE DEF F, D
  <2> QED
    BY <1>2, <1>3, <2>1 DEF Recursive
<1>5. \E f \in [D -> BOOLEAN] : Follows(f, D, F)
  <2> HIDE DEF F, D
  <2> QED
    BY <1>4, RecursionIsDefined
<1>6. \E f : f = [x \in Rules |-> Validated(f, x)]
  <2>1. PICK f \in [D -> BOOLEAN] : \A x \in D : f[x] = F[x][f]
    BY <1>5 DEF Follows
  <2>2. f = [x \in Rules |-> Validated(f, x)]
    BY <2>1
  <2> QED
    BY <2>2
<1>7. validateRule = [x \in Rules |-> Validated(validateRule, x)]
  BY <1>6, ValidateIs
<1> QED
  BY <1>7

(* A leaf is met or it fails.                                                *)
LEMMA LeafIsDecided ==
    ASSUME NEW leaf, NEW service
    PROVE  evalLeaf(leaf, service) \in BOOLEAN
  BY DEF evalLeaf, Compared

(* The engine makes of every rule what its definition says.                  *)
LEMMA HoldingFollows ==
    ASSUME NEW height, Nested(height), NEW service, NEW node \in Rules
    PROVE  Holding(service)[node] = Holds(Holding(service), node, service)
<1> DEFINE D == Rules
           F == [x \in D |-> [g \in [D -> BOOLEAN] |-> Holds(g, x, service)]]
<1>1. ASSUME NEW x \in D, NEW g \in [D -> BOOLEAN] PROVE Holds(g, x, service) \in BOOLEAN
  BY LeafIsDecided DEF Holds
<1>2. F \in [D -> [[D -> BOOLEAN] -> BOOLEAN]]
  BY <1>1
<1>3. ASSUME NEW x \in D, NEW g \in [D -> BOOLEAN], NEW h \in [D -> BOOLEAN],
             \A y \in D : height[y] < height[x] => g[y] = h[y]
      PROVE  F[x][g] = F[x][h]
  <2>1. \A b \in Branches(x) : g[b] = h[b]
    BY <1>3, BranchesAreRules DEF Nested
  <2>2. Holds(g, x, service) = Holds(h, x, service)
    BY <1>1, <2>1, Agree
  <2> QED
    BY <2>2
<1>4. Recursive(D, BOOLEAN, height, F)
  <2>1. height \in [D -> Nat]
    BY DEF Nested
  <2> HIDE DEF F, D
  <2> QED
    BY <1>2, <1>3, <2>1 DEF Recursive
<1>5. \E f \in [D -> BOOLEAN] : Follows(f, D, F)
  <2> HIDE DEF F, D
  <2> QED
    BY <1>4, RecursionIsDefined
<1>6. \E f : f = [x \in Rules |-> Holds(f, x, service)]
  <2>1. PICK f \in [D -> BOOLEAN] : \A x \in D : f[x] = F[x][f]
    BY <1>5 DEF Follows
  <2>2. f = [x \in Rules |-> Holds(f, x, service)]
    BY <2>1
  <2> QED
    BY <2>2
<1> DEFINE h == Holding(service)
<1>7. h = [x \in Rules |-> Holds(h, x, service)]
  BY <1>6 DEF Holding
<1> HIDE DEF h
<1>8. h[node] = Holds(h, node, service)
  BY <1>7
<1> QED
  BY <1>8 DEF h

(* So does the walk that lists the conditions.                               *)
LEMMA ListingFollows ==
    ASSUME NEW height, Nested(height), NEW service, NEW node \in Rules
    PROVE  Listing(service)[node] = ListedOf(Listing(service), node, service)
<1> DEFINE D == Rules
           V == [BOOLEAN -> Seq(BOOLEAN)]
           F == [x \in D |-> [g \in [D -> V] |-> ListedOf(g, x, service)]]
<1>1. ASSUME NEW x \in D, NEW g \in [D -> V] PROVE ListedOf(g, x, service) \in V
  <2> SUFFICES ASSUME NEW negated \in BOOLEAN
               PROVE  ListedOf(g, x, service)[negated] \in Seq(BOOLEAN)
    BY DEF ListedOf
  <2>1. ASSUME NEW nodes \in Seq(Rules)
        PROVE  FlattenSeq([k \in DOMAIN nodes |-> g[nodes[k]][negated]]) \in Seq(BOOLEAN)
    <3> DEFINE seqs == [k \in DOMAIN nodes |-> g[nodes[k]][negated]]
    <3>1. DOMAIN nodes = 1..Len(nodes) /\ Len(nodes) \in Nat
      OBVIOUS
    <3>2. \A k \in 1..Len(nodes) : g[nodes[k]][negated] \in Seq(BOOLEAN)
      BY <3>1
    <3>3. seqs \in Seq(Seq(BOOLEAN))
      BY <3>1, <3>2
    <3> HIDE DEF seqs
    <3> QED
      BY <3>3, FlattenSays DEF seqs
  <2>2. CASE x = Scrap
    BY <2>2, EmptySeq DEF ListedOf
  <2>3. CASE x # Scrap /\ Has(x, "all")
    BY <2>1, <2>3, RulesAssumption DEF ListedOf
  <2>4. CASE x # Scrap /\ ~ Has(x, "all") /\ Has(x, "any")
    BY <2>1, <2>4, RulesAssumption DEF ListedOf
  <2>5. CASE x # Scrap /\ ~ Has(x, "all") /\ ~ Has(x, "any") /\ Has(x, "not")
    BY <2>5, RulesAssumption DEF ListedOf
  <2>6. CASE x # Scrap /\ ~ Has(x, "all") /\ ~ Has(x, "any") /\ ~ Has(x, "not")
    <3>1. Heard(evalLeaf(x, service), negated) \in BOOLEAN
      BY DEF Heard
    <3> QED
      BY <2>6, <3>1 DEF ListedOf
  <2> QED
    BY <2>2, <2>3, <2>4, <2>5, <2>6
<1>2. F \in [D -> [[D -> V] -> V]]
  BY <1>1
<1>3. ASSUME NEW x \in D, NEW g \in [D -> V], NEW h \in [D -> V],
             \A y \in D : height[y] < height[x] => g[y] = h[y]
      PROVE  F[x][g] = F[x][h]
  <2>1. \A b \in Branches(x) : g[b] = h[b]
    BY <1>3, BranchesAreRules DEF Nested
  <2>2. ListedOf(g, x, service) = ListedOf(h, x, service)
    BY <2>1, Agree
  <2> QED
    BY <2>2
<1>4. Recursive(D, V, height, F)
  <2>1. height \in [D -> Nat]
    BY DEF Nested
  <2>2. V # {}
    <3>1. [b \in BOOLEAN |-> <<>>] \in V
      BY EmptySeq
    <3> QED
      BY <3>1
  <2> HIDE DEF F, D, V
  <2> QED
    BY <1>2, <1>3, <2>1, <2>2 DEF Recursive
<1>5. \E f \in [D -> V] : Follows(f, D, F)
  <2> HIDE DEF F, D, V
  <2> QED
    BY <1>4, RecursionIsDefined
<1>6. \E f : f = [x \in Rules |-> ListedOf(f, x, service)]
  <2>1. PICK f \in [D -> V] : \A x \in D : f[x] = F[x][f]
    BY <1>5 DEF Follows
  <2>2. f = [x \in Rules |-> ListedOf(f, x, service)]
    BY <2>1
  <2> QED
    BY <2>2
<1> DEFINE h == Listing(service)
<1>7. h = [x \in Rules |-> ListedOf(h, x, service)]
  BY <1>6 DEF Listing
<1> HIDE DEF h
<1>8. h[node] = ListedOf(h, node, service)
  BY <1>7
<1> QED
  BY <1>8 DEF h

(* A list decides a rule under a number of negations: some condition is      *)
(* listed, when none of them fails the rule holds read that way round, and   *)
(* when all of them fail it does not.                                        *)
Decides(list, holds, negated) ==
    /\ Says(list, TRUE) \/ Says(list, FALSE)
    /\ ~ Says(list, FALSE) => (holds <=> ~ negated)
    /\ ~ Says(list, TRUE) => (holds <=> negated)

DecidedAt(node, service) ==
    \A negated \in BOOLEAN :
        /\ Listing(service)[node][negated] \in Seq(BOOLEAN)
        /\ validateRule[node] =>
              Decides(Listing(service)[node][negated], Holding(service)[node], negated)

(* A rule is decided by its list when its branches are.                      *)
LEMMA NodeIsDecided ==
    ASSUME NEW height, Nested(height), NEW service, NEW node \in Rules,
           \A b \in Branches(node) : DecidedAt(b, service)
    PROVE  DecidedAt(node, service)
<1> DEFINE L == Listing(service)
           H == Holding(service)
<1>1. /\ validateRule[node] = Validated(validateRule, node)
      /\ H[node] = Holds(H, node, service)
      /\ L[node] = ListedOf(L, node, service)
  BY ValidateFollows, HoldingFollows, ListingFollows
<1>2. \A b \in Branches(node) : \A negated \in BOOLEAN :
         /\ L[b][negated] \in Seq(BOOLEAN)
         /\ validateRule[b] => Decides(L[b][negated], H[b], negated)
  BY DEF DecidedAt
<1> HIDE DEF L, H
<1>3. SUFFICES ASSUME NEW negated \in BOOLEAN
               PROVE  /\ L[node][negated] \in Seq(BOOLEAN)
                      /\ validateRule[node] => Decides(L[node][negated], H[node], negated)
  BY DEF DecidedAt, L, H
<1>4. ASSUME NEW nodes \in Seq(Rules), \A k \in DOMAIN nodes : nodes[k] \in Branches(node),
             L[node][negated] = FlattenSeq([k \in DOMAIN nodes |-> L[nodes[k]][negated]])
      PROVE  /\ L[node][negated] \in Seq(BOOLEAN)
             /\ \A b \in BOOLEAN : Says(L[node][negated], b) <=>
                   \E k \in DOMAIN nodes : Says(L[nodes[k]][negated], b)
  <2> DEFINE seqs == [k \in DOMAIN nodes |-> L[nodes[k]][negated]]
  <2>1. DOMAIN nodes = 1..Len(nodes) /\ Len(nodes) \in Nat
    BY <1>4
  <2>2. \A k \in 1..Len(nodes) : L[nodes[k]][negated] \in Seq(BOOLEAN)
    BY <1>2, <1>4, <2>1
  <2>3. seqs \in Seq(Seq(BOOLEAN)) /\ DOMAIN seqs = DOMAIN nodes
    BY <2>1, <2>2
  <2>4. \A k \in DOMAIN nodes : seqs[k] = L[nodes[k]][negated]
    OBVIOUS
  <2>5. L[node][negated] = FlattenSeq(seqs)
    BY <1>4
  <2> HIDE DEF seqs
  <2> QED
    BY <2>3, <2>4, <2>5, FlattenSays
<1>5. CASE node = Scrap
  BY <1>1, <1>5, EmptySeq DEF ListedOf, Validated
<1>6. CASE node # Scrap /\ Has(node, "all")
  <2> DEFINE nodes == node.all
  <2>1. nodes \in Seq(Rules)
    BY <1>6, RulesAssumption
  <2>2. \A k \in DOMAIN nodes : nodes[k] \in Branches(node)
    BY <1>6 DEF Branches
  <2>3. L[node][negated] = FlattenSeq([k \in DOMAIN nodes |-> L[nodes[k]][negated]])
    BY <1>1, <1>6 DEF ListedOf
  <2>4. /\ L[node][negated] \in Seq(BOOLEAN)
        /\ \A b \in BOOLEAN : Says(L[node][negated], b) <=>
              \E k \in DOMAIN nodes : Says(L[nodes[k]][negated], b)
    BY <1>4, <2>1, <2>2, <2>3
  <2>5. ASSUME validateRule[node]
        PROVE  nodes # <<>> /\ \A k \in DOMAIN nodes : validateRule[nodes[k]]
    BY <1>1, <1>6, <2>5 DEF Validated, Filled
  <2>6. H[node] <=> \A k \in DOMAIN nodes : H[nodes[k]]
    BY <1>1, <1>6 DEF Holds
  <2>7. nodes # <<>> => \E k \in DOMAIN nodes : TRUE
    <3> HIDE DEF nodes
    <3>1. nodes # <<>> => Len(nodes) \in Nat \ {0}
      BY <2>1, EmptySeq
    <3>2. DOMAIN nodes = 1 .. Len(nodes)
      BY <2>1
    <3>3. nodes # <<>> => 1 \in DOMAIN nodes
      BY <3>1, <3>2
    <3> QED
      BY <3>3
  <2>8. ASSUME validateRule[node] PROVE Decides(L[node][negated], H[node], negated)
    <3>1. \A k \in DOMAIN nodes : Decides(L[nodes[k]][negated], H[nodes[k]], negated)
      BY <1>2, <2>2, <2>5, <2>8
    <3> HIDE DEF nodes
    <3> QED
      BY <2>4, <2>5, <2>6, <2>7, <2>8, <3>1 DEF Decides
  <2> QED
    BY <2>4, <2>8
<1>7. CASE node # Scrap /\ ~ Has(node, "all") /\ Has(node, "any")
  <2> DEFINE nodes == node.any
  <2>1. nodes \in Seq(Rules)
    BY <1>7, RulesAssumption
  <2>2. \A k \in DOMAIN nodes : nodes[k] \in Branches(node)
    BY <1>7 DEF Branches
  <2>3. L[node][negated] = FlattenSeq([k \in DOMAIN nodes |-> L[nodes[k]][negated]])
    BY <1>1, <1>7 DEF ListedOf
  <2>4. /\ L[node][negated] \in Seq(BOOLEAN)
        /\ \A b \in BOOLEAN : Says(L[node][negated], b) <=>
              \E k \in DOMAIN nodes : Says(L[nodes[k]][negated], b)
    BY <1>4, <2>1, <2>2, <2>3
  <2>5. ASSUME validateRule[node]
        PROVE  nodes # <<>> /\ \A k \in DOMAIN nodes : validateRule[nodes[k]]
    BY <1>1, <1>7, <2>5 DEF Validated, Filled
  <2>6. H[node] <=> \E k \in DOMAIN nodes : H[nodes[k]]
    BY <1>1, <1>7 DEF Holds
  <2>7. nodes # <<>> => \E k \in DOMAIN nodes : TRUE
    <3> HIDE DEF nodes
    <3>1. nodes # <<>> => Len(nodes) \in Nat \ {0}
      BY <2>1, EmptySeq
    <3>2. DOMAIN nodes = 1 .. Len(nodes)
      BY <2>1
    <3>3. nodes # <<>> => 1 \in DOMAIN nodes
      BY <3>1, <3>2
    <3> QED
      BY <3>3
  <2>8. ASSUME validateRule[node] PROVE Decides(L[node][negated], H[node], negated)
    <3>1. \A k \in DOMAIN nodes : Decides(L[nodes[k]][negated], H[nodes[k]], negated)
      BY <1>2, <2>2, <2>5, <2>8
    <3> HIDE DEF nodes
    <3> QED
      BY <2>4, <2>5, <2>6, <2>7, <2>8, <3>1 DEF Decides
  <2> QED
    BY <2>4, <2>8
<1>8. CASE node # Scrap /\ ~ Has(node, "all") /\ ~ Has(node, "any") /\ Has(node, "not")
  <2>1. /\ node.not \in Branches(node)
        /\ L[node][negated] = L[node.not][~ negated]
        /\ H[node] <=> ~ H[node.not]
        /\ validateRule[node] = validateRule[node.not]
    BY <1>1, <1>8 DEF Branches, ListedOf, Holds, Validated
  <2>2. /\ L[node.not][~ negated] \in Seq(BOOLEAN)
        /\ validateRule[node.not] => Decides(L[node.not][~ negated], H[node.not], ~ negated)
    BY <1>2, <2>1
  <2> QED
    BY <2>1, <2>2 DEF Decides
<1>9. CASE node # Scrap /\ ~ Has(node, "all") /\ ~ Has(node, "any") /\ ~ Has(node, "not")
  <2> DEFINE b == Heard(evalLeaf(node, service), negated)
  <2>1. L[node][negated] = <<b>> /\ (H[node] <=> evalLeaf(node, service))
    BY <1>1, <1>9 DEF ListedOf, Holds
  <2>2. b \in BOOLEAN /\ (b <=> (evalLeaf(node, service) <=> ~ negated))
    BY LeafIsDecided DEF Heard
  <2> HIDE DEF b
  <2>3. /\ <<b>> \in Seq(BOOLEAN)
        /\ \A c \in BOOLEAN : Says(<<b>>, c) <=> b = c
    BY <2>2 DEF Says
  <2> QED
    BY <2>1, <2>2, <2>3 DEF Decides
<1> QED
  BY <1>5, <1>6, <1>7, <1>8, <1>9

(* So every rule is, the lowest ones first.                                  *)
LEMMA EveryRuleIsDecided ==
    ASSUME NEW height, Nested(height), NEW service, NEW rule \in Rules
    PROVE  DecidedAt(rule, service)
<1> DEFINE T == {height[x] : x \in {x \in Rules : ~ DecidedAt(x, service)}}
<1>1. SUFFICES ASSUME T # {} PROVE FALSE
  OBVIOUS
<1>2. T \in SUBSET Nat
  BY DEF Nested
<1>3. PICK k \in T : \A j \in T : k <= j
  BY <1>1, <1>2, LeastNumber
<1>4. PICK x \in Rules : k = height[x] /\ ~ DecidedAt(x, service)
  BY <1>3
<1>5. ASSUME NEW b \in Branches(x) PROVE DecidedAt(b, service)
  <2>1. b \in Rules /\ height[b] < height[x] /\ height[b] \in Nat /\ height[x] \in Nat
    BY BranchesAreRules DEF Nested
  <2>2. ~ (k <= height[b])
    BY <1>4, <2>1
  <2>3. height[b] \notin T
    <3> HIDE DEF T
    <3> QED
      BY <1>3, <2>2
  <2> QED
    BY <2>1, <2>3
<1> QED
  BY <1>4, <1>5, NodeIsDecided

(* The explanation of every rule that may be stored decides it, however deep *)
(* its groups and negations are nested, as long as the list has room for it. *)
THEOREM RulesTold ==
    ASSUME NEW height, Nested(height)
    PROVE  ConditionsDecide
<1> SUFFICES ASSUME NEW rule \in Rules \cup {NoRule}, NEW service \in Services,
                    NEW list, list = explainRule(rule, service),
                    checkedRule(rule), Len(list) < Listed
             PROVE  /\ AllMet(list) => evaluateRule(rule, service)
                    /\ NoneMet(list) => ~ evaluateRule(rule, service)
  BY DEF ConditionsDecide
<1>1. CASE rule = NoRule
  <2>1. list = <<>> 
    BY <1>1 DEF explainRule, Listed
  <2> QED
    BY <1>1, <2>1 DEF evaluateRule, NoneMet
<1>2. CASE rule # NoRule
  <2> DEFINE all == Listing(service)[rule][FALSE]
  <2>1. DecidedAt(rule, service) /\ validateRule[rule]
    BY <1>2, EveryRuleIsDecided DEF checkedRule
  <2>2. all \in Seq(BOOLEAN) /\ Decides(all, Holding(service)[rule], FALSE)
    BY <2>1 DEF DecidedAt
  <2>3. evaluateRule(rule, service) <=> Holding(service)[rule]
    BY <1>2, EvalIs DEF evaluateRule
  <2>4. list = SubSeq(all, 1, IF Len(all) < Listed THEN Len(all) ELSE Listed)
    BY <1>2, CollectIs DEF explainRule
  <2> HIDE DEF all
  <2>5. list = all
    BY <2>2, <2>4, SubSeqProperties DEF Listed
  <2> QED
    BY <2>2, <2>3, <2>5 DEF Decides, Says, AllMet, NoneMet
<1> QED
  BY <1>1, <1>2

-----------------------------------------------------------------------------
(* The version a review was given is there as long as the review holds its   *)
(* items, and says what the review was given, except where a request wrote   *)
(* to the template after another one had overtaken it.                       *)
THEOREM SnapshotsTold == TemplateSpec => []SnapshotsAreExplained
<1>1. TemplatesInv => SnapshotsAreExplained
  BY DEF TemplatesInv, GivenFits, SnapshotsAreExplained
<1> QED
  BY <1>1, TemplatesAlways, PTL

(* No review is given an item nobody can answer, with the same exception.    *)
THEOREM AnswerableTold == TemplateSpec => []AssignedIsAnswerable
<1>1. ASSUME TemplatesInv PROVE AssignedIsAnswerable
  <2>1. ASSUME NEW t \in Reported PROVE t \in overlapped
    <3>1. t \in Templates /\ PublishedOf(t) # {} /\ Broken(Latest(t)) # {}
      BY <2>1 DEF Reported
    <3>2. Latest(t) \in PublishedOf(t)
      BY <1>1, <3>1, LatestIsPublished DEF TemplatesInv, TemplatesOrdered
    <3> QED
      BY <1>1, <3>1, <3>2 DEF TemplatesInv, PublishedFits, PublishedOf, VersionsOf, Told
  <2> QED
    BY <1>1, <2>1 DEF TemplatesInv, HeldFits, AssignedIsAnswerable
<1> QED
  BY <1>1, TemplatesAlways, PTL

(* The simulator tells what the engine did for a review, whatever rules of   *)
(* whatever depth the checklist holds, except on a template where a request  *)
(* wrote after another one had overtaken it.                                 *)
THEOREM ExplanationTold ==
    ASSUME NEW height, Nested(height)
    PROVE  TemplateSpec => []ExplanationFits
<1>0. ConditionsDecide
  BY RulesTold
<1>1. ASSUME TemplatesInv PROVE ExplanationFits
  <2> SUFFICES ASSUME NEW r \in Reviews, NEW t \in Templates \ overlapped,
                      NEW v, v = held[r].given[t], v # 0, NEW i \in items[v]
               PROVE  LET told == simulateRules(i, Profile[r])
                      IN  /\ told.applied <=> [version |-> v, item |-> i] \in held[r].items
                          /\ Len(told.conditions) < Listed =>
                                /\ told.applied => ~ NoneMet(told.conditions)
                                /\ ~ told.applied /\ told.conditions # <<>>
                                      => ~ AllMet(told.conditions)
    BY <1>0 DEF ExplanationFits
  <2>0. TemplatesTyped
    BY <1>1 DEF TemplatesInv, TemplatesOrdered
  <2>1. /\ v \in Versions /\ of[v] = t /\ status[v] \in Told
        /\ {h.item : h \in {h \in held[r].items : h.version = v}}
              = {j \in items[v] : Applies(r, j)}
    BY <1>1 DEF TemplatesInv, GivenFits, Told
  <2>2. Usable(i.text) /\ checkedRule(i.text.rule)
    BY <1>1, <2>1 DEF TemplatesInv, PublishedFits, Broken, Usable
  <2>3. i.text.rule \in Rules \cup {NoRule} /\ Profile[r] \in Services
    BY <2>0, <2>1, TemplatesAssumption DEF TemplatesTyped, Item
  <2>4. LET conditions == explainRule(i.text.rule, Profile[r])
        IN  Len(conditions) < Listed =>
               /\ AllMet(conditions) => evaluateRule(i.text.rule, Profile[r])
               /\ NoneMet(conditions) => ~ evaluateRule(i.text.rule, Profile[r])
    BY <1>0, <2>2, <2>3 DEF ConditionsDecide
  <2>5. [version |-> v, item |-> i] \in held[r].items <=> Applies(r, i)
    <3>1. ASSUME NEW h \in held[r].items, h.version = v, h.item = i
          PROVE  h = [version |-> v, item |-> i]
      BY <2>0, <3>1 DEF TemplatesTyped, Snapshot
    <3>2. ASSUME [version |-> v, item |-> i] \in held[r].items
          PROVE  i \in {h.item : h \in {h \in held[r].items : h.version = v}}
      <4> DEFINE h == [version |-> v, item |-> i]
      <4>1. h \in held[r].items /\ h.version = v /\ h.item = i
        BY <3>2
      <4> HIDE DEF h
      <4> QED
        BY <4>1
    <3> QED
      BY <2>1, <3>1, <3>2
  <2>6. simulateRules(i, Profile[r]).applied <=> Applies(r, i)
    BY <2>2 DEF simulateRules, Applies
  <2>7. simulateRules(i, Profile[r]).conditions =
           IF categoryApplies(i.text.category, Profile[r])
           THEN explainRule(i.text.rule, Profile[r]) ELSE <<>>
    BY <2>2 DEF simulateRules
  <2>8. NoneMet(<<>>) = FALSE
    BY DEF NoneMet
  <2> QED
    BY <2>4, <2>5, <2>6, <2>7, <2>8 DEF Applies
<1> QED
  BY <1>1, TemplatesAlways, PTL

(* Every item of a version that was published stays in it word for word,     *)
(* through the edits under way when it was published, until its template is  *)
(* deleted.                                                                  *)
THEOREM PublishedTold == TemplateSpec => PublishedStays
<1>1. ASSUME TemplatesOrdered, [TemplateNext]_templateVars, NEW v \in Versions,
             status[v] \in Told, status'[v] # "deleted"
      PROVE  items[v] \subseteq items'[v]
  <2>0. TemplatesTyped /\ Placed
    BY <1>1 DEF TemplatesOrdered
  <2>1. of[v] # 0 /\ ~ IsDraft(v)
    BY <1>1, <2>0 DEF Placed, Told, IsDraft
  <2>2. ASSUME NEW t \in Templates, NEW w \in Versions, NEW content \in SUBSET Item,
               NEW stage \in {"DRAFT", "PUBLISHED"}, Making(t, w, content, stage)
        PROVE  items'[v] = items[v]
    BY <2>0, <2>1, <2>2 DEF Making, Made, NextVersion, TemplatesTyped
  <2>3. ASSUME NEW e \in Editors, NEW w \in Versions, NEW before \in SUBSET Item,
               NEW after \in SUBSET Item, Editing(e, w, before, after)
        PROVE  items[v] \subseteq items'[v]
    BY <2>0, <2>1, <2>3 DEF Editing, Edit, TemplatesTyped
  <2>4. ASSUME NEW e \in Editors, DeleteWrite(e) PROVE items'[v] = items[v]
    BY <1>1, <2>4 DEF DeleteWrite
  <2>5. ASSUME \/ UNCHANGED templateVars
               \/ \E e \in Editors :
                     \/ \E q : Asking(e, q)
                     \/ \E t \in Templates, on \in {"active", "inactive"} :
                           UpdateTemplate(e, t, on)
                     \/ PublishWrite(e) \/ RetireWrite(e)
               \/ \E r \in Reviews : CreateReview(r)
        PROVE  UNCHANGED items
    BY <2>5 DEF templateVars, rows, Asking, Step, UpdateTemplate, PublishWrite, RetireWrite,
                CreateReview
  <2> QED
    BY <1>1, <2>2, <2>3, <2>4, <2>5, TemplateSteps
<1>2. TemplatesInv /\ [TemplateNext]_templateVars
         => [\A v \in Versions :
                status[v] \in {"PUBLISHED", "RETIRED"} /\ status'[v] # "deleted"
                   => items[v] \subseteq items'[v]]_templateVars
  BY <1>1 DEF TemplatesInv, Told
<1> QED
  BY <1>2, TemplatesAlways, PTL DEF TemplateSpec, PublishedStays
=============================================================================
