----------------------------- MODULE AccountLogin -----------------------------
(***************************************************************************)
(* Signing in to one local account: PasswordLogin, the lock-out and the    *)
(* one-time code of internal/auth/auth.go, the sessions, the password and  *)
(* enrolment handlers of internal/web, the administrator's resets and the  *)
(* command line's recovery.                                                *)
(*                                                                         *)
(* A statement against the row of the account is one step, a transaction   *)
(* too, and several clients are between two of their statements at once.   *)
(* A statement that fails is a step too where the code goes on without it. *)
(***************************************************************************)
EXTENDS Naturals, FiniteSets

CONSTANTS
    Clients,      \* browsers; each holds at most one session
    MaxFailures,  \* security.max_login_failures
    Operators,    \* operations used besides logins: of "password", "factor",
                  \* "account", "recovery"
    MaxLogins,    \* bound on logins
    MaxPasswords, \* bound on passwords that replace the first
    MaxSecrets,   \* bound on enrolment secrets
    MaxTurns,     \* bound on accounts closed, opened, unlocked and recovered
    MaxMishaps,   \* bound on statements that fail
    None

ASSUME LoginAssumption ==
    /\ IsFiniteSet(Clients) /\ None \notin Clients
    /\ MaxFailures \in Nat \ {0}
    /\ {MaxLogins, MaxPasswords, MaxSecrets, MaxTurns, MaxMishaps} \subseteq Nat

Passwords == 0..MaxPasswords
Secrets   == 0..MaxSecrets      \* 0 is the empty totp_secret

VARIABLES
    user,     \* the row of users
    session,  \* rows of sessions, by the browser that holds the cookie
    step,     \* what a client's request is about to do
    desk,     \* what is left to do of an administrator's request or a recovery
    wrong,    \* wrong attempts registered since the count was last forgiven
    tried,    \* logins begun
    issued,   \* secrets handed out
    turns,    \* what is left of MaxTurns
    mishaps   \* what is left of MaxMishaps

bounds == <<tried, issued, turns, mishaps>>
vars == <<user, session, step, desk, wrong, bounds>>

Account == [pwd : Passwords, must : BOOLEAN, active : BOOLEAN, failed : Nat,
            lock : {"none", "on", "past"}, secret : Secrets, totp : BOOLEAN]
Session == [pwd : Passwords, factor : BOOLEAN, late : BOOLEAN]
Parts   == {"password", "unlock", "factor"}     \* of a recovery, in this order
Phases  == {"idle", "read", "clearing", "admitted", "miscoded", "vouched", "opened",
            "changing", "proving", "enabled"}
Request == [phase : Phases, pwd : Passwords, active : BOOLEAN, knows : BOOLEAN,
            code : Secrets, late : BOOLEAN]

Idle == [phase |-> "idle", pwd |-> 0, active |-> FALSE, knows |-> FALSE, code |-> 0,
         late |-> FALSE]

Init ==
    /\ user = [pwd |-> 0, must |-> FALSE, active |-> TRUE, failed |-> 0, lock |-> "none",
               secret |-> 0, totp |-> FALSE]
    /\ session = [c \in Clients |-> None]
    /\ step = [c \in Clients |-> Idle]
    /\ desk = {}
    /\ wrong = 0 /\ tried = 0 /\ issued = 0 /\ turns = MaxTurns /\ mishaps = MaxMishaps

At(c, phase)   == step[c].phase = phase
GoTo(c, phase) == step' = [step EXCEPT ![c].phase = phase]
Left(c, phase) == step' = [step EXCEPT ![c] = [Idle EXCEPT !.phase = phase]]
Leave(c)       == step' = [step EXCEPT ![c] = Idle]

Keep(clients) == [c \in Clients |-> IF c \in clients THEN session[c] ELSE None]

\* Whoever asked for the end of sessions was told that it failed.
Outlived(clients) ==
    [c \in Clients |-> IF c \in clients /\ session[c] # None
                      THEN [session[c] EXCEPT !.late = TRUE] ELSE session[c]]

Mishap == mishaps > 0 /\ mishaps' = mishaps - 1

\* Every login under way goes on with what it read before this change.
UnderWay == {"read", "clearing", "admitted", "vouched"}
Overtake == [c \in Clients |-> IF step[c].phase \in UnderWay
                              THEN [step[c] EXCEPT !.late = TRUE] ELSE step[c]]

-----------------------------------------------------------------------------
(* PasswordLogin *)

ReadAccount(c, knows, code) ==
    /\ At(c, "idle") /\ session[c] = None
    /\ knows \/ code = 0     \* the code of a wrong password is never looked at
    /\ tried < MaxLogins
    /\ tried' = tried + 1
    /\ step' = [step EXCEPT ![c] = [phase |-> "read", pwd |-> user.pwd, active |-> user.active,
                                    knows |-> knows, code |-> code, late |-> FALSE]]
    /\ UNCHANGED <<user, session, desk, wrong, issued, turns, mishaps>>

\* lockedUntil's SELECT
CheckLock(c) ==
    /\ At(c, "read")
    /\ \/ user.lock = "on" /\ Leave(c)
       \/ user.lock = "past" /\ GoTo(c, "clearing")
       \/ user.lock = "none" /\ GoTo(c, "admitted")
    /\ UNCHANGED <<user, session, desk, wrong, bounds>>

Forgiven == [user EXCEPT !.failed = 0, !.lock = "none"]

\* The UPDATE behind it asks for locked_until again: another login may have
\* cleared the count, and failed since.
Cleared_unasked == Forgiven
Cleared_never   == user
Cleared         == IF user.lock = "past" THEN Forgiven ELSE user

ClearLock(c) ==
    /\ At(c, "clearing")
    /\ user' = Cleared
    /\ GoTo(c, "admitted")
    /\ wrong' = IF user.lock = "past" THEN 0 ELSE wrong
    /\ UNCHANGED <<session, desk, bounds>>

\* registerLoginFailure is one UPDATE.
Failed_unlocked == [user EXCEPT !.failed = @ + 1]
Failed == [user EXCEPT !.failed = @ + 1,
                       !.lock = IF user.failed + 1 >= MaxFailures THEN "on" ELSE @]

Mistaken(c) == \/ At(c, "admitted") /\ ~(step[c].knows /\ step[c].active)
               \/ At(c, "miscoded")

RegisterFailure(c) ==
    /\ Mistaken(c)
    /\ user' = Failed
    /\ wrong' = wrong + 1
    /\ Leave(c)
    /\ UNCHANGED <<session, desk, bounds>>

NeedsCode == user.totp /\ user.secret # 0

\* totpSecret and what follows; a missing code is no failed attempt.
CheckCode(c) ==
    /\ At(c, "admitted") /\ step[c].knows /\ step[c].active
    /\ \/ ~NeedsCode /\ GoTo(c, "vouched")
       \/ NeedsCode /\ step[c].code = 0 /\ Leave(c)
       \/ NeedsCode /\ step[c].code # 0 /\ step[c].code # user.secret /\ Left(c, "miscoded")
       \/ NeedsCode /\ step[c].code = user.secret /\ GoTo(c, "vouched")
    /\ UNCHANGED <<user, session, desk, wrong, bounds>>

\* NewSession
OpenSession(c) ==
    /\ At(c, "vouched")
    /\ session' = [session EXCEPT ![c] = [pwd |-> step[c].pwd, factor |-> step[c].code # 0,
                                          late |-> step[c].late]]
    /\ Left(c, "opened")
    /\ UNCHANGED <<user, desk, wrong, bounds>>

StampLogin(c) ==
    /\ At(c, "opened")
    /\ user' = Forgiven
    /\ wrong' = 0
    /\ Leave(c)
    /\ UNCHANGED <<session, desk, bounds>>

\* What a login does about a statement that fails: an unread lock is no lock,
\* an ended one stays, and an attempt or a login goes uncounted.
StatementFails(c) ==
    /\ Mishap
    /\ \/ (At(c, "read") \/ At(c, "clearing")) /\ GoTo(c, "admitted")
       \/ (Mistaken(c) \/ At(c, "opened")) /\ Leave(c)
    /\ UNCHANGED <<user, session, desk, wrong, tried, issued, turns>>

LockPasses ==
    /\ user.lock = "on"
    /\ user' = [user EXCEPT !.lock = "past"]
    /\ UNCHANGED <<session, step, desk, wrong, bounds>>

\* Sweep clears the lock-outs that ended.
SweepLockouts ==
    /\ user.lock = "past"
    /\ user' = Cleared
    /\ wrong' = 0
    /\ UNCHANGED <<session, step, desk, bounds>>

-----------------------------------------------------------------------------
(* Sessions *)

\* Authenticate reads the row of the account with the session.
Enters(c) == session[c] # None /\ user.active /\ At(c, "idle")

\* logout, revokeSession, and a session that expires or stays idle
EndSession(c) ==
    /\ session[c] # None
    /\ session' = [session EXCEPT ![c] = None]
    /\ UNCHANGED <<user, step, desk, wrong, bounds>>

RevokeOtherSessions(c) ==
    /\ Enters(c)
    /\ session' = Keep({c})
    /\ UNCHANGED <<user, step, desk, wrong, bounds>>

\* changePassword compares with the hash Authenticate read.
BeginChange(c) ==
    /\ "password" \in Operators
    /\ Enters(c)
    /\ step' = [step EXCEPT ![c] = [Idle EXCEPT !.phase = "changing", !.pwd = user.pwd]]
    /\ UNCHANGED <<user, session, desk, wrong, bounds>>

Remaining_all(c) == Clients
Remaining(c)     == {c}

ChangePassword(c) ==
    /\ At(c, "changing") /\ user.pwd < MaxPasswords
    /\ user' = [Forgiven EXCEPT !.pwd = @ + 1, !.must = FALSE]
    /\ session' = LET kept == Keep(Remaining(c))
                  IN  IF kept[c] = None THEN kept ELSE [kept EXCEPT ![c].pwd = user.pwd + 1]
    /\ wrong' = 0
    /\ step' = [Overtake EXCEPT ![c] = Idle]
    /\ UNCHANGED <<desk, bounds>>

\* startTOTPEnrollment; a temporary password opens no screen but its own.
StartEnrolment(c) ==
    /\ "factor" \in Operators
    /\ Enters(c) /\ ~user.must
    /\ issued < MaxSecrets
    /\ issued' = issued + 1
    /\ user' = [user EXCEPT !.secret = issued + 1, !.totp = FALSE]
    /\ UNCHANGED <<session, step, desk, wrong, tried, turns, mishaps>>

\* EnableTOTP reads the secret and verifies the code against it ...
ProveSecret(c) ==
    /\ Enters(c) /\ ~user.must
    /\ user.secret # 0
    /\ step' = [step EXCEPT ![c] = [Idle EXCEPT !.phase = "proving"]]
    /\ UNCHANGED <<user, session, desk, wrong, bounds>>

\* ... and turns on whatever is stored by then.
EnableTOTP(c) ==
    /\ At(c, "proving")
    /\ user' = [user EXCEPT !.totp = TRUE]
    /\ session' = IF session[c] = None THEN session ELSE [session EXCEPT ![c].factor = TRUE]
    /\ step' = [Overtake EXCEPT ![c] = [Idle EXCEPT !.phase = "enabled"]]
    /\ UNCHANGED <<desk, wrong, bounds>>

\* Other sessions were opened with one factor only.
SweepSessions(c) ==
    /\ At(c, "enabled")
    /\ session' = Keep(Remaining(c))
    /\ Leave(c)
    /\ UNCHANGED <<user, desk, wrong, bounds>>

\* SESSION_SWEEP_FAILED: the caller is told that other sessions are left.
SweepFails(c) ==
    /\ At(c, "enabled") /\ Mishap
    /\ session' = Outlived(Clients \ {c})
    /\ Leave(c)
    /\ UNCHANGED <<user, desk, wrong, tried, issued, turns>>

WithoutFactor == [user EXCEPT !.secret = 0, !.totp = FALSE]

DisableTOTP(c) ==
    /\ Enters(c) /\ ~user.must
    /\ user' = WithoutFactor
    /\ UNCHANGED <<session, step, desk, wrong, bounds>>

-----------------------------------------------------------------------------
(* The administrator and the command line *)

Turn == turns > 0 /\ turns' = turns - 1

\* resetUserPassword: the password and the end of the sessions are one change.
ResetPassword ==
    /\ "password" \in Operators
    /\ user.pwd < MaxPasswords
    /\ user' = [Forgiven EXCEPT !.pwd = @ + 1, !.must = TRUE]
    /\ session' = Keep({})
    /\ step' = Overtake
    /\ wrong' = 0
    /\ UNCHANGED <<desk, bounds>>

Unlock ==
    /\ "account" \in Operators /\ Turn
    /\ user' = Forgiven
    /\ wrong' = 0
    /\ UNCHANGED <<session, step, desk, tried, issued, mishaps>>

SetActive(on) ==
    /\ "account" \in Operators /\ Turn
    /\ desk = {}
    /\ user' = [user EXCEPT !.active = on]
    /\ desk' = IF on THEN {} ELSE {"sessions"}
    /\ UNCHANGED <<session, step, wrong, tried, issued, mishaps>>

ResetTOTP ==
    /\ "factor" \in Operators /\ Turn
    /\ desk = {}
    /\ user' = WithoutFactor
    /\ desk' = {"sessions"}
    /\ UNCHANGED <<session, step, wrong, tried, issued, mishaps>>

\* recoverAdmin: what was asked for, each a statement of its own, and then the
\* sessions; with --grant-admin alone only these.
Recover(parts) ==
    /\ "recovery" \in Operators /\ Turn
    /\ desk = {}
    /\ desk' = parts \cup {"sessions"}
    /\ UNCHANGED <<user, session, step, wrong, tried, issued, mishaps>>

RecoverPassword ==
    /\ "password" \in desk
    /\ user.pwd < MaxPasswords
    /\ user' = [Forgiven EXCEPT !.active = TRUE, !.pwd = @ + 1]
    /\ wrong' = 0
    /\ step' = Overtake
    /\ desk' = desk \ {"password"}
    /\ UNCHANGED <<session, bounds>>

RecoverUnlock ==
    /\ "unlock" \in desk /\ "password" \notin desk
    /\ user' = [Forgiven EXCEPT !.active = TRUE]
    /\ wrong' = 0
    /\ desk' = desk \ {"unlock"}
    /\ UNCHANGED <<session, step, bounds>>

RecoverFactor ==
    /\ "factor" \in desk /\ desk \cap {"password", "unlock"} = {}
    /\ user' = WithoutFactor
    /\ desk' = desk \ {"factor"}
    /\ UNCHANGED <<session, step, wrong, bounds>>

\* endSessions is a statement of its own in all three.
EndSessions ==
    /\ desk = {"sessions"}
    /\ session' = Keep({})
    /\ desk' = {}
    /\ UNCHANGED <<user, step, wrong, bounds>>

\* A statement that fails ends the request with an error: what was done stays,
\* and so do the sessions.
DeskFails ==
    /\ desk # {} /\ Mishap
    /\ session' = Outlived(Clients)
    /\ desk' = {}
    /\ UNCHANGED <<user, step, wrong, tried, issued, turns>>

-----------------------------------------------------------------------------

LogIn(c) ==
    \/ \E knows \in BOOLEAN, code \in 0..issued : ReadAccount(c, knows, code)
    \/ CheckLock(c) \/ ClearLock(c) \/ RegisterFailure(c) \/ CheckCode(c)
    \/ OpenSession(c) \/ StampLogin(c) \/ StatementFails(c)

Manage(c) ==
    \/ EndSession(c) \/ RevokeOtherSessions(c)
    \/ BeginChange(c) \/ ChangePassword(c)
    \/ StartEnrolment(c) \/ ProveSecret(c) \/ EnableTOTP(c) \/ DisableTOTP(c)
    \/ SweepSessions(c) \/ SweepFails(c)

Administer ==
    \/ ResetPassword \/ Unlock \/ ResetTOTP
    \/ \E on \in BOOLEAN : SetActive(on)
    \/ \E parts \in SUBSET Parts : Recover(parts)
    \/ RecoverPassword \/ RecoverUnlock \/ RecoverFactor
    \/ EndSessions \/ DeskFails

Next ==
    \/ \E c \in Clients : LogIn(c) \/ Manage(c)
    \/ Administer \/ LockPasses \/ SweepLockouts

\* Time passes and the sweep comes every hour; a request answers.
Finish(c) == CheckLock(c) \/ ClearLock(c) \/ RegisterFailure(c) \/ CheckCode(c)

Fairness ==
    /\ WF_vars(LockPasses) /\ WF_vars(SweepLockouts)
    /\ \A c \in Clients : WF_vars(Finish(c))

Spec == Init /\ [][Next]_vars /\ Fairness

-----------------------------------------------------------------------------
(* Properties *)

\* Every variable holds what the code may put there.
TypeOK ==
    /\ user \in Account
    /\ session \in [Clients -> Session \cup {None}]
    /\ step \in [Clients -> Request]
    /\ desk \in SUBSET (Parts \cup {"sessions"})
    /\ wrong \in Nat /\ tried \in 0..MaxLogins /\ issued \in 0..MaxSecrets
    /\ turns \in 0..MaxTurns /\ mishaps \in 0..MaxMishaps

\* However the clients interleave, no wrong attempt that was registered is lost:
\* the count in the row is that of the attempts nothing forgave, and a slow
\* login never clears what another one has counted since the lock-out it found
\* had ended (lockedUntil's condition on its UPDATE).
NoAttemptIsLost == user.failed = wrong

\* The lock and the count agree: whoever is locked used up the budget, and
\* whoever used it up is locked (registerLoginFailure's one UPDATE, and every
\* reset of the two together).
LockMeetsCount == user.lock = "none" <=> user.failed < MaxFailures

\* A lock-out of an account that is not locked comes after a whole budget of
\* wrong attempts that nothing forgave (auth.go:324: one UPDATE counts and
\* compares).
NoEarlyLock ==
    [][user.lock = "none" /\ user'.lock = "on" => wrong' >= MaxFailures]_vars

\* A session stands for the password and the factors the account has now,
\* unless its login overlapped the change, or whoever made the change was told
\* that the sessions could not be ended (resetUserPassword, changePassword,
\* enableTOTP, resetUserTOTP, recoverAdmin and the sessions they end).
SessionsAreCurrent ==
    \A c \in Clients :
        session[c] # None /\ ~session[c].late =>
            /\ session[c].pwd = user.pwd \/ "sessions" \in desk
            /\ user.totp /\ user.secret # 0 =>
                 session[c].factor \/ \E d \in Clients : At(d, "enabled")

\* A lock-out ends by itself, with the count forgiven (Sweep, lockedUntil).
LockoutEnds == user.lock # "none" ~> user.lock = "none"

=============================================================================
