-------------------------- MODULE AccountLoginProofs --------------------------
(***************************************************************************)
(* Proofs about AccountLogin, for any number of browsers, any budget of    *)
(* failures and any bounds on what the others do meanwhile.                *)
(***************************************************************************)
EXTENDS AccountLogin, TLAPS

Counting == NoAttemptIsLost /\ LockMeetsCount

(* A login that nothing overtook goes by the password and the factor of now; *)
(* whoever turned the factor on has shown it.                                *)
LoginsAreCurrent ==
    \A c \in Clients :
        /\ step[c].phase \in {"read", "clearing", "admitted", "vouched"} /\ ~step[c].late
              => step[c].pwd = user.pwd
        /\ step[c].phase = "vouched" /\ ~step[c].late /\ user.totp /\ user.secret # 0
              => step[c].code # 0
        /\ step[c].phase = "enabled" /\ session[c] # None => session[c].factor

(* Whatever is left to do, the sessions are part of it.                      *)
DeskEndsThem == desk # {} => "sessions" \in desk

Current == SessionsAreCurrent /\ LoginsAreCurrent /\ DeskEndsThem

-----------------------------------------------------------------------------
(* What the parts of a statement write.                                      *)
LEMMA Steps ==
    ASSUME TypeOK
    PROVE  /\ Idle \in Request /\ Forgiven \in Account /\ WithoutFactor \in Account
           /\ Overtake \in [Clients -> Request]
           /\ \A c \in Clients, request \in Request :
                 [step EXCEPT ![c] = request] \in [Clients -> Request]
           /\ \A c \in Clients, phase \in Phases :
                 [step EXCEPT ![c].phase = phase] \in [Clients -> Request]
           /\ \A c \in Clients, phase \in Phases :
                 [step EXCEPT ![c] = [Idle EXCEPT !.phase = phase]] \in [Clients -> Request]
           /\ \A S : /\ Keep(S) \in [Clients -> Session \cup {None}]
                     /\ Outlived(S) \in [Clients -> Session \cup {None}]
<1>1. Idle \in Request
  BY LoginAssumption DEF Idle, Request, Phases, Passwords, Secrets
<1>2. Forgiven \in Account /\ WithoutFactor \in Account
  <2>1. 0 \in Secrets /\ user \in Account
    BY LoginAssumption DEF Secrets, TypeOK
  <2>2. \A u \in Account, s \in Secrets : [u EXCEPT !.secret = s, !.totp = FALSE] \in Account
    BY DEF Account
  <2>3. \A u \in Account : [u EXCEPT !.failed = 0, !.lock = "none"] \in Account
    BY DEF Account
  <2> QED
    BY <2>1, <2>2, <2>3 DEF Forgiven, WithoutFactor
<1>3. \A request \in Request, phase \in Phases :
        /\ [request EXCEPT !.phase = phase] \in Request
        /\ [request EXCEPT !.late = TRUE] \in Request
  BY DEF Request
<1>4. step \in [Clients -> Request]
  BY DEF TypeOK
<1>5. Overtake \in [Clients -> Request]
  BY <1>3, <1>4 DEF Overtake, At, Phases
<1>6. /\ \A c \in Clients, request \in Request :
           [step EXCEPT ![c] = request] \in [Clients -> Request]
      /\ \A c \in Clients, phase \in Phases :
           [step EXCEPT ![c].phase = phase] \in [Clients -> Request]
  BY <1>3, <1>4
<1>7. \A S : Keep(S) \in [Clients -> Session \cup {None}]
  BY DEF Keep, TypeOK
<1>8. \A S : Outlived(S) \in [Clients -> Session \cup {None}]
  BY DEF Outlived, TypeOK, Session
<1>9. \A c \in Clients, phase \in Phases :
         [step EXCEPT ![c] = [Idle EXCEPT !.phase = phase]] \in [Clients -> Request]
  BY <1>1, <1>3, <1>4
<1> QED
  BY <1>1, <1>2, <1>5, <1>6, <1>7, <1>8, <1>9

(* Every statement writes what the columns may hold.                         *)
LEMMA TypesKept ==
    ASSUME TypeOK, [Next]_vars
    PROVE  TypeOK'
<1> USE Steps DEF TypeOK, bounds
<1>0. /\ MaxPasswords \in Nat /\ MaxSecrets \in Nat /\ MaxLogins \in Nat /\ MaxTurns \in Nat
      /\ MaxMishaps \in Nat
      /\ \A p : p \in Passwords <=> p \in 0..MaxPasswords
      /\ \A s : s \in Secrets <=> s \in 0..MaxSecrets
      /\ 0 \in Secrets
  BY LoginAssumption DEF Passwords, Secrets
<1>m. Mishap => mishaps' \in 0..MaxMishaps
  BY <1>0 DEF Mishap
<1>1. ASSUME NEW c \in Clients, LogIn(c)
      PROVE  TypeOK'
  <2>1. CASE \E knows \in BOOLEAN, code \in 0..issued : ReadAccount(c, knows, code)
    <3>1. user.pwd \in Passwords /\ user.active \in BOOLEAN
      BY <1>0, <2>1 DEF Account
    <3>2. 0..issued \subseteq Secrets
      BY <1>0, <2>1
    <3>3. step' \in [Clients -> Request]
      BY <1>0, <2>1, <3>1, <3>2 DEF ReadAccount, Request, Phases
    <3> QED
      BY <1>0, <2>1, <3>3 DEF ReadAccount
  <2>2. CASE CheckLock(c)
    <3>1. {"clearing", "admitted"} \subseteq Phases
      BY <1>0, <2>2 DEF Phases
    <3>2. step' \in [Clients -> Request]
      BY <1>0, <2>2, <3>1 DEF CheckLock, GoTo, Leave
    <3> QED
      BY <1>0, <2>2, <3>2 DEF CheckLock
  <2>3. CASE ClearLock(c)
    BY <1>0, <2>3 DEF ClearLock, Cleared, GoTo, Phases
  <2>4. CASE RegisterFailure(c)
    <3>1. \A u \in Account, n \in Nat, l \in {"none", "on", "past"} :
             [u EXCEPT !.failed = n, !.lock = l] \in Account
      BY <1>0, <2>4 DEF Account
    <3>2. user.failed + 1 \in Nat /\ user.lock \in {"none", "on", "past"}
      BY <1>0, <2>4 DEF Account
    <3>3. Failed \in Account
      BY <1>0, <2>4, <3>1, <3>2 DEF Failed
    <3> QED
      BY <1>0, <2>4, <3>3 DEF RegisterFailure, Leave
  <2>5. CASE CheckCode(c)
    <3>1. {"vouched", "miscoded"} \subseteq Phases
      BY <1>0, <2>5 DEF Phases
    <3>2. step' \in [Clients -> Request]
      BY <1>0, <2>5, <3>1 DEF CheckCode, GoTo, Left, Leave
    <3> QED
      BY <1>0, <2>5, <3>2 DEF CheckCode
  <2>6. CASE OpenSession(c)
    BY <1>0, <2>6 DEF OpenSession, Left, Phases, Session, Request
  <2>7. CASE StampLogin(c)
    BY <1>0, <2>7 DEF StampLogin, Leave
  <2>8. CASE StatementFails(c)
    <3>1. "admitted" \in Phases
      BY DEF Phases
    <3>2. step' \in [Clients -> Request]
      BY <2>8, <3>1 DEF StatementFails, GoTo, Leave
    <3> QED
      BY <1>0, <1>m, <2>8, <3>2 DEF StatementFails
  <2> QED
    BY <1>1, <2>1, <2>2, <2>3, <2>4, <2>5, <2>6, <2>7, <2>8 DEF LogIn
<1>2. ASSUME NEW c \in Clients, Manage(c)
      PROVE  TypeOK'
  <2>1. CASE EndSession(c)
    BY <1>0, <2>1 DEF EndSession
  <2>2. CASE RevokeOtherSessions(c)
    BY <1>0, <2>2 DEF RevokeOtherSessions
  <2>3. CASE BeginChange(c)
    BY <1>0, <2>3 DEF BeginChange, Idle, Request, Account, Phases
  <2>4. CASE ChangePassword(c)
    <3>1. Forgiven.pwd + 1 \in Passwords
      BY <1>0, <2>4 DEF ChangePassword, Forgiven, Account
    <3>2. \A u \in Account, p \in Passwords : [u EXCEPT !.pwd = p, !.must = FALSE] \in Account
      BY <1>0, <2>4 DEF Account
    <3>3. user' \in Account
      BY <1>0, <2>4, <3>1, <3>2 DEF ChangePassword
    <3>4. user.pwd + 1 \in Passwords
      BY <1>0, <2>4 DEF ChangePassword, Account
    <3>5. session' \in [Clients -> Session \cup {None}]
      BY <1>0, <2>4, <3>4 DEF ChangePassword, Session
    <3>6. step' \in [Clients -> Request]
      BY <1>0, <2>4 DEF ChangePassword
    <3> QED
      BY <1>0, <2>4, <3>3, <3>5, <3>6 DEF ChangePassword
  <2>5. CASE StartEnrolment(c)
    <3>1. issued + 1 \in Secrets /\ issued' \in 0..MaxSecrets
      BY <1>0, <2>5 DEF StartEnrolment
    <3>2. user' \in Account
      BY <1>0, <2>5, <3>1 DEF StartEnrolment, Account
    <3> QED
      BY <1>0, <2>5, <3>1, <3>2 DEF StartEnrolment
  <2>6. CASE ProveSecret(c)
    BY <1>0, <2>6 DEF ProveSecret, Idle, Request, Phases
  <2>7. CASE EnableTOTP(c)
    <3>1. user' \in Account
      BY <1>0, <2>7 DEF EnableTOTP, Account
    <3>2. \A s \in Session : [s EXCEPT !.factor = TRUE] \in Session
      BY <1>0, <2>7 DEF Session
    <3>3. session' \in [Clients -> Session \cup {None}]
      BY <1>0, <2>7, <3>2 DEF EnableTOTP
    <3>4. [Idle EXCEPT !.phase = "enabled"] \in Request
      BY <1>0, <2>7 DEF Idle, Request, Phases
    <3>5. step' \in [Clients -> Request]
      BY <1>0, <2>7, <3>4 DEF EnableTOTP
    <3> QED
      BY <1>0, <2>7, <3>1, <3>3, <3>4, <3>5 DEF EnableTOTP
  <2>8. CASE SweepSessions(c)
    BY <1>0, <2>8 DEF SweepSessions, Leave
  <2>9. CASE DisableTOTP(c)
    BY <1>0, <2>9 DEF DisableTOTP
  <2>10. CASE SweepFails(c)
    BY <1>0, <1>m, <2>10 DEF SweepFails, Leave
  <2> QED
    BY <1>2, <2>1, <2>2, <2>3, <2>4, <2>5, <2>6, <2>7, <2>8, <2>9, <2>10 DEF Manage
<1>3. CASE Administer
  <2>1. CASE ResetPassword
    <3>1. Forgiven.pwd + 1 \in Passwords
      BY <1>0, <2>1 DEF ResetPassword, Forgiven, Account
    <3>2. \A u \in Account, p \in Passwords : [u EXCEPT !.pwd = p, !.must = TRUE] \in Account
      BY <1>0, <2>1 DEF Account
    <3>3. user' \in Account
      BY <1>0, <2>1, <3>1, <3>2 DEF ResetPassword
    <3> QED
      BY <1>0, <2>1, <3>3 DEF ResetPassword
  <2>2. CASE Unlock
    BY <1>0, <2>2 DEF Unlock, Turn
  <2>3. CASE \E on \in BOOLEAN : SetActive(on)
    BY <1>0, <2>3 DEF SetActive, Turn, Account
  <2>4. CASE ResetTOTP
    BY <1>0, <2>4 DEF ResetTOTP, Turn
  <2>5. CASE \E parts \in SUBSET Parts : Recover(parts)
    BY <1>0, <2>5 DEF Recover, Turn
  <2>6. CASE RecoverPassword
    <3>1. Forgiven.pwd = user.pwd /\ Forgiven.pwd + 1 \in Passwords
      BY <1>0, <2>6 DEF RecoverPassword, Forgiven, Account
    <3>2. \A u \in Account, p \in Passwords : [u EXCEPT !.active = TRUE, !.pwd = p] \in Account
      BY DEF Account
    <3>3. user' \in Account
      BY <1>0, <2>6, <3>1, <3>2 DEF RecoverPassword
    <3> QED
      BY <1>0, <2>6, <3>3 DEF RecoverPassword
  <2>7. CASE RecoverUnlock
    <3>1. \A u \in Account : [u EXCEPT !.active = TRUE] \in Account
      BY DEF Account
    <3> QED
      BY <1>0, <2>7, <3>1 DEF RecoverUnlock
  <2>8. CASE RecoverFactor
    BY <1>0, <2>8 DEF RecoverFactor
  <2>9. CASE EndSessions
    BY <1>0, <2>9 DEF EndSessions
  <2>10. CASE DeskFails
    BY <1>0, <1>m, <2>10 DEF DeskFails
  <2> QED
    BY <1>3, <2>1, <2>2, <2>3, <2>4, <2>5, <2>6, <2>7, <2>8, <2>9, <2>10 DEF Administer
<1>4. CASE LockPasses
  BY <1>0, <1>4 DEF LockPasses, Account
<1>5. CASE SweepLockouts
  BY <1>0, <1>5 DEF SweepLockouts, Cleared
<1>6. CASE UNCHANGED vars
  BY <1>6 DEF vars
<1> QED
  BY <1>1, <1>2, <1>3, <1>4, <1>5, <1>6 DEF Next

(* The count in the row and the attempts nothing forgave go up and down       *)
(* together.                                                                 *)
LEMMA CountsKept ==
    ASSUME TypeOK, Counting, [Next]_vars
    PROVE  Counting'
<1> USE DEF TypeOK, Account, Session, Request, Phases, Idle, At,
            Counting, NoAttemptIsLost, LockMeetsCount
<1>1. ASSUME NEW c \in Clients,
             \E knows \in BOOLEAN, code \in 0..issued : ReadAccount(c, knows, code)
      PROVE  Counting'
  BY <1>1, LoginAssumption DEF ReadAccount
<1>2. ASSUME NEW c \in Clients, CheckLock(c)
      PROVE  Counting'
  BY <1>2, LoginAssumption DEF CheckLock, GoTo, Leave
<1>3. ASSUME NEW c \in Clients, ClearLock(c)
      PROVE  Counting'
  BY <1>3, LoginAssumption DEF ClearLock, Cleared, Forgiven, GoTo
<1>4. ASSUME NEW c \in Clients, RegisterFailure(c)
      PROVE  Counting'
  BY <1>4, LoginAssumption DEF RegisterFailure, Mistaken, Failed, Leave
<1>5. ASSUME NEW c \in Clients, CheckCode(c)
      PROVE  Counting'
  BY <1>5, LoginAssumption DEF CheckCode, NeedsCode, GoTo, Left, Leave
<1>6. ASSUME NEW c \in Clients, OpenSession(c)
      PROVE  Counting'
  BY <1>6, LoginAssumption DEF OpenSession, Left
<1>7. ASSUME NEW c \in Clients, StampLogin(c)
      PROVE  Counting'
  BY <1>7, LoginAssumption DEF StampLogin, Forgiven, Leave
<1>8. ASSUME NEW c \in Clients, EndSession(c)
      PROVE  Counting'
  BY <1>8, LoginAssumption DEF EndSession
<1>9. ASSUME NEW c \in Clients, RevokeOtherSessions(c)
      PROVE  Counting'
  BY <1>9, LoginAssumption DEF RevokeOtherSessions, Keep
<1>10. ASSUME NEW c \in Clients, BeginChange(c)
      PROVE  Counting'
  BY <1>10, LoginAssumption DEF BeginChange, Enters
<1>11. ASSUME NEW c \in Clients, ChangePassword(c)
      PROVE  Counting'
  BY <1>11, LoginAssumption DEF ChangePassword, Forgiven, Remaining, Keep, Overtake, UnderWay
<1>12. ASSUME NEW c \in Clients, StartEnrolment(c)
      PROVE  Counting'
  BY <1>12, LoginAssumption DEF StartEnrolment
<1>13. ASSUME NEW c \in Clients, ProveSecret(c)
      PROVE  Counting'
  BY <1>13, LoginAssumption DEF ProveSecret, Enters
<1>14. ASSUME NEW c \in Clients, EnableTOTP(c)
      PROVE  Counting'
  BY <1>14, LoginAssumption DEF EnableTOTP, Overtake, UnderWay
<1>15. ASSUME NEW c \in Clients, SweepSessions(c)
      PROVE  Counting'
  BY <1>15, LoginAssumption DEF SweepSessions, Remaining, Keep, Leave
<1>16. ASSUME NEW c \in Clients, DisableTOTP(c)
      PROVE  Counting'
  BY <1>16, LoginAssumption DEF DisableTOTP, WithoutFactor
<1>17. CASE ResetPassword
  BY <1>17, LoginAssumption DEF ResetPassword, Forgiven, Keep, Overtake, UnderWay
<1>18. CASE Unlock
  BY <1>18, LoginAssumption DEF Unlock, Turn, Forgiven
<1>19. CASE \E on \in BOOLEAN : SetActive(on)
  BY <1>19, LoginAssumption DEF SetActive, Turn
<1>20. CASE ResetTOTP
  BY <1>20, LoginAssumption DEF ResetTOTP, Turn, WithoutFactor
<1>21. CASE \E parts \in SUBSET Parts : Recover(parts)
  BY <1>21, LoginAssumption DEF Recover, Turn
<1>22. CASE EndSessions
  BY <1>22, LoginAssumption DEF EndSessions, Keep
<1>23. CASE LockPasses
  BY <1>23, LoginAssumption DEF LockPasses
<1>24. CASE SweepLockouts
  BY <1>24, LoginAssumption DEF SweepLockouts, Cleared, Forgiven
<1>25. CASE UNCHANGED vars
  BY <1>25, LoginAssumption DEF vars
<1>26. ASSUME NEW c \in Clients, StatementFails(c)
      PROVE  Counting'
  BY <1>26, LoginAssumption DEF StatementFails, Mistaken, GoTo, Leave
<1>27. ASSUME NEW c \in Clients, SweepFails(c)
      PROVE  Counting'
  BY <1>27, LoginAssumption DEF SweepFails, Outlived, Leave
<1>28. CASE RecoverPassword
  BY <1>28, LoginAssumption DEF RecoverPassword, Forgiven, Overtake, UnderWay
<1>29. CASE RecoverUnlock
  BY <1>29, LoginAssumption DEF RecoverUnlock, Forgiven
<1>30. CASE RecoverFactor
  BY <1>30, LoginAssumption DEF RecoverFactor, WithoutFactor
<1>31. CASE DeskFails
  BY <1>31, LoginAssumption DEF DeskFails, Outlived
<1> QED
  BY <1>1, <1>2, <1>3, <1>4, <1>5, <1>6, <1>7, <1>8, <1>9, <1>10, <1>11, <1>12, <1>13, <1>14,
     <1>15, <1>16, <1>17, <1>18, <1>19, <1>20, <1>21, <1>22, <1>23, <1>24, <1>25, <1>26,
     <1>27, <1>28, <1>29, <1>30, <1>31
     DEF Next, LogIn, Manage, Administer

(* Whatever changes a password or turns a factor on ends the sessions or      *)
(* overtakes the logins.                                                     *)
LEMMA SessionsKept ==
    ASSUME TypeOK, Current, [Next]_vars
    PROVE  Current'
<1> USE DEF TypeOK, Account, Session, Request, Phases, Idle, At,
            Current, SessionsAreCurrent, LoginsAreCurrent, DeskEndsThem
<1>1. ASSUME NEW c \in Clients,
             \E knows \in BOOLEAN, code \in 0..issued : ReadAccount(c, knows, code)
      PROVE  Current'
  BY <1>1, LoginAssumption DEF ReadAccount
<1>2. ASSUME NEW c \in Clients, CheckLock(c)
      PROVE  Current'
  BY <1>2, LoginAssumption DEF CheckLock, GoTo, Leave
<1>3. ASSUME NEW c \in Clients, ClearLock(c)
      PROVE  Current'
  BY <1>3, LoginAssumption DEF ClearLock, Cleared, Forgiven, GoTo
<1>4. ASSUME NEW c \in Clients, RegisterFailure(c)
      PROVE  Current'
  BY <1>4, LoginAssumption DEF RegisterFailure, Mistaken, Failed, Leave
<1>5. ASSUME NEW c \in Clients, CheckCode(c)
      PROVE  Current'
  BY <1>5, LoginAssumption DEF CheckCode, NeedsCode, GoTo, Left, Leave
<1>6. ASSUME NEW c \in Clients, OpenSession(c)
      PROVE  Current'
  BY <1>6, LoginAssumption DEF OpenSession, Left
<1>7. ASSUME NEW c \in Clients, StampLogin(c)
      PROVE  Current'
  BY <1>7, LoginAssumption DEF StampLogin, Forgiven, Leave
<1>8. ASSUME NEW c \in Clients, EndSession(c)
      PROVE  Current'
  BY <1>8, LoginAssumption DEF EndSession
<1>9. ASSUME NEW c \in Clients, RevokeOtherSessions(c)
      PROVE  Current'
  BY <1>9, LoginAssumption DEF RevokeOtherSessions, Keep
<1>10. ASSUME NEW c \in Clients, BeginChange(c)
      PROVE  Current'
  BY <1>10, LoginAssumption DEF BeginChange, Enters
<1>11. ASSUME NEW c \in Clients, ChangePassword(c)
      PROVE  Current'
  <2>1. /\ user'.pwd = user.pwd + 1 /\ user'.totp = user.totp /\ user'.secret = user.secret
        /\ desk' = desk
    BY <1>11 DEF ChangePassword, Forgiven
  <2>2. /\ step'[c].phase = "idle"
        /\ \A d \in Clients : d # c => /\ step'[d].phase = step[d].phase
                                       /\ step[d].phase \in UnderWay => step'[d].late
    BY <1>11 DEF ChangePassword, Overtake, UnderWay
  <2>3. /\ \A d \in Clients : d # c => session'[d] = None
        /\ session[c] = None => session'[c] = None
        /\ session[c] # None => /\ session'[c].pwd = user.pwd + 1
                                /\ session'[c].factor = session[c].factor
                                /\ session'[c].late = session[c].late
    BY <1>11, LoginAssumption DEF ChangePassword, Remaining, Keep
  <2>4. ASSUME NEW d \in Clients, step[d].phase = "enabled"
        PROVE  step'[d].phase = "enabled"
    BY <1>11, <2>2, <2>4 DEF ChangePassword
  <2>5. SessionsAreCurrent'
    BY <2>1, <2>3, <2>4
  <2>6. LoginsAreCurrent'
    BY <2>2, <2>3 DEF UnderWay
  <2> QED
    BY <2>1, <2>5, <2>6
<1>12. ASSUME NEW c \in Clients, StartEnrolment(c)
      PROVE  Current'
  BY <1>12, LoginAssumption DEF StartEnrolment
<1>13. ASSUME NEW c \in Clients, ProveSecret(c)
      PROVE  Current'
  BY <1>13, LoginAssumption DEF ProveSecret, Enters
<1>14. ASSUME NEW c \in Clients, EnableTOTP(c)
      PROVE  Current'
  BY <1>14, LoginAssumption DEF EnableTOTP, Overtake, UnderWay
<1>15. ASSUME NEW c \in Clients, SweepSessions(c)
      PROVE  Current'
  BY <1>15, LoginAssumption DEF SweepSessions, Remaining, Keep, Leave
<1>16. ASSUME NEW c \in Clients, DisableTOTP(c)
      PROVE  Current'
  BY <1>16, LoginAssumption DEF DisableTOTP, WithoutFactor
<1>17. CASE ResetPassword
  BY <1>17, LoginAssumption DEF ResetPassword, Forgiven, Keep, Overtake, UnderWay
<1>18. CASE Unlock
  BY <1>18, LoginAssumption DEF Unlock, Turn, Forgiven
<1>19. CASE \E on \in BOOLEAN : SetActive(on)
  BY <1>19, LoginAssumption DEF SetActive, Turn
<1>20. CASE ResetTOTP
  BY <1>20, LoginAssumption DEF ResetTOTP, Turn, WithoutFactor
<1>21. CASE \E parts \in SUBSET Parts : Recover(parts)
  BY <1>21, LoginAssumption DEF Recover, Turn
<1>22. CASE EndSessions
  BY <1>22, LoginAssumption DEF EndSessions, Keep
<1>23. CASE LockPasses
  BY <1>23, LoginAssumption DEF LockPasses
<1>24. CASE SweepLockouts
  BY <1>24, LoginAssumption DEF SweepLockouts, Cleared, Forgiven
<1>25. CASE UNCHANGED vars
  BY <1>25, LoginAssumption DEF vars
<1>26. ASSUME NEW c \in Clients, StatementFails(c)
      PROVE  Current'
  <2>1. UNCHANGED <<user, session, desk>>
    BY <1>26 DEF StatementFails
  <2>2. \A d \in Clients : d # c => step'[d] = step[d]
    BY <1>26 DEF StatementFails, GoTo, Leave
  <2>3. \/ step'[c].phase = "idle" /\ step[c].phase # "enabled"
        \/ /\ step'[c].phase = "admitted" /\ step[c].phase \in {"read", "clearing"}
           /\ step'[c].late = step[c].late /\ step'[c].pwd = step[c].pwd
    BY <1>26 DEF StatementFails, Mistaken, GoTo, Leave
  <2>4. SessionsAreCurrent'
    BY <2>1, <2>2, <2>3
  <2>5. LoginsAreCurrent'
    BY <2>1, <2>2, <2>3
  <2> QED
    BY <2>1, <2>4, <2>5
<1>27. ASSUME NEW c \in Clients, SweepFails(c)
      PROVE  Current'
  BY <1>27, LoginAssumption DEF SweepFails, Outlived, Leave
<1>28. CASE RecoverPassword
  <2>1. user'.totp = user.totp /\ user'.secret = user.secret /\ session' = session
    BY <1>28 DEF RecoverPassword, Forgiven
  <2>2. \A d \in Clients : /\ step'[d].phase = step[d].phase /\ step'[d].code = step[d].code
                           /\ step[d].phase \in UnderWay => step'[d].late
                           /\ step[d].late => step'[d].late
    BY <1>28 DEF RecoverPassword, Overtake
  <2>3. "sessions" \in desk /\ "sessions" \in desk'
    BY <1>28 DEF RecoverPassword
  <2>4. SessionsAreCurrent'
    BY <2>1, <2>2, <2>3
  <2>5. LoginsAreCurrent'
    BY <2>1, <2>2 DEF UnderWay
  <2> QED
    BY <2>3, <2>4, <2>5
<1>29. CASE RecoverUnlock
  BY <1>29, LoginAssumption DEF RecoverUnlock, Forgiven
<1>30. CASE RecoverFactor
  BY <1>30, LoginAssumption DEF RecoverFactor, WithoutFactor
<1>31. CASE DeskFails
  BY <1>31, LoginAssumption DEF DeskFails, Outlived
<1> QED
  BY <1>1, <1>2, <1>3, <1>4, <1>5, <1>6, <1>7, <1>8, <1>9, <1>10, <1>11, <1>12, <1>13, <1>14,
     <1>15, <1>16, <1>17, <1>18, <1>19, <1>20, <1>21, <1>22, <1>23, <1>24, <1>25, <1>26,
     <1>27, <1>28, <1>29, <1>30, <1>31
     DEF Next, LogIn, Manage, Administer

(* A new account has no failures, no lock and no session.                    *)
LEMMA Start == Init => TypeOK /\ Counting /\ Current
BY LoginAssumption DEF Init, TypeOK, Account, Session, Request, Phases, Idle, Passwords, Secrets,
   Counting, NoAttemptIsLost, LockMeetsCount,
   Current, SessionsAreCurrent, LoginsAreCurrent, DeskEndsThem

(* Every statement keeps all of it.                                          *)
LEMMA Kept == TypeOK /\ Counting /\ Current /\ [Next]_vars => (TypeOK /\ Counting /\ Current)'
BY TypesKept, CountsKept, SessionsKept

-----------------------------------------------------------------------------
(* The columns of the account, its sessions and what a request holds are     *)
(* what the queries expect to find.                                          *)
THEOREM TypesTold == Spec => []TypeOK
BY Start, TypesKept, PTL DEF Spec

(* However many logins overlap, no wrong attempt is lost (registerLoginFailure *)
(* and the condition on lockedUntil's UPDATE).                               *)
THEOREM AttemptsTold == Spec => []NoAttemptIsLost
<1>1. Counting => NoAttemptIsLost
  BY DEF Counting
<1> QED
  BY Start, Kept, <1>1, PTL DEF Spec

(* Exactly those are locked who used up their budget.                        *)
THEOREM LockTold == Spec => []LockMeetsCount
<1>1. Counting => LockMeetsCount
  BY DEF Counting
<1> QED
  BY Start, Kept, <1>1, PTL DEF Spec

(* A lock-out of an account that is not locked comes after a whole budget of *)
(* wrong attempts that nothing forgave (auth.go:324).                        *)
THEOREM BudgetTold == Spec => NoEarlyLock
<1>1. TypeOK /\ Counting /\ [Next]_vars => [user.lock = "none" /\ user'.lock = "on"
                                              => wrong' >= MaxFailures]_vars
  <2> SUFFICES ASSUME TypeOK, Counting, Counting', [Next]_vars,
                      user.lock = "none", user'.lock = "on"
               PROVE  wrong' >= MaxFailures
    BY Kept, CountsKept
  <2>1. TypeOK'
    BY TypesKept
  <2> QED
    BY <2>1, LoginAssumption DEF Counting, NoAttemptIsLost, LockMeetsCount, TypeOK, Account
<1> QED
  BY Start, Kept, <1>1, PTL DEF Spec, NoEarlyLock

(* No session outlives the password it was opened with, or goes without the  *)
(* factor that was turned on, except where its login overlapped the change.  *)
THEOREM SessionsTold == Spec => []SessionsAreCurrent
<1>1. Current => SessionsAreCurrent
  BY DEF Current
<1> QED
  BY Start, Kept, <1>1, PTL DEF Spec
=============================================================================
