------------------------------ MODULE Reminders ------------------------------
(***************************************************************************)
(* The reminders of the hourly sweep (internal/maintenance/worker.go):     *)
(* corrections and follow-ups with a date, planned opening dates, reviews  *)
(* that stand still and API keys about to expire, with the life of those   *)
(* keys (internal/web/core_handlers.go).                                   *)
(*                                                                         *)
(* Every reminder works alike.  One statement stamps the rows that are due *)
(* and were not stamped within the window, and returns them; then the      *)
(* worker looks up whom to tell and writes one notice after the other.     *)
(* What it holds is lost when the process stops, and the stamps stay.      *)
(***************************************************************************)
EXTENDS Naturals, FiniteSets, FiniteSetsExt

CONSTANTS
    People,
    Matters,    \* rows a reminder may be about
    Mixes,      \* the kinds the rows may have
    Named,      \* matter -> the people its row names, None where it names nobody
    Limit,      \* rows stamped at a time
    MaxFaults,  \* bound on stops of the process and notices that fail
    MaxMoves,   \* bound on accounts and roles given and taken, and reviews moved
    None

Kinds == {"correction", "follow-up", "stalled", "opening", "key"}

ASSUME RemindersAssumption ==
    /\ Mixes \subseteq [Matters -> Kinds \cup {None}]
    /\ Named \in [Matters -> [{"assignee", "raiser", "requester", "reviewer", "approver"}
                                 -> People \cup {None}]]
    /\ Limit \in Nat \ {0} /\ MaxFaults \in Nat /\ MaxMoves \in Nat
    /\ None \notin People \cup Matters

VARIABLES
    kind,       \* what a row is
    state,      \* "none" before it is there, "open", "done"
    date,       \* its date: "far", "near" once it asks for a reminder, "past"
    stamp,      \* reminded_at: "never", "recent" within the window, "old"
    signing,    \* reviews in APPROVAL_PENDING
    active,     \* active accounts
    reviewers,  \* SECURITY_REVIEWER
    approvers,  \* APPROVER
    worker,     \* what the sweep is doing
    rotating,   \* keys revoked by a rotation that has not issued the next one
    from,       \* key -> the key it replaces
    told,       \* who was told of a row within its window
    silenced,   \* keys whose warning was taken by a stop or a failed notice
    faults, moves

matters == <<kind, state, date, stamp, signing>>
people  == <<active, reviewers, approvers>>
keys    == <<rotating, from>>
bounds  == <<faults, moves>>
vars    == <<matters, people, worker, keys, told, silenced, bounds>>

Keys == {m \in Matters : kind[m] = "key"}
Resting == [phase |-> "idle", at |-> None, todo |-> {}, pending |-> {},
            group |-> {}, about |-> {}, to |-> {}]

Init ==
    /\ kind \in Mixes
    /\ state = [m \in Matters |-> IF kind[m] \in {"key", None} THEN "none" ELSE "open"]
    /\ date = [m \in Matters |-> "far"]
    /\ stamp = [m \in Matters |-> "never"]
    /\ signing = {}
    /\ active = People
    /\ reviewers = {Named[m].reviewer : m \in Matters} \ {None}
    /\ approvers = {Named[m].approver : m \in Matters} \ {None}
    /\ worker = Resting
    /\ rotating = {} /\ from = [m \in Matters |-> None]
    /\ told = [m \in Matters |-> {}]
    /\ silenced = {}
    /\ faults = MaxFaults /\ moves = MaxMoves

-----------------------------------------------------------------------------
(* Whom a reminder is for *)

(* The first of the candidates who can still act. *)
First(candidates, able) ==
    LET fit == {n \in DOMAIN candidates : candidates[n] \in able}
    IN  IF fit = {} THEN {} ELSE {candidates[Min(fit)]}

activeRecipient(candidates) == First(candidates, active)
roleHolder(holders, candidate) == First(<<candidate>>, holders \cap active)

(* Who has a review in hand, as its status says. *)
Holder(m, pending) ==
    LET approver == IF pending THEN roleHolder(approvers, Named[m].approver) ELSE {}
    IN  IF approver # {} THEN approver ELSE roleHolder(reviewers, Named[m].reviewer)

Recipients(m, pending) ==
    LET n == Named[m]
    IN  CASE kind[m] = "correction" ->
               activeRecipient(<<IF n.assignee = None THEN n.raiser ELSE n.assignee,
                                 n.requester, n.reviewer>>)
          [] kind[m] = "follow-up" -> activeRecipient(<<n.requester, n.reviewer>>)
          [] kind[m] = "opening" -> activeRecipient(<<n.requester>>) \cup Holder(m, pending)
          [] kind[m] = "stalled" -> Holder(m, pending)
          [] kind[m] = "key" -> {n.requester}

(* A review that stands still with nobody to act on it goes to the reviewers *)
(* as a group.                                                               *)
securityReviewers == reviewers \cap active

Reachable(m) ==
    \/ Recipients(m, m \in signing) # {}
    \/ kind[m] = "stalled" /\ securityReviewers # {}

(* A row asks for a reminder; that of a key only while its owner is there. *)
IsDue(m) ==
    /\ state[m] = "open" /\ date[m] = "near"
    /\ kind[m] = "key" => Named[m].requester \in active

Remindable_once(m) == IsDue(m) /\ stamp[m] = "never"
Remindable_always(m) == IsDue(m)
Remindable(m) == IsDue(m) /\ stamp[m] # "recent"

-----------------------------------------------------------------------------
(* The sweep: one kind after the other *)

NextKind(k) ==
    CASE k = "correction" -> "follow-up" [] k = "follow-up" -> "stalled"
      [] k = "stalled" -> "opening" [] k = "opening" -> "key" [] k = "key" -> None

GoOn == worker' = IF NextKind(worker.at) = None THEN Resting
                  ELSE [Resting EXCEPT !.phase = "sweeping", !.at = NextKind(worker.at)]

StartSweep ==
    /\ worker.phase = "idle"
    /\ worker' = [Resting EXCEPT !.phase = "sweeping", !.at = "correction"]
    /\ UNCHANGED <<matters, people, keys, told, silenced, bounds>>

(* UPDATE ... RETURNING, with the status the rows had then. *)
Stamp ==
    LET due == {m \in Matters : kind[m] = worker.at /\ Remindable(m)}
    IN  /\ worker.phase = "sweeping"
        /\ IF due = {} THEN GoOn /\ UNCHANGED stamp
           ELSE \E S \in SUBSET due :
                  /\ Cardinality(S) = Min({Limit, Cardinality(due)})
                  /\ stamp' = [m \in Matters |-> IF m \in S THEN "recent" ELSE stamp[m]]
                  /\ worker' = [worker EXCEPT !.phase = "telling", !.todo = S,
                                              !.pending = S \cap signing]
        /\ UNCHANGED <<kind, state, date, signing, people, keys, told, silenced, bounds>>

(* The look at who can act, and what nobody can act on put aside. *)
LookUp(m) ==
    /\ worker.phase = "telling" /\ m \in worker.todo
    /\ LET to == Recipients(m, m \in worker.pending)
           left == [worker EXCEPT !.todo = @ \ {m}]
       IN  worker' = IF to # {} THEN [left EXCEPT !.phase = "writing", !.about = {m}, !.to = to]
                     ELSE IF kind[m] = "stalled" THEN [left EXCEPT !.group = @ \cup {m}]
                     ELSE left
    /\ UNCHANGED <<matters, people, keys, told, silenced, bounds>>

(* One message about everything that was put aside, or the end of the kind. *)
remindUnclaimedReviews ==
    /\ worker.phase = "telling" /\ worker.todo = {}
    /\ IF worker.group # {} /\ securityReviewers # {}
       THEN worker' = [worker EXCEPT !.phase = "writing", !.about = worker.group,
                                     !.group = {}, !.to = securityReviewers]
       ELSE GoOn
    /\ UNCHANGED <<matters, people, keys, told, silenced, bounds>>

Written(p) == [worker EXCEPT !.to = @ \ {p},
                             !.phase = IF worker.to = {p} THEN "telling" ELSE "writing",
                             !.about = IF worker.to = {p} THEN {} ELSE @]

Notify(p) ==
    /\ worker.phase = "writing" /\ p \in worker.to
    /\ worker' = Written(p)
    /\ told' = [m \in Matters |-> IF m \in worker.about THEN told[m] \cup {p} ELSE told[m]]
    /\ UNCHANGED <<matters, people, keys, silenced, bounds>>

(* The stamp of a row whose notice is lost stays.  For a key that is the end *)
(* of it: its one window lasts as long as the key does.                      *)
Silencing(S) == silenced' = silenced \cup (S \cap Keys)

NotifyFails(p) ==
    /\ worker.phase = "writing" /\ p \in worker.to /\ faults > 0
    /\ worker' = Written(p)
    /\ Silencing(worker.about)
    /\ faults' = faults - 1
    /\ UNCHANGED <<matters, people, keys, told, moves>>

Stop ==
    /\ worker.phase # "idle" /\ faults > 0
    /\ worker' = Resting
    /\ Silencing(worker.todo \cup worker.about)
    /\ faults' = faults - 1
    /\ UNCHANGED <<matters, people, keys, told, moves>>

(* The window of three or seven days is over.  Before that the hourly sweeps *)
(* have worked off what is due of the same kind, Limit rows at a time.  A    *)
(* key is stamped within seven days of its end, so that it has ended by then.*)
WindowPasses(m) ==
    /\ worker.phase = "idle"
    /\ stamp[m] = "recent"
    /\ m \in Keys => date[m] = "past"
    /\ \A n \in Matters : kind[n] = kind[m] => ~ Remindable(n)
    /\ stamp' = [stamp EXCEPT ![m] = "old"]
    /\ told' = [told EXCEPT ![m] = {}]
    /\ UNCHANGED <<kind, state, date, signing, people, worker, keys, silenced, bounds>>

-----------------------------------------------------------------------------
(* What goes on around it *)

DateNears(m) ==
    /\ state[m] = "open" /\ date[m] = "far"
    /\ date' = [date EXCEPT ![m] = "near"]
    /\ UNCHANGED <<kind, state, stamp, signing, people, worker, keys, told, silenced, bounds>>

(* Verified, done, concluded or cancelled; a key revoked by its owner or an  *)
(* administrator.                                                            *)
Settle(m) ==
    /\ state[m] = "open"
    /\ state' = [state EXCEPT ![m] = "done"]
    /\ UNCHANGED <<kind, date, stamp, signing, people, worker, keys, told, silenced, bounds>>

(* A review moves on: to the approver or back to the reviewer. *)
Move(m) ==
    /\ kind[m] \in {"stalled", "opening"} /\ state[m] = "open" /\ moves > 0
    /\ signing' = IF m \in signing THEN signing \ {m} ELSE signing \cup {m}
    /\ date' = IF kind[m] = "stalled" THEN [date EXCEPT ![m] = "far"] ELSE date
    /\ moves' = moves - 1
    /\ UNCHANGED <<kind, state, stamp, people, worker, keys, told, silenced, faults>>

ChangeAccount(p) ==
    /\ moves > 0
    /\ \/ active' = (active \ {p}) \cup ({p} \ active) /\ UNCHANGED <<reviewers, approvers>>
       \/ p \in reviewers /\ reviewers' = reviewers \ {p} /\ UNCHANGED <<active, approvers>>
       \/ p \in approvers /\ approvers' = approvers \ {p} /\ UNCHANGED <<active, reviewers>>
    /\ moves' = moves - 1
    /\ UNCHANGED <<matters, worker, keys, told, silenced, faults>>

CreateKey(m) ==
    /\ m \in Keys /\ state[m] = "none"
    /\ Named[m].requester \in active
    /\ state' = [state EXCEPT ![m] = "open"]
    /\ UNCHANGED <<kind, date, stamp, signing, people, worker, keys, told, silenced, bounds>>

KeyExpires(m) ==
    /\ m \in Keys /\ date[m] = "near"
    /\ date' = [date EXCEPT ![m] = "past"]
    /\ UNCHANGED <<kind, state, stamp, signing, people, worker, keys, told, silenced, bounds>>

(* Rotating revokes the key in the statement that asks for it ... *)
Withdrawn_later(m) == state
Withdrawn(m) == [state EXCEPT ![m] = "done"]

RotateKey(m) ==
    /\ m \in Keys /\ state[m] = "open" /\ m \notin rotating
    /\ Named[m].requester \in active
    /\ state' = Withdrawn(m)
    /\ rotating' = rotating \cup {m}
    /\ UNCHANGED <<kind, date, stamp, signing, people, worker, from, told, silenced, bounds>>

(* ... and then issues another with the same date, unless that has passed, ... *)
IssueKey(old, m) ==
    /\ old \in rotating /\ date[old] # "past"
    /\ m \in Keys /\ state[m] = "none"
    /\ state' = [state EXCEPT ![m] = "open"]
    /\ date' = [date EXCEPT ![m] = date[old]]
    /\ from' = [from EXCEPT ![m] = old]
    /\ rotating' = rotating \ {old}
    /\ UNCHANGED <<kind, stamp, signing, people, worker, told, silenced, bounds>>

(* ... or the installation allows keys a shorter life by now, or it fails. *)
IssueRefused(old) ==
    /\ old \in rotating
    /\ rotating' = rotating \ {old}
    /\ UNCHANGED <<matters, people, worker, from, told, silenced, bounds>>

Sweeping ==
    \/ StartSweep \/ Stamp \/ remindUnclaimedReviews
    \/ \E m \in Matters : LookUp(m)
    \/ \E p \in People : Notify(p)

Next ==
    \/ Sweeping \/ Stop
    \/ \E p \in People : NotifyFails(p) \/ ChangeAccount(p)
    \/ \E m \in Matters :
          \/ WindowPasses(m) \/ DateNears(m) \/ Settle(m) \/ Move(m)
          \/ CreateKey(m) \/ KeyExpires(m) \/ RotateKey(m) \/ IssueRefused(m)
          \/ \E old \in Matters : IssueKey(old, m)

(* The sweep goes on hour after hour, and time passes. *)
Spec ==
    /\ Init /\ [][Next]_vars
    /\ WF_vars(Sweeping)
    /\ \A m \in Matters : SF_vars(WindowPasses(m))

-----------------------------------------------------------------------------
(* Properties *)

(* Whatever stays due is chased, again and again, as long as one of those it *)
(* concerns can act: neither a stop between the stamp and the notice, nor    *)
(* people who have left or lost their role, nor more rows than a sweep takes *)
(* silence it for good (worker.go:509, 717) -- but for a key, whose only     *)
(* warning is gone when the process stops between its stamp and the notice   *)
(* (worker.go:303).                                                          *)
Waits(m) == IsDue(m) /\ Reachable(m) /\ m \notin silenced

DueIsTold ==
    \A m \in Matters : (Waits(m) /\ told[m] = {}) ~> (told[m] # {} \/ ~ Waits(m))

(* Nobody is told twice of the same thing within its window, although the    *)
(* process stops, notices fail and the responsible change while a sweep is   *)
(* under way (the stamp is written before anybody is told).                  *)
OncePerWindow ==
    \A p \in worker.to, m \in worker.about : p \notin told[m]

(* Of a key and what replaced it one works at most, however often a rotation *)
(* is asked for (core_handlers.go:936: revoked where it is asked for).       *)
Works(m) == m \in Keys /\ state[m] = "open" /\ date[m] # "past"
                /\ Named[m].requester \in active
OneKeyWorks ==
    \A m, n \in Keys :
        m # n /\ (from[n] = m \/ (from[m] = from[n] /\ from[m] # None))
            => ~ (Works(m) /\ Works(n))
=============================================================================
