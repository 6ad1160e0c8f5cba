--------------------------- MODULE ReviewAssignment ---------------------------
(***************************************************************************)
(* Who holds which part of which review: the seats of requester, reviewer  *)
(* and approver, the items and corrections in somebody's name, and what    *)
(* was promised for later, as they change hands one by one                 *)
(* (internal/web/reviews.go) and all at once, when somebody leaves         *)
(* (handoverUserWork in internal/web/admin.go).                            *)
(*                                                                         *)
(* A handler asks first and writes later, as in ReviewWorkflow; the        *)
(* hand-over reads its list once and then writes seat by seat.  How a      *)
(* review is created and gets from one stage to the next is                *)
(* ReviewWorkflow's, and only its outline is here.                         *)
(***************************************************************************)
EXTENDS Naturals, FiniteSets

CONSTANTS
    People,
    Reviews,          \* review numbers, in the order the hand-over takes them
    AllowSelfReview,  \* setting allow_self_review
    Starts,           \* where the first review may stand, and who sits there
    FirstRoles,       \* the roles people start with
    Leavers,          \* whose work may be handed over (bound)
    Mutable,          \* people whose account or roles may change (bound)
    MaxRequests,      \* bound on assignments asked for one by one
    MaxCalls,         \* bound on requests served at a time
    MaxChanges,       \* bound on accounts and roles that change and stages passed
    MaxHandovers,     \* bound on hand-overs
    MaxFailures,      \* bound on statements that fail and are passed over
    None

Seats  == {"requester", "reviewer", "approver"}
Roles  == {"REQUESTER", "SECURITY_REVIEWER", "APPROVER"}
Stages == {"none", "desk", "submitted", "reviewing", "signing", "concluded", "rejected",
           "cancelled"}
Nobody == [s \in Seats |-> None]

ASSUME AssignmentAssumption ==
    /\ Reviews \subseteq Nat /\ None \notin People
    /\ AllowSelfReview \in BOOLEAN
    /\ FirstRoles \in [People -> SUBSET Roles]
    /\ Starts \subseteq [stage : Stages \ {"none"}, seat : [Seats -> People],
                         item : People \cup {None}, correction : People \cup {None},
                         followUp : {"none", "open"}]
    /\ AllowSelfReview \/ \A start \in Starts :
          start.seat.requester \notin {start.seat.reviewer, start.seat.approver}
    /\ Leavers \subseteq People /\ Mutable \subseteq People
    /\ MaxRequests \in Nat /\ MaxCalls \in Nat /\ MaxChanges \in Nat
    /\ MaxHandovers \in Nat /\ MaxFailures \in Nat

VARIABLES
    stage,      \* desk: DRAFT or CHANGE_REQUESTED; concluded: nothing left to decide
    seat,       \* who is named where
    guests,     \* contributors, and whoever builds or runs the service
    item,       \* responses.assigned_to of an item of each review
    correction, \* assignee of an outstanding change request
    followUp,   \* "none", "open", "reported" or "done"
    accepted,   \* who confirmed the follow-up, and whose review it was then
    active, holds,
    calls,      \* requests between their checks and their write
    handover,
    since,      \* what others changed since the hand-over read its list
    unasked,    \* (history) reviews where nobody asked whether the requester
                \* sits there, or the answer moved before it was used
    left        \* what the bounds leave

reviews == <<stage, seat, guests, item, correction, followUp, accepted>>
people  == <<active, holds>>
vars    == <<reviews, people, calls, handover, since, unasked, left>>

Resting == [phase |-> "idle", from |-> None, to |-> None, can |-> {},
            rows |-> [r \in Reviews |-> Nobody], todo |-> {}, named |-> {}, reach |-> {}, lost |-> {}]

First == CHOOSE r \in Reviews : \A n \in Reviews : r <= n
OfFirst(value, other) == [r \in Reviews |-> IF r = First THEN value ELSE other]

Init ==
    /\ \E start \in Starts :
          /\ stage = OfFirst(start.stage, "none")
          /\ seat = OfFirst(start.seat, Nobody)
          /\ item = OfFirst(start.item, None)
          /\ correction = OfFirst(start.correction, None)
          /\ followUp = OfFirst(start.followUp, "none")
    /\ guests = [r \in Reviews |-> {}]
    /\ accepted = [r \in Reviews |-> [by |-> None, of |-> None]]
    /\ active = People /\ holds = FirstRoles
    /\ calls = {} /\ handover = Resting
    /\ since = {} /\ unasked = {}
    /\ left = [requests |-> MaxRequests, changes |-> MaxChanges,
               handovers |-> MaxHandovers, failures |-> MaxFailures]

-----------------------------------------------------------------------------
(* Who may do what *)

Open(r)      == stage[r] \in {"desk", "submitted", "reviewing", "signing"}
Able(u, role) == u \in active /\ role \in holds[u]
InSeat(u, r) == \E s \in Seats : seat[r][s] = u

canAccessReviewAs(u, r) == InSeat(u, r) \/ u \in guests[r]
canEditReview(u, r) ==
    u \in active /\ stage[r] = "desk" /\ u \in guests[r] \cup {seat[r].requester}
selfReviewBlocked(u, r) == ~AllowSelfReview /\ u = seat[r].requester

(* A query of it that fails lets the requester through.                      *)
Passes(u, r, blind) ==
    IF blind THEN left.failures > 0 /\ selfReviewBlocked(u, r) ELSE ~selfReviewBlocked(u, r)

canReview(u, r) ==
    Able(u, "SECURITY_REVIEWER") /\ ~selfReviewBlocked(u, r) /\ seat[r].reviewer = u

(* Whoever was to review can no longer do so. *)
Orphaned(r) == ~Able(seat[r].reviewer, "SECURITY_REVIEWER")

(* A review nobody able holds may be closed out by any reviewer. *)
canCloseFollowUp(u, r, blind) ==
    /\ Able(u, "SECURITY_REVIEWER") /\ Passes(u, r, blind)
    /\ seat[r].reviewer = u \/ Orphaned(r)

namedAssigneesFit(requester, reviewer, approver) ==
    /\ reviewer # None => Able(reviewer, "SECURITY_REVIEWER")
    /\ approver # None => Able(approver, "APPROVER")
    /\ ~AllowSelfReview =>
          /\ reviewer = approver => reviewer = None
          /\ requester \notin {reviewer, approver}

-----------------------------------------------------------------------------
(* One by one *)

Call(op, u, r, to, also, blind) ==
    [op |-> op, by |-> u, r |-> r, to |-> to, also |-> also, saw |-> seat[r], blind |-> blind]

Free == left.requests > 0 /\ left' = [left EXCEPT !.requests = @ - 1]

(* The checks have passed, or one of them failed to ask.                     *)
Ask(call) ==
    /\ left.requests > 0 /\ Cardinality(calls) < MaxCalls
    /\ left' = [left EXCEPT !.requests = @ - 1,
                           !.failures = IF call.blind THEN @ - 1 ELSE @]
    /\ calls' = calls \cup {call}
    /\ UNCHANGED <<reviews, people, handover, since, unasked>>

(* One statement that names people, with what watches over it. *)
Noted(changed) == IF handover.phase = "idle" THEN {} ELSE since \cup changed
Facing(s) == IF s = "requester" THEN {"reviewer", "approver"} ELSE {"requester"}
Crossed(call, s) ==
    IF call.blind \/ \E o \in Facing(s) : seat[call.r][o] # call.saw[o]
    THEN unasked \cup {call.r} ELSE unasked
Seated(r, new) ==
    /\ seat' = [seat EXCEPT ![r] = new]
    /\ since' = Noted({<<r, s>> : s \in {t \in Seats : new[t] # seat[r][t]}})

Done(call) == calls' = calls \ {call}

(* What the statement's WHERE asks of the row. *)
Applies(call) ==
    LET r == call.r
    IN  CASE call.op = "update"   -> stage[r] = "desk"
          [] call.op = "transfer" -> seat[r].requester = call.saw.requester
          [] call.op = "begin"    -> \/ stage[r] = "submitted"
                                        /\ (Orphaned(r) \/ seat[r].reviewer = call.by)
                                     \/ stage[r] = "reviewing" /\ Orphaned(r)
          [] call.op = "decide"   -> /\ stage[r] = "signing"
                                     /\ call.by = seat[r].approver \/ call.to # None
          [] call.op = "report"   -> followUp[r] \in {"open", "reported"}
          [] OTHER                -> TRUE

(* A copy keeps the reviewer and the approver of the original, whoever asks. *)
copyReview(u, from, r) ==
    /\ Able(u, "REQUESTER") /\ stage[from] # "none" /\ stage[r] = "none"
    /\ canAccessReviewAs(u, from) \/ Able(u, "SECURITY_REVIEWER")
    /\ Free
    /\ stage' = [stage EXCEPT ![r] = "desk"]
    /\ Seated(r, [seat[from] EXCEPT !.requester = u])
    /\ unasked' = IF u \in {seat[from].reviewer, seat[from].approver}
                  THEN unasked \cup {r} ELSE unasked
    /\ UNCHANGED <<guests, item, correction, followUp, accepted, people, calls, handover>>

UpdateCheck(u, r, reviewer, approver) ==
    /\ canEditReview(u, r)
    /\ namedAssigneesFit(seat[r].requester, reviewer, approver)
    /\ Ask(Call("update", u, r, reviewer, approver, FALSE))

OrKept(new, old) == IF new = None THEN old ELSE new

Update(call) ==
    /\ call.op = "update" /\ Applies(call) /\ Done(call)
    /\ Seated(call.r, [seat[call.r] EXCEPT !.reviewer = OrKept(call.to, @),
                                           !.approver = OrKept(call.also, @)])
    /\ unasked' = Crossed(call, "reviewer")
    /\ UNCHANGED <<stage, guests, item, correction, followUp, accepted, people,
                   handover, left>>

(* The owner or an administrator, who is always there, gives the review away. *)
TransferCheck(r, to) ==
    /\ stage[r] \notin {"none", "cancelled"} /\ to # seat[r].requester
    /\ Able(to, "REQUESTER")
    /\ AllowSelfReview \/ to \notin {seat[r].reviewer, seat[r].approver}
    /\ Ask(Call("transfer", seat[r].requester, r, to, None, FALSE))

Transfer(call) ==
    /\ call.op = "transfer" /\ Applies(call) /\ Done(call)
    /\ Seated(call.r, [seat[call.r] EXCEPT !.requester = call.to])
    /\ unasked' = Crossed(call, "requester")
    /\ UNCHANGED <<stage, guests, item, correction, followUp, accepted, people,
                   handover, left>>

(* Asks for the role, and for nothing else. *)
reassignApprover(r, to) ==
    /\ stage[r] = "signing" /\ "APPROVER" \in holds[to] /\ to # seat[r].approver
    /\ Free
    /\ Seated(r, [seat[r] EXCEPT !.approver = to])
    /\ unasked' = IF to = seat[r].requester THEN unasked \cup {r} ELSE unasked
    /\ UNCHANGED <<stage, guests, item, correction, followUp, accepted, people, calls,
                   handover>>

BeginCheck(u, r, blind) ==
    /\ stage[r] # "none"
    /\ Able(u, "SECURITY_REVIEWER") /\ Passes(u, r, blind)
    /\ Ask(Call("begin", u, r, None, None, blind))

Begin(call) ==
    LET r == call.r
    IN  /\ call.op = "begin" /\ Applies(call) /\ Done(call)
        /\ stage' = [stage EXCEPT ![r] = "reviewing"]
        /\ Seated(r, IF Orphaned(r) THEN [seat[r] EXCEPT !.reviewer = call.by] ELSE seat[r])
        /\ unasked' = Crossed(call, "reviewer")
        /\ UNCHANGED <<guests, item, correction, followUp, accepted, people, handover, left>>

(* Whoever approves or rejects takes the seat of an approver who is not      *)
(* there, no longer may, or judged the review, if they hold the role.  Who   *)
(* judged is ReviewWorkflow's.                                               *)
DecideCheck(u, r, blind) ==
    /\ stage[r] # "none" /\ u \in active /\ Passes(u, r, blind)
    /\ Ask(Call("decide", u, r, IF Able(u, "APPROVER") THEN u ELSE None, None, blind))

Decide(call, judged) ==
    LET r      == call.r
        vacant == judged \/ ~Able(seat[r].approver, "APPROVER")
    IN  /\ call.op = "decide" /\ Applies(call) /\ Done(call)
        /\ call.by = seat[r].approver \/ vacant
        /\ judged => ~AllowSelfReview
        /\ \E to \in {"concluded", "rejected"} : stage' = [stage EXCEPT ![r] = to]
        /\ Seated(r, IF vacant THEN [seat[r] EXCEPT !.approver = call.by] ELSE seat[r])
        /\ unasked' = Crossed(call, "approver")
        /\ UNCHANGED <<guests, item, correction, followUp, accepted, people, handover, left>>

(* The statement finds the row other than its WHERE asks. *)
Stale(call) ==
    /\ call.op \in {"update", "transfer", "begin", "decide", "report"}
    /\ ~Applies(call) \/ (call.op = "decide" /\ call.by # seat[call.r].approver)
    /\ Done(call)
    /\ UNCHANGED <<reviews, people, handover, since, unasked, left>>

-----------------------------------------------------------------------------
(* Items, corrections, contributors *)

bulkAssign(u, r, to) ==
    /\ canEditReview(u, r) /\ canAccessReviewAs(to, r) /\ item[r] # to /\ Free
    /\ item' = [item EXCEPT ![r] = to]
    /\ since' = Noted({<<r, "item">>})
    /\ UNCHANGED <<stage, seat, guests, correction, followUp, accepted, people, calls,
                   handover, unasked>>

createChangeRequest(u, r, to) ==
    /\ canReview(u, r) /\ stage[r] = "reviewing" /\ canAccessReviewAs(to, r) /\ Free
    /\ correction' = [correction EXCEPT ![r] = to]
    /\ stage' = [stage EXCEPT ![r] = "desk"]
    /\ since' = Noted({<<r, "correction">>})
    /\ UNCHANGED <<seat, guests, item, followUp, accepted, people, calls, handover, unasked>>

addParticipant(u, r, to) ==
    /\ canEditReview(u, r) /\ to \notin guests[r] /\ Free
    /\ guests' = [guests EXCEPT ![r] = @ \cup {to}]
    /\ since' = Noted({<<r, "guests">>})
    /\ UNCHANGED <<stage, seat, item, correction, followUp, accepted, people, calls,
                   handover, unasked>>

(* Removing somebody lets go of what they were filling in, in a second statement. *)
removeParticipant(u, r, to) ==
    /\ canEditReview(u, r) /\ to \in guests[r] /\ Free
    /\ Cardinality(calls) < MaxCalls
    /\ guests' = [guests EXCEPT ![r] = @ \ {to}]
    /\ since' = Noted({<<r, "guests">>})
    /\ calls' = calls \cup {Call("release", u, r, to, None, FALSE)}
    /\ UNCHANGED <<stage, seat, item, correction, followUp, accepted, people, handover, unasked>>

releaseItemsOf(call) ==
    /\ call.op = "release" /\ Done(call)
    /\ item' = [item EXCEPT ![call.r] = IF @ = call.to THEN None ELSE @]
    /\ UNCHANGED <<stage, seat, guests, correction, followUp, accepted, people, handover,
                   since, unasked, left>>

-----------------------------------------------------------------------------
(* What was promised for later *)

FollowUpCheck(u, r, op, blind) ==
    /\ followUp[r] # "none" /\ u \in active
    /\ IF op = "report"
       THEN ~blind /\ (Able(u, "SECURITY_REVIEWER") \/ canAccessReviewAs(u, r))
       ELSE canCloseFollowUp(u, r, blind)
    /\ Ask(Call(op, u, r, None, None, blind))

Report(call) ==
    /\ call.op = "report" /\ Applies(call) /\ Done(call)
    /\ followUp' = [followUp EXCEPT ![call.r] = "reported"]
    /\ UNCHANGED <<stage, seat, guests, item, correction, accepted, people, handover,
                   since, unasked, left>>

Confirm(call) ==
    /\ call.op = "confirm" /\ Done(call)
    /\ followUp' = [followUp EXCEPT ![call.r] = "done"]
    /\ accepted' = [accepted EXCEPT ![call.r] = [by |-> call.by, of |-> seat[call.r].requester]]
    /\ unasked' = Crossed(call, "reviewer")
    /\ UNCHANGED <<stage, seat, guests, item, correction, people, handover, since, left>>

Reopen(call) ==
    /\ call.op = "reopen" /\ Done(call)
    /\ followUp' = [followUp EXCEPT ![call.r] = "open"]
    /\ accepted' = [accepted EXCEPT ![call.r] = [by |-> None, of |-> None]]
    /\ UNCHANGED <<stage, seat, guests, item, correction, people, handover, since,
                   unasked, left>>

-----------------------------------------------------------------------------
(* Everything at once, when somebody leaves *)

StartHandover(from, to) ==
    /\ handover.phase = "idle" /\ from # to /\ to \in active
    /\ from \in Leavers /\ left.handovers > 0
    /\ left' = [left EXCEPT !.handovers = @ - 1]
    /\ handover' = [Resting EXCEPT !.phase = "listing", !.from = from, !.to = to,
                                   !.can = holds[to]]
    /\ UNCHANGED <<reviews, people, calls, since, unasked>>

(* The one look at the open reviews. *)
Held(t) == Open(t[1]) /\ seat[t[1]][t[2]] = handover.from
Listed_once == {t \in Reviews \X Seats :
                   Held(t) /\ (t[2] = "approver" => ~Held(<<t[1], "reviewer">>))}
Listed == {t \in Reviews \X Seats : Held(t)}

ListOpen ==
    /\ handover.phase = "listing"
    /\ handover' = [handover EXCEPT !.phase = "moving", !.rows = seat, !.todo = Listed]
    /\ since' = {}
    /\ UNCHANGED <<reviews, people, calls, unasked, left>>

PassedOver == left.failures > 0 /\ left' = [left EXCEPT !.failures = @ - 1]

(* A list that breaks off is taken for all there is.                         *)
ListBreaksOff ==
    /\ handover.phase = "listing"
    /\ \E r \in Reviews :
          handover' = [handover EXCEPT !.phase = "moving", !.rows = seat, !.lost = {"seats"},
                                       !.todo = {t \in Listed : t[1] < r}]
    /\ since' = {}
    /\ PassedOver
    /\ UNCHANGED <<reviews, people, calls, unasked>>

RoleOf == [requester |-> "REQUESTER", reviewer |-> "SECURITY_REVIEWER", approver |-> "APPROVER"]
Turn   == [requester |-> 1, reviewer |-> 2, approver |-> 3]
Foremost(t) == \A o \in handover.todo :
                t[1] < o[1] \/ (t[1] = o[1] /\ Turn[t[2]] <= Turn[o[2]])

(* Each seat is decided on its own, by the row as it was listed. *)
Opposite(t) == LET row == handover.rows[t[1]]
               IN  IF t[2] = "requester" THEN {row.reviewer, row.approver} ELSE {row.requester}
May_byRole(t) == RoleOf[t[2]] \in handover.can
May(t) == /\ RoleOf[t[2]] \in handover.can
          /\ AllowSelfReview \/ handover.to \notin Opposite(t)

MoveSeat(t) ==
    LET r == t[1]
        ok == May(t) /\ seat[r][t[2]] = handover.from
    IN  /\ handover.phase = "moving" /\ t \in handover.todo /\ Foremost(t)
        /\ seat' = IF ok THEN [seat EXCEPT ![r][t[2]] = handover.to] ELSE seat
        /\ unasked' = IF ok /\ (\E s \in Facing(t[2]) : <<r, s>> \in since)
                      THEN unasked \cup {r} ELSE unasked
        /\ handover' = [handover EXCEPT !.todo = @ \ {t},
                                        !.named = IF ok THEN @ ELSE @ \cup {t}]
        /\ UNCHANGED <<stage, guests, item, correction, followUp, accepted, people, calls,
                       since, left>>

(* A statement about a seat that fails counts as refused. *)
SeatFails(t) ==
    /\ handover.phase = "moving" /\ t \in handover.todo /\ Foremost(t) /\ May(t)
    /\ handover' = [handover EXCEPT !.todo = @ \ {t}, !.named = @ \cup {t}]
    /\ PassedOver
    /\ UNCHANGED <<reviews, people, calls, since, unasked>>

(* Items and corrections go only where the successor can open the review; it *)
(* is looked up once for the items and once more for the corrections.        *)
reachableReviews ==
    {r \in Reviews : /\ Open(r) /\ canAccessReviewAs(handover.to, r)
                     /\ handover.from \in {item[r], correction[r]}}

Upon(phase) == IF phase = "moving" THEN "items" ELSE "corrections"

Reach ==
    /\ handover.todo = {} /\ handover.phase \in {"moving", "between"}
    /\ handover' = [handover EXCEPT !.reach = reachableReviews, !.phase = Upon(@)]
    /\ UNCHANGED <<reviews, people, calls, since, unasked, left>>

(* A look-up or an update that fails is logged at most: nothing, or not all, *)
(* is moved, and the answer does not say so.                                 *)
ReachFails ==
    /\ handover.todo = {} /\ handover.phase \in {"moving", "between"}
    /\ \E some \in SUBSET reachableReviews :
          handover' = [handover EXCEPT !.reach = some, !.phase = Upon(@),
                                       !.lost = @ \cup {Upon(handover.phase)}]
    /\ PassedOver
    /\ UNCHANGED <<reviews, people, calls, since, unasked>>

Passed(names) == [r \in Reviews |-> IF r \in handover.reach /\ names[r] = handover.from
                                    THEN handover.to ELSE names[r]]

After(phase) == IF phase = "items" THEN "between" ELSE "answered"

MoveItems ==
    /\ handover.phase = "items"
    /\ item' = Passed(item)
    /\ handover' = [handover EXCEPT !.phase = "between"]
    /\ UNCHANGED <<stage, seat, guests, correction, followUp, accepted, people, calls,
                   since, unasked, left>>

MoveCorrections ==
    /\ handover.phase = "corrections"
    /\ correction' = Passed(correction)
    /\ handover' = [handover EXCEPT !.phase = "answered"]
    /\ UNCHANGED <<stage, seat, guests, item, followUp, accepted, people, calls,
                   since, unasked, left>>

MoveFails ==
    /\ handover.phase \in {"items", "corrections"}
    /\ handover' = [handover EXCEPT !.lost = @ \cup {handover.phase}, !.phase = After(@)]
    /\ PassedOver
    /\ UNCHANGED <<reviews, people, calls, since, unasked>>

(* The answer names what stayed. *)
Answer ==
    /\ handover.phase = "answered"
    /\ handover' = Resting /\ since' = {}
    /\ UNCHANGED <<reviews, people, calls, unasked, left>>

-----------------------------------------------------------------------------
(* Accounts, and the way of a review in outline *)

Changing == left.changes > 0 /\ left' = [left EXCEPT !.changes = @ - 1]

updateUserRoles(u, role) ==
    /\ Changing
    /\ holds' = [holds EXCEPT ![u] = IF role \in @ THEN @ \ {role} ELSE @ \cup {role}]
    /\ UNCHANGED <<reviews, active, calls, handover, since, unasked>>

(* Closing an account lets go of its items in the open reviews, in a second  *)
(* statement; corrections and seats stay.                                    *)
setUserActive(u) ==
    /\ Changing
    /\ IF u \in active
       THEN /\ active' = active \ {u} /\ Cardinality(calls) < MaxCalls
            /\ calls' = calls \cup {Call("close", u, First, u, None, FALSE)}
       ELSE active' = active \cup {u} /\ UNCHANGED calls
    /\ UNCHANGED <<reviews, holds, handover, since, unasked>>

releaseOpenItems(call) ==
    /\ call.op = "close" /\ Done(call)
    /\ item' = [r \in Reviews |-> IF item[r] = call.to /\ Open(r) THEN None ELSE item[r]]
    /\ UNCHANGED <<stage, seat, guests, correction, followUp, accepted, people, handover,
                   since, unasked, left>>

Roads == {<<"desk", "submitted">>, <<"reviewing", "desk">>, <<"reviewing", "signing">>,
          <<"reviewing", "concluded">>, <<"signing", "reviewing">>, <<"rejected", "reviewing">>}
            \cup ({"desk", "submitted", "reviewing", "signing"} \X {"cancelled"})

(* A verdict may ask for something to be done after the review. *)
Advance(r, to) ==
    /\ <<stage[r], to>> \in Roads /\ Changing
    /\ stage' = [stage EXCEPT ![r] = to]
    /\ \/ UNCHANGED followUp
       \/ stage[r] = "reviewing" /\ followUp[r] = "none"
             /\ followUp' = [followUp EXCEPT ![r] = "open"]
    /\ since' = IF Open(r) THEN since ELSE Noted({<<r, "stage">>})
    /\ UNCHANGED <<seat, guests, item, correction, accepted, people, calls, handover,
                   unasked>>

Verify(r) ==
    /\ correction[r] # None /\ stage[r] = "reviewing" /\ Changing
    /\ correction' = [correction EXCEPT ![r] = None]
    /\ UNCHANGED <<stage, seat, guests, item, followUp, accepted, people, calls, handover,
                   since, unasked>>

OneByOne(u, r) ==
    /\ left.requests > 0
    /\ \/ \E v, w \in People \cup {None} : UpdateCheck(u, r, v, w)
       \/ \E o \in Reviews : copyReview(u, o, r)
       \/ \E blind \in BOOLEAN :
             \/ BeginCheck(u, r, blind) \/ DecideCheck(u, r, blind)
             \/ \E op \in {"report", "confirm", "reopen"} : FollowUpCheck(u, r, op, blind)
       \/ \E to \in People : \/ bulkAssign(u, r, to) \/ createChangeRequest(u, r, to)
                             \/ addParticipant(u, r, to) \/ removeParticipant(u, r, to)

Written(call) ==
    \/ Update(call) \/ Transfer(call) \/ Begin(call) \/ Stale(call)
    \/ releaseItemsOf(call) \/ releaseOpenItems(call)
    \/ Report(call) \/ Confirm(call) \/ Reopen(call)
    \/ \E judged \in BOOLEAN : Decide(call, judged)

handoverUserWork ==
    \/ \E from, to \in People : StartHandover(from, to)
    \/ ListOpen \/ ListBreaksOff \/ \E t \in Reviews \X Seats : MoveSeat(t) \/ SeatFails(t)
    \/ Reach \/ ReachFails \/ MoveItems \/ MoveCorrections \/ MoveFails \/ Answer

Next ==
    \/ handoverUserWork
    \/ \E call \in calls : Written(call)
    \/ \E u \in Mutable : setUserActive(u) \/ \E role \in Roles : updateUserRoles(u, role)
    \/ \E r \in Reviews :
          \/ \E u \in People : OneByOne(u, r) \/ TransferCheck(r, u) \/ reassignApprover(r, u)
          \/ \E to \in Stages : Advance(r, to)
          \/ Verify(r)

Spec == Init /\ [][Next]_vars

-----------------------------------------------------------------------------
(* Properties *)

(* Nobody gets to judge, approve or close out what they asked for, except    *)
(* where the seats opposite changed between the check and the write, the     *)
(* check could not be made, somebody copied a review they review or approve, *)
(* or an administrator made the requester approver: the checks before each   *)
(* assignment, one at a time and in the hand-over, leave no other way        *)
(* (namedAssigneeProblems, transferRequester, handoverUserWork, beginReview, *)
(* decideApproval, canCloseFollowUp).                                        *)
OwnWorkOnlyByOverlap ==
    ~AllowSelfReview =>
        \A r \in Reviews \ unasked :
            /\ seat[r].requester # None =>
                  seat[r].requester \notin {seat[r].reviewer, seat[r].approver}
            /\ accepted[r].by # None => accepted[r].by # accepted[r].of

(* What a hand-over leaves in the open reviews is named in its answer, and   *)
(* where the successor can open the review no item and no correction is left *)
(* behind -- unless somebody else changed that very thing, or reopened the   *)
(* rejected review, after the list was read, or the statements about things  *)
(* of this kind failed (handoverUserWork, moveAssignments, reachableReviews). *)
HandoverAccounts ==
    handover.phase = "answered" =>
        \A r \in {o \in Reviews : Open(o) /\ <<o, "stage">> \notin since} :
            /\ "seats" \notin handover.lost =>
                  \A s \in Seats : seat[r][s] = handover.from
                                     => <<r, s>> \in handover.named \cup since
            /\ canAccessReviewAs(handover.to, r) /\ ~(\E o \in since : o[1] = r) =>
                  /\ "items" \notin handover.lost => item[r] # handover.from
                  /\ "corrections" \notin handover.lost => correction[r] # handover.from
=============================================================================
