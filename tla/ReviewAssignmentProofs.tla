------------------------ MODULE ReviewAssignmentProofs ------------------------
(***************************************************************************)
(* Proofs about ReviewAssignment, for any people, any number of reviews,   *)
(* requests in flight and hand-overs, and any bounds.                      *)
(***************************************************************************)
EXTENDS ReviewAssignment, TLAPS

Somebody == People \cup {None}
Row      == [Seats -> Somebody]
Ops      == {"update", "transfer", "begin", "decide", "report", "confirm", "reopen", "release",
             "close"}
Calls    == [op : Ops, by : Somebody, r : Reviews, to : Somebody, also : Somebody, saw : Row,
             blind : BOOLEAN]
Phases   == {"idle", "listing", "moving", "items", "between", "corrections", "answered"}
Lists    == [Reviews -> Row]
Places   == SUBSET (Reviews \X Seats)
Skills   == SUBSET Roles
Ways     == SUBSET Reviews
Losses   == SUBSET {"seats", "items", "corrections"}
Walk     == [phase : Phases, from : Somebody, to : Somebody, can : Skills, rows : Lists,
             todo : Places, named : Places, reach : Ways, lost : Losses]

(* The columns, the requests in flight and the hand-over.                    *)
Columns ==
    /\ stage \in [Reviews -> Stages]
    /\ guests \in [Reviews -> SUBSET People]
    /\ item \in [Reviews -> Somebody] /\ correction \in [Reviews -> Somebody]
    /\ accepted \in [Reviews -> [by : Somebody, of : Somebody]]
    /\ holds \in [People -> SUBSET Roles]
Walked ==
    /\ handover \in Walk
    /\ handover.phase # "idle" => /\ handover.from \in People /\ handover.to \in People
                                  /\ handover.from # handover.to
(* Closing an account is about no review in particular.                      *)
Asking == \A call \in calls : call.op = "close" \/ call \in Calls
Typed  == Columns /\ seat \in [Reviews -> Row] /\ Asking /\ Walked

(* Nobody sits opposite themselves.                                          *)
Apart(row) == row["requester"] # None =>
                 row["requester"] \notin {row["reviewer"], row["approver"]}
SeatsApart == \A r \in Reviews \ unasked : Apart(seat[r])

(* What the checks of a request found holds of the row it saw.               *)
Checked ==
    \A call \in calls :
       /\ call.op = "update"   => call.saw["requester"] \notin {call.to, call.also}
       /\ call.op = "transfer" => call.to \notin {call.saw["reviewer"], call.saw["approver"]}
       /\ call.op \in {"begin", "decide", "confirm"} /\ ~call.blind
             => call.by # call.saw["requester"]

OwnAccepted == \A r \in Reviews \ unasked :
                  accepted[r].by # None => accepted[r].by # accepted[r].of

(* Where nobody asked in vain who sits opposite, the list shows people apart, *)
(* and a seat nobody else gave away since is as the list or the hand-over    *)
(* itself left it.                                                           *)
Followed(r, s) ==
    \/ seat[r][s] = handover.rows[r][s]
    \/ handover.rows[r][s] = handover.from /\ seat[r][s] = handover.to
Listing ==
    handover.phase = "moving" =>
       /\ \A t \in handover.todo : handover.rows[t[1]][t[2]] = handover.from
       /\ \A r \in Reviews \ unasked :
             /\ Apart(handover.rows[r])
             /\ \A s \in Seats : <<r, s>> \notin since => Followed(r, s)

(* A review that is not there yet has nobody in its seats and cannot be given *)
(* away.                                                                     *)
Vacant ==
    /\ \A r \in Reviews : stage[r] = "none" => \A s \in Seats : seat[r][s] = None
    /\ \A call \in calls : call.op = "transfer" => stage[call.r] # "none"

(* What the hand-over has not come to yet is on its list, in its answer, was *)
(* changed by somebody else since, or fell to a statement that failed.       *)
Touched(r) == \E o \in since : o[1] = r
MovedOn(p) == p \in {"items", "between", "corrections", "answered"}
SeatsLeft ==
    /\ handover.phase = "moving" \/ MovedOn(handover.phase)
    /\ "seats" \notin handover.lost
    => \A r \in Reviews, s \in Seats :
          Open(r) /\ <<r, "stage">> \notin since /\ seat[r][s] = handover.from =>
             <<r, s>> \in handover.todo \cup handover.named \cup since
ItemLeft(r) ==
    "items" \notin handover.lost =>
       /\ handover.phase = "items" /\ item[r] = handover.from => r \in handover.reach
       /\ handover.phase \in {"between", "corrections", "answered"} => item[r] # handover.from
CorrectionLeft(r) ==
    "corrections" \notin handover.lost =>
       /\ handover.phase = "corrections" /\ correction[r] = handover.from
             => r \in handover.reach
       /\ handover.phase = "answered" => correction[r] # handover.from
NamesLeft(r) == ItemLeft(r) /\ CorrectionLeft(r)
Left ==
    /\ MovedOn(handover.phase) => handover.todo = {}
    /\ SeatsLeft
    /\ \A r \in Reviews : Open(r) /\ canAccessReviewAs(handover.to, r) /\ ~Touched(r)
          => NamesLeft(r)

-----------------------------------------------------------------------------
(* What one statement that names people writes.                              *)
LEMMA Naming ==
    ASSUME seat \in [Reviews -> Row], NEW r \in Reviews, NEW new \in Row, Seated(r, new)
    PROVE  /\ seat' \in [Reviews -> Row] /\ seat'[r] = new
           /\ \A q \in Reviews \ {r} : seat'[q] = seat[q]
           /\ handover.phase # "idle" =>
                 /\ since \subseteq since'
                 /\ \A q \in Reviews, s \in Seats :
                       seat'[q][s] # seat[q][s] => <<q, s>> \in since'
<1>1. /\ seat' \in [Reviews -> Row] /\ seat'[r] = new
      /\ \A q \in Reviews \ {r} : seat'[q] = seat[q]
  BY DEF Seated
<1>2. ASSUME handover.phase # "idle", NEW q \in Reviews, NEW s \in Seats, seat'[q][s] # seat[q][s]
      PROVE  <<q, s>> \in since'
  <2>1. q = r /\ new[s] # seat[r][s]
    BY <1>1, <1>2
  <2> QED
    BY <1>2, <2>1 DEF Seated, Noted
<1>3. handover.phase # "idle" => since \subseteq since'
  BY DEF Seated, Noted
<1> QED
  BY <1>1, <1>2, <1>3

(* Seating somebody in a row.                                                *)
LEMMA Reseating ==
    ASSUME NEW row \in Row, NEW u \in Somebody, NEW v \in Somebody
    PROVE  /\ LET new == [row EXCEPT !.requester = u]
              IN  /\ new \in Row /\ new["requester"] = u
                  /\ new["reviewer"] = row["reviewer"] /\ new["approver"] = row["approver"]
           /\ LET new == [row EXCEPT !.reviewer = u, !.approver = v]
              IN  /\ new \in Row /\ new["requester"] = row["requester"]
                  /\ new["reviewer"] = u /\ new["approver"] = v
           /\ LET new == [row EXCEPT !.reviewer = u]
              IN  /\ new \in Row /\ new["requester"] = row["requester"]
                  /\ new["reviewer"] = u /\ new["approver"] = row["approver"]
           /\ LET new == [row EXCEPT !.approver = u]
              IN  /\ new \in Row /\ new["requester"] = row["requester"]
                  /\ new["reviewer"] = row["reviewer"] /\ new["approver"] = u
BY DEF Row, Seats

(* Before and after it the hand-over is at rest.                             *)
LEMMA RestingWalks == Resting \in Walk /\ Resting.phase = "idle" /\ Resting.todo = {} /\ Resting.named = {}
<1>1. Nobody \in Row
  BY DEF Nobody, Row, Somebody
<1>2. [r \in Reviews |-> Nobody] \in Lists
  BY <1>1 DEF Lists
<1>3. {} \in Places /\ {} \in Skills /\ {} \in Ways /\ {} \in Losses /\ None \in Somebody
  BY DEF Places, Skills, Ways, Losses, Somebody
<1> QED
  BY <1>2, <1>3 DEF Resting, Walk, Phases

(* What a handler takes along from its checks.                               *)
LEMMA Calling ==
    ASSUME Typed, NEW op \in Ops, NEW u \in Somebody, NEW r \in Reviews,
           NEW to \in Somebody, NEW also \in Somebody, NEW blind \in BOOLEAN
    PROVE  LET call == Call(op, u, r, to, also, blind)
           IN  /\ call \in Calls /\ call.op = op /\ call.by = u /\ call.to = to
               /\ call.also = also /\ call.saw = seat[r] /\ call.r = r /\ call.blind = blind
BY DEF Typed, Call, Calls

(* What the steps of the hand-over leave of it.                              *)
LEMMA WalkSteps ==
    ASSUME Typed
    PROVE  /\ \A from, to \in People : StartHandover(from, to) =>
                 Walked' /\ handover'.phase = "listing"
           /\ ListOpen => /\ Walked' /\ handover'.phase = "moving" /\ handover'.rows = seat
                          /\ handover'.from = handover.from /\ handover'.todo = Listed
           /\ ListBreaksOff => /\ Walked' /\ handover'.phase = "moving" /\ handover'.rows = seat
                               /\ handover'.from = handover.from /\ handover'.todo \subseteq Listed
                               /\ "seats" \in handover'.lost
           /\ \A t \in Reviews \X Seats : MoveSeat(t) =>
                 /\ Walked' /\ handover'.phase = "moving" /\ handover'.rows = handover.rows
                 /\ handover'.lost = handover.lost
                 /\ handover'.from = handover.from /\ handover'.to = handover.to
                 /\ handover'.todo = handover.todo \ {t}
                 /\ handover.named \subseteq handover'.named
                 /\ seat[t[1]][t[2]] = handover.from /\ ~May(t) => t \in handover'.named
           /\ \A t \in Reviews \X Seats : SeatFails(t) =>
                 /\ Walked' /\ handover'.phase = "moving" /\ handover'.rows = handover.rows
                 /\ handover'.from = handover.from /\ handover'.to = handover.to
                 /\ handover'.todo = handover.todo \ {t}
                 /\ handover'.named = handover.named \cup {t}
                 /\ handover'.lost = handover.lost
           /\ Reach => /\ Walked' /\ handover.todo = {} /\ handover'.todo = {}
                       /\ handover'.from = handover.from /\ handover'.to = handover.to
                       /\ handover'.named = handover.named /\ handover'.reach = reachableReviews
                       /\ handover'.lost = handover.lost
                       /\ \/ handover.phase = "moving" /\ handover'.phase = "items"
                          \/ handover.phase = "between" /\ handover'.phase = "corrections"
           /\ ReachFails => /\ Walked' /\ handover.todo = {} /\ handover'.todo = {}
                            /\ handover'.from = handover.from /\ handover'.to = handover.to
                            /\ handover'.named = handover.named
                            /\ handover'.lost = handover.lost \cup {handover'.phase}
                            /\ \/ handover.phase = "moving" /\ handover'.phase = "items"
                               \/ handover.phase = "between" /\ handover'.phase = "corrections"
           /\ MoveItems \/ MoveCorrections =>
                 /\ Walked' /\ handover'.from = handover.from /\ handover'.to = handover.to
                 /\ handover'.named = handover.named /\ handover'.todo = handover.todo
                 /\ handover'.lost = handover.lost
           /\ MoveFails =>
                 /\ Walked' /\ handover'.from = handover.from /\ handover'.to = handover.to
                 /\ handover'.named = handover.named /\ handover'.todo = handover.todo
                 /\ handover'.lost = handover.lost \cup {handover.phase}
                 /\ \/ handover.phase = "items" /\ handover'.phase = "between"
                    \/ handover.phase = "corrections" /\ handover'.phase = "answered"
           /\ MoveItems => handover.phase = "items" /\ handover'.phase = "between"
           /\ MoveCorrections => handover.phase = "corrections" /\ handover'.phase = "answered"
           /\ Answer => Walked' /\ handover'.phase = "idle"
<1> USE DEF Typed, Walked
<1>1. ASSUME NEW from \in People, NEW to \in People, StartHandover(from, to)
      PROVE  Walked' /\ handover'.phase = "listing"
  <2>1. holds[to] \in Skills /\ from \in Somebody /\ to \in Somebody
    BY DEF Columns, Skills, Somebody
  <2> DEFINE new == [Resting EXCEPT !.phase = "listing", !.from = from, !.to = to,
                                    !.can = holds[to]]
  <2>2. new \in Walk /\ new.phase = "listing" /\ new.from = from /\ new.to = to
    BY <2>1, RestingWalks DEF Walk, Phases
  <2>3. handover' = new /\ from # to
    BY <1>1 DEF StartHandover
  <2> HIDE DEF new
  <2> QED
    BY <2>2, <2>3
<1>2. ASSUME ListOpen
      PROVE  /\ Walked' /\ handover'.phase = "moving" /\ handover'.rows = seat
             /\ handover'.from = handover.from /\ handover'.todo = Listed
  <2>1. seat \in Lists /\ Listed \in Places
    BY DEF Lists, Places, Listed
  <2> DEFINE new == [handover EXCEPT !.phase = "moving", !.rows = seat, !.todo = Listed]
  <2>2. /\ new \in Walk /\ new.phase = "moving" /\ new.from = handover.from
        /\ new.to = handover.to /\ new.rows = seat /\ new.todo = Listed
    BY <2>1 DEF Walk, Phases
  <2>3. handover' = new /\ handover.phase = "listing"
    BY <1>2 DEF ListOpen
  <2> HIDE DEF new
  <2> QED
    BY <2>2, <2>3
<1>3. ASSUME NEW t \in Reviews \X Seats, MoveSeat(t)
      PROVE  /\ Walked' /\ handover'.phase = "moving" /\ handover'.rows = handover.rows
             /\ handover'.from = handover.from /\ handover'.to = handover.to
             /\ handover'.todo = handover.todo \ {t}
             /\ handover.named \subseteq handover'.named /\ handover'.lost = handover.lost
             /\ seat[t[1]][t[2]] = handover.from /\ ~May(t) => t \in handover'.named
  <2> DEFINE ok    == May(t) /\ seat[t[1]][t[2]] = handover.from
             todo  == handover.todo \ {t}
             named == IF ok THEN handover.named ELSE handover.named \cup {t}
             new   == [handover EXCEPT !.todo = todo, !.named = named]
  <2>1. todo \in Places /\ named \in Places
    BY DEF Walk, Places
  <2>2. /\ new \in Walk /\ new.phase = handover.phase /\ new.from = handover.from
        /\ new.to = handover.to /\ new.rows = handover.rows /\ new.named = named
        /\ new.todo = todo /\ new.lost = handover.lost
    <3> HIDE DEF todo, named
    <3> QED
      BY <2>1 DEF Walk, Phases
  <2>3. handover' = new /\ handover.phase = "moving"
    BY <1>3 DEF MoveSeat
  <2> HIDE DEF new
  <2> QED
    BY <2>2, <2>3
<1>4. ASSUME Reach
      PROVE  /\ Walked' /\ handover.todo = {} /\ handover'.todo = {}
             /\ handover'.from = handover.from /\ handover'.to = handover.to
             /\ handover'.named = handover.named /\ handover'.reach = reachableReviews
             /\ handover'.lost = handover.lost
             /\ \/ handover.phase = "moving" /\ handover'.phase = "items"
                \/ handover.phase = "between" /\ handover'.phase = "corrections"
  <2> DEFINE next == IF handover.phase = "moving" THEN "items" ELSE "corrections"
             new  == [handover EXCEPT !.reach = reachableReviews, !.phase = next]
  <2>1. reachableReviews \in Ways /\ next \in Phases
    BY DEF reachableReviews, Ways, Phases
  <2>2. /\ new \in Walk /\ new.phase = next /\ new.from = handover.from /\ new.to = handover.to
        /\ new.named = handover.named /\ new.todo = handover.todo /\ new.reach = reachableReviews
        /\ new.lost = handover.lost
    <3> HIDE DEF next
    <3> QED
      BY <2>1 DEF Walk, Phases
  <2>3. handover' = new /\ handover.phase \in {"moving", "between"} /\ handover.todo = {}
    BY <1>4 DEF Reach, Upon
  <2> HIDE DEF new
  <2> QED
    BY <2>2, <2>3
<1>5. ASSUME MoveItems \/ MoveCorrections
      PROVE  /\ Walked' /\ handover'.from = handover.from /\ handover'.to = handover.to
             /\ handover'.named = handover.named /\ handover'.todo = handover.todo
             /\ handover'.lost = handover.lost
             /\ MoveItems => handover.phase = "items" /\ handover'.phase = "between"
             /\ MoveCorrections => handover.phase = "corrections" /\ handover'.phase = "answered"
  <2>1. PICK p \in {"between", "answered"} :
           /\ handover' = [handover EXCEPT !.phase = p] /\ handover.phase # "idle"
           /\ MoveItems => handover.phase = "items" /\ p = "between"
           /\ MoveCorrections => handover.phase = "corrections" /\ p = "answered"
    BY <1>5 DEF MoveItems, MoveCorrections
  <2>2. p \in Phases
    BY DEF Phases
  <2> QED
    BY <2>1, <2>2 DEF Walk
<1>6. Answer => Walked' /\ handover'.phase = "idle"
  BY RestingWalks DEF Answer
<1>7. ASSUME ListBreaksOff
      PROVE  /\ Walked' /\ handover'.phase = "moving" /\ handover'.rows = seat
             /\ handover'.from = handover.from /\ handover'.todo \subseteq Listed
             /\ "seats" \in handover'.lost
  <2>1. PICK r \in Reviews :
           handover' = [handover EXCEPT !.phase = "moving", !.rows = seat, !.lost = {"seats"},
                                        !.todo = {t \in Listed : t[1] < r}]
    BY <1>7 DEF ListBreaksOff
  <2> DEFINE some == {t \in Listed : t[1] < r}
             new  == [handover EXCEPT !.phase = "moving", !.rows = seat, !.lost = {"seats"},
                                      !.todo = some]
  <2>2. seat \in Lists /\ some \in Places /\ {"seats"} \in Losses /\ some \subseteq Listed
    BY DEF Lists, Places, Losses, Listed
  <2>3. /\ new \in Walk /\ new.phase = "moving" /\ new.from = handover.from
        /\ new.to = handover.to /\ new.rows = seat /\ new.todo = some /\ new.lost = {"seats"}
    <3> HIDE DEF some
    <3> QED
      BY <2>2 DEF Walk, Phases
  <2>4. handover' = new /\ handover.phase = "listing"
    BY <1>7, <2>1 DEF ListBreaksOff
  <2> HIDE DEF new, some
  <2> QED
    BY <2>2, <2>3, <2>4
<1>8. ASSUME ReachFails
      PROVE  /\ Walked' /\ handover.todo = {} /\ handover'.todo = {}
             /\ handover'.from = handover.from /\ handover'.to = handover.to
             /\ handover'.named = handover.named
             /\ handover'.lost = handover.lost \cup {handover'.phase}
             /\ \/ handover.phase = "moving" /\ handover'.phase = "items"
                \/ handover.phase = "between" /\ handover'.phase = "corrections"
  <2> DEFINE next == IF handover.phase = "moving" THEN "items" ELSE "corrections"
             lost == handover.lost \cup {next}
  <2>1. PICK some \in SUBSET reachableReviews :
           handover' = [handover EXCEPT !.reach = some, !.phase = next, !.lost = lost]
    BY <1>8 DEF ReachFails, Upon
  <2> DEFINE new == [handover EXCEPT !.reach = some, !.phase = next, !.lost = lost]
  <2>2. some \in Ways /\ next \in Phases /\ lost \in Losses
    BY DEF reachableReviews, Ways, Phases, Losses, Walk
  <2>3. /\ new \in Walk /\ new.phase = next /\ new.from = handover.from /\ new.to = handover.to
        /\ new.named = handover.named /\ new.todo = handover.todo /\ new.lost = lost
    <3> HIDE DEF next, lost
    <3> QED
      BY <2>2 DEF Walk, Phases
  <2>4. handover' = new /\ handover.phase \in {"moving", "between"} /\ handover.todo = {}
    BY <1>8, <2>1 DEF ReachFails
  <2> HIDE DEF new
  <2> QED
    BY <2>3, <2>4
<1>9. ASSUME MoveFails
      PROVE  /\ Walked' /\ handover'.from = handover.from /\ handover'.to = handover.to
             /\ handover'.named = handover.named /\ handover'.todo = handover.todo
             /\ handover'.lost = handover.lost \cup {handover.phase}
             /\ \/ handover.phase = "items" /\ handover'.phase = "between"
                \/ handover.phase = "corrections" /\ handover'.phase = "answered"
  <2> DEFINE next == IF handover.phase = "items" THEN "between" ELSE "answered"
             lost == handover.lost \cup {handover.phase}
             new  == [handover EXCEPT !.lost = lost, !.phase = next]
  <2>1. handover' = new /\ handover.phase \in {"items", "corrections"}
    BY <1>9 DEF MoveFails, After
  <2>2. next \in Phases /\ lost \in Losses
    BY <2>1 DEF Phases, Losses, Walk
  <2>3. /\ new \in Walk /\ new.phase = next /\ new.from = handover.from /\ new.to = handover.to
        /\ new.named = handover.named /\ new.todo = handover.todo /\ new.lost = lost
    <3> HIDE DEF next, lost
    <3> QED
      BY <2>2 DEF Walk, Phases
  <2> HIDE DEF new
  <2> QED
    BY <2>1, <2>3
<1>10. ASSUME NEW t \in Reviews \X Seats, SeatFails(t)
       PROVE  /\ Walked' /\ handover'.phase = "moving" /\ handover'.rows = handover.rows
              /\ handover'.from = handover.from /\ handover'.to = handover.to
              /\ handover'.todo = handover.todo \ {t}
              /\ handover'.named = handover.named \cup {t} /\ handover'.lost = handover.lost
  <2> DEFINE todo  == handover.todo \ {t}
             named == handover.named \cup {t}
             new   == [handover EXCEPT !.todo = todo, !.named = named]
  <2>1. todo \in Places /\ named \in Places
    BY DEF Walk, Places
  <2>2. /\ new \in Walk /\ new.phase = handover.phase /\ new.from = handover.from
        /\ new.to = handover.to /\ new.rows = handover.rows /\ new.named = named
        /\ new.todo = todo /\ new.lost = handover.lost
    <3> HIDE DEF todo, named
    <3> QED
      BY <2>1 DEF Walk, Phases
  <2>3. handover' = new /\ handover.phase = "moving"
    BY <1>10 DEF SeatFails
  <2> HIDE DEF new
  <2> QED
    BY <2>2, <2>3
<1> QED
  BY <1>1, <1>2, <1>3, <1>4, <1>5, <1>6, <1>7, <1>8, <1>9, <1>10

(* Who is named by which statement.                                          *)
LEMMA Seatings ==
    ASSUME Typed
    PROVE  /\ \A call \in calls : Update(call) =>
                 /\ call \in Calls
                 /\ \E new \in Row :
                       /\ Seated(call.r, new)
                       /\ new["requester"] = seat[call.r]["requester"]
                       /\ new["reviewer"] \in {call.to, seat[call.r]["reviewer"]}
                       /\ new["approver"] \in {call.also, seat[call.r]["approver"]}
           /\ \A call \in calls : Transfer(call) =>
                 /\ call \in Calls
                 /\ \E new \in Row :
                       /\ Seated(call.r, new)
                       /\ new["requester"] = call.to
                       /\ new["reviewer"] = seat[call.r]["reviewer"]
                       /\ new["approver"] = seat[call.r]["approver"]
           /\ \A call \in calls : Begin(call) =>
                 /\ call \in Calls
                 /\ \E new \in Row :
                       /\ Seated(call.r, new)
                       /\ new["requester"] = seat[call.r]["requester"]
                       /\ new["reviewer"] \in {call.by, seat[call.r]["reviewer"]}
                       /\ new["approver"] = seat[call.r]["approver"]
           /\ \A call \in calls, judged \in BOOLEAN : Decide(call, judged) =>
                 /\ call \in Calls
                 /\ \E new \in Row :
                       /\ Seated(call.r, new)
                       /\ new["requester"] = seat[call.r]["requester"]
                       /\ new["reviewer"] = seat[call.r]["reviewer"]
                       /\ new["approver"] \in {call.by, seat[call.r]["approver"]}
           /\ \A u \in People, o, r \in Reviews : copyReview(u, o, r) =>
                 \E new \in Row : /\ Seated(r, new) /\ new["requester"] = u
                                  /\ new["reviewer"] = seat[o]["reviewer"]
                                  /\ new["approver"] = seat[o]["approver"]
           /\ \A r \in Reviews, to \in People : reassignApprover(r, to) =>
                 \E new \in Row : /\ Seated(r, new) /\ new["approver"] = to
                                  /\ new["requester"] = seat[r]["requester"]
                                  /\ new["reviewer"] = seat[r]["reviewer"]
<1> USE DEF Typed, Asking
<1>1. ASSUME NEW call \in calls, Update(call)
      PROVE  /\ call \in Calls
             /\ \E new \in Row :
                   /\ Seated(call.r, new)
                   /\ new["requester"] = seat[call.r]["requester"]
                   /\ new["reviewer"] \in {call.to, seat[call.r]["reviewer"]}
                   /\ new["approver"] \in {call.also, seat[call.r]["approver"]}
  <2>1. call \in Calls /\ call.op = "update"
    BY <1>1 DEF Update
  <2> DEFINE row == seat[call.r]
             v   == OrKept(call.to, row.reviewer)
             w   == OrKept(call.also, row.approver)
             new == [row EXCEPT !.reviewer = v, !.approver = w]
  <2>2. row \in Row
    BY <2>1 DEF Calls
  <2>3. v \in Somebody /\ w \in Somebody
    BY <2>1, <2>2 DEF OrKept, Calls, Row, Seats
  <2>4. new \in Row /\ new["requester"] = row["requester"] /\ new["reviewer"] = v /\ new["approver"] = w
    <3> HIDE DEF v, w, row
    <3> QED
      BY <2>2, <2>3 DEF Row, Seats
  <2>5. Seated(call.r, new)
    BY <1>1 DEF Update
  <2>6. v \in {call.to, row["reviewer"]} /\ w \in {call.also, row["approver"]}
    BY DEF OrKept
  <2> HIDE DEF new, v, w
  <2> QED
    BY <2>1, <2>4, <2>5, <2>6
<1>2. ASSUME NEW call \in calls, Transfer(call)
      PROVE  /\ call \in Calls
             /\ \E new \in Row :
                   /\ Seated(call.r, new)
                   /\ new["requester"] = call.to
                   /\ new["reviewer"] = seat[call.r]["reviewer"]
                   /\ new["approver"] = seat[call.r]["approver"]
  <2>1. call \in Calls /\ call.op = "transfer"
    BY <1>2 DEF Transfer
  <2>2. seat[call.r] \in Row /\ call.to \in Somebody
    BY <2>1 DEF Calls
  <2> DEFINE new == [seat[call.r] EXCEPT !.requester = call.to]
  <2>3. /\ new \in Row /\ new["requester"] = call.to
        /\ new["reviewer"] = seat[call.r]["reviewer"] /\ new["approver"] = seat[call.r]["approver"]
    BY <2>2, Reseating
  <2>4. Seated(call.r, new)
    BY <1>2 DEF Transfer
  <2> HIDE DEF new
  <2> QED
    BY <2>1, <2>3, <2>4
<1>3. ASSUME NEW call \in calls, Begin(call)
      PROVE  /\ call \in Calls
             /\ \E new \in Row :
                   /\ Seated(call.r, new)
                   /\ new["requester"] = seat[call.r]["requester"]
                   /\ new["reviewer"] \in {call.by, seat[call.r]["reviewer"]}
                   /\ new["approver"] = seat[call.r]["approver"]
  <2>1. call \in Calls /\ call.op = "begin"
    BY <1>3 DEF Begin
  <2>2. seat[call.r] \in Row /\ call.by \in Somebody
    BY <2>1 DEF Calls
  <2> DEFINE new == [seat[call.r] EXCEPT !.reviewer = call.by]
  <2>3. /\ new \in Row /\ new["requester"] = seat[call.r]["requester"]
        /\ new["reviewer"] = call.by /\ new["approver"] = seat[call.r]["approver"]
    BY <2>2, Reseating
  <2>4. Seated(call.r, new) \/ Seated(call.r, seat[call.r])
    BY <1>3 DEF Begin
  <2> HIDE DEF new
  <2> QED
    BY <2>1, <2>2, <2>3, <2>4
<1>4. ASSUME NEW u \in People, NEW o \in Reviews, NEW r \in Reviews, copyReview(u, o, r)
      PROVE  \E new \in Row : /\ Seated(r, new) /\ new["requester"] = u
                              /\ new["reviewer"] = seat[o]["reviewer"]
                              /\ new["approver"] = seat[o]["approver"]
  <2> DEFINE new == [seat[o] EXCEPT !.requester = u]
  <2>1. /\ new \in Row /\ new["requester"] = u
        /\ new["reviewer"] = seat[o]["reviewer"] /\ new["approver"] = seat[o]["approver"]
    <3>1. seat[o] \in Row /\ u \in Somebody
      BY DEF Somebody
    <3> QED
      BY <3>1, Reseating
  <2>2. Seated(r, new)
    BY <1>4 DEF copyReview
  <2> HIDE DEF new
  <2> QED
    BY <2>1, <2>2
<1>5. ASSUME NEW r \in Reviews, NEW to \in People, reassignApprover(r, to)
      PROVE  \E new \in Row : /\ Seated(r, new) /\ new["approver"] = to
                              /\ new["requester"] = seat[r]["requester"]
                              /\ new["reviewer"] = seat[r]["reviewer"]
  <2> DEFINE new == [seat[r] EXCEPT !.approver = to]
  <2>1. /\ new \in Row /\ new["approver"] = to
        /\ new["requester"] = seat[r]["requester"] /\ new["reviewer"] = seat[r]["reviewer"]
    <3>1. seat[r] \in Row /\ to \in Somebody
      BY DEF Somebody
    <3> QED
      BY <3>1, Reseating
  <2>2. Seated(r, new)
    BY <1>5 DEF reassignApprover
  <2> HIDE DEF new
  <2> QED
    BY <2>1, <2>2
<1>6. ASSUME NEW call \in calls, NEW judged \in BOOLEAN, Decide(call, judged)
      PROVE  /\ call \in Calls
             /\ \E new \in Row :
                   /\ Seated(call.r, new)
                   /\ new["requester"] = seat[call.r]["requester"]
                   /\ new["reviewer"] = seat[call.r]["reviewer"]
                   /\ new["approver"] \in {call.by, seat[call.r]["approver"]}
  <2>1. call \in Calls /\ call.op = "decide"
    BY <1>6 DEF Decide
  <2>2. seat[call.r] \in Row /\ call.by \in Somebody
    BY <2>1 DEF Calls
  <2> DEFINE new == [seat[call.r] EXCEPT !.approver = call.by]
  <2>3. /\ new \in Row /\ new["requester"] = seat[call.r]["requester"]
        /\ new["reviewer"] = seat[call.r]["reviewer"] /\ new["approver"] = call.by
    BY <2>2, Reseating
  <2>4. Seated(call.r, new) \/ Seated(call.r, seat[call.r])
    BY <1>6 DEF Decide
  <2> HIDE DEF new
  <2> QED
    BY <2>1, <2>2, <2>3, <2>4
<1> QED
  BY <1>1, <1>2, <1>3, <1>4, <1>5, <1>6

(* Every statement writes what the columns may hold.                         *)
LEMMA ColumnsKept ==
    ASSUME Typed, [Next]_vars
    PROVE  Columns'
<1> USE AssignmentAssumption DEF Typed, Columns, reviews, people
<1>1. CASE \E from, to \in People : StartHandover(from, to)
  BY <1>1 DEF StartHandover, Resting
<1>2. CASE ListOpen
  BY <1>2 DEF ListOpen
<1>3. CASE \E t \in Reviews \X Seats : MoveSeat(t)
  BY <1>3 DEF MoveSeat
<1>4. CASE Reach
  BY <1>4 DEF Reach
<1>5. CASE MoveItems
  <2>1. item' \in [Reviews -> Somebody]
    BY <1>5 DEF MoveItems, Passed, Walked, Somebody, Walk
  <2> QED
    BY <1>5, <2>1 DEF MoveItems
<1>6. CASE MoveCorrections
  <2>1. correction' \in [Reviews -> Somebody]
    BY <1>6 DEF MoveCorrections, Passed, Walked, Somebody, Walk
  <2> QED
    BY <1>6, <2>1 DEF MoveCorrections
<1>7. CASE Answer
  BY <1>7 DEF Answer, Resting
<1>8. CASE \E call \in calls : Update(call)
  BY <1>8 DEF Update
<1>9. CASE \E call \in calls : Transfer(call)
  BY <1>9 DEF Transfer
<1>10. CASE \E call \in calls : Begin(call)
  <2>1. stage' \in [Reviews -> Stages]
    BY <1>10 DEF Begin, Stages
  <2> QED
    BY <1>10, <2>1 DEF Begin
<1>11. CASE \E call \in calls : Stale(call)
  BY <1>11 DEF Stale
<1>12. CASE \E call \in calls : releaseItemsOf(call)
  <2>1. item' \in [Reviews -> Somebody]
    BY <1>12 DEF releaseItemsOf, Somebody
  <2> QED
    BY <1>12, <2>1 DEF releaseItemsOf
<1>13. CASE \E call \in calls : releaseOpenItems(call)
  <2>1. item' \in [Reviews -> Somebody]
    BY <1>13 DEF releaseOpenItems, Somebody
  <2> QED
    BY <1>13, <2>1 DEF releaseOpenItems
<1>14. CASE \E call \in calls : Report(call)
  BY <1>14 DEF Report
<1>15. CASE \E call \in calls : Confirm(call)
  <2> PICK call \in calls : Confirm(call)
    BY <1>15
  <2>1. call \in Calls
    BY DEF Confirm, Asking
  <2>2. call.r \in Reviews /\ call.by \in Somebody
    BY <2>1 DEF Calls, Somebody
  <2>3. seat[call.r].requester \in Somebody
    BY <2>2 DEF Row, Seats
  <2>4. accepted' \in [Reviews -> [by : Somebody, of : Somebody]]
    BY <2>2, <2>3 DEF Confirm
  <2> QED
    BY <2>4 DEF Confirm
<1>16. CASE \E call \in calls : Reopen(call)
  <2>1. [by |-> None, of |-> None] \in [by : Somebody, of : Somebody]
    BY DEF Somebody
  <2>2. accepted' \in [Reviews -> [by : Somebody, of : Somebody]]
    BY <1>16, <2>1 DEF Reopen
  <2> QED
    BY <1>16, <2>2 DEF Reopen
<1>17. CASE \E u \in Mutable : setUserActive(u)
  BY <1>17 DEF setUserActive, Call, Changing
<1>18. CASE \E u \in Mutable, role \in Roles : updateUserRoles(u, role)
  BY <1>18 DEF updateUserRoles, Changing
<1>19. CASE \E r \in Reviews, u \in People, v, w \in People \cup {None} : UpdateCheck(u, r, v, w)
  BY <1>19 DEF UpdateCheck, Ask, Call
<1>20. CASE \E r, o \in Reviews, u \in People : copyReview(u, o, r)
  <2>1. stage' \in [Reviews -> Stages]
    BY <1>20 DEF copyReview, Stages
  <2> QED
    BY <1>20, <2>1 DEF copyReview
<1>21. CASE \E r \in Reviews, u \in People, blind \in BOOLEAN : BeginCheck(u, r, blind)
  BY <1>21 DEF BeginCheck, Ask, Call
<1>22. CASE \E r \in Reviews, u \in People, op \in {"report", "confirm", "reopen"}, blind \in BOOLEAN :
               FollowUpCheck(u, r, op, blind)
  BY <1>22 DEF FollowUpCheck, Ask, Call
<1>23. CASE \E r \in Reviews, u, to \in People : bulkAssign(u, r, to)
  <2>1. item' \in [Reviews -> Somebody]
    BY <1>23 DEF bulkAssign, Somebody
  <2> QED
    BY <1>23, <2>1 DEF bulkAssign
<1>24. CASE \E r \in Reviews, u, to \in People : createChangeRequest(u, r, to)
  <2>1. stage' \in [Reviews -> Stages]
    BY <1>24 DEF createChangeRequest, Stages, Somebody
  <2>2. correction' \in [Reviews -> Somebody]
    BY <1>24 DEF createChangeRequest, Stages, Somebody
  <2> QED
    BY <1>24, <2>1, <2>2 DEF createChangeRequest
<1>25. CASE \E r \in Reviews, u, to \in People : addParticipant(u, r, to)
  BY <1>25 DEF addParticipant
<1>26. CASE \E r \in Reviews, u, to \in People : removeParticipant(u, r, to)
  <2>1. guests' \in [Reviews -> SUBSET People]
    BY <1>26 DEF removeParticipant
  <2> QED
    BY <1>26, <2>1 DEF removeParticipant
<1>27. CASE \E r \in Reviews, to \in People : TransferCheck(r, to)
  BY <1>27 DEF TransferCheck, Ask, Call
<1>28. CASE \E r \in Reviews, to \in People : reassignApprover(r, to)
  BY <1>28 DEF reassignApprover
<1>29. CASE \E r \in Reviews, to \in Stages : Advance(r, to)
  BY <1>29 DEF Advance, Roads, Changing
<1>30. CASE \E r \in Reviews : Verify(r)
  <2>1. correction' \in [Reviews -> Somebody]
    BY <1>30 DEF Verify, Somebody
  <2> QED
    BY <1>30, <2>1 DEF Verify
<1>31. CASE UNCHANGED vars
  BY <1>31 DEF vars
<1>32. CASE \E call \in calls, judged \in BOOLEAN : Decide(call, judged)
  <2>1. stage' \in [Reviews -> Stages]
    BY <1>32 DEF Decide, Stages
  <2> QED
    BY <1>32, <2>1 DEF Decide
<1>33. CASE \E r \in Reviews, u \in People, blind \in BOOLEAN : DecideCheck(u, r, blind)
  BY <1>33 DEF DecideCheck, Ask, Call
<1>34. CASE ListBreaksOff
  BY <1>34 DEF ListBreaksOff
<1>35. CASE ReachFails
  BY <1>35 DEF ReachFails
<1>36. CASE MoveFails
  BY <1>36 DEF MoveFails
<1>37. CASE \E t \in Reviews \X Seats : SeatFails(t)
  BY <1>37 DEF SeatFails
<1> QED
  BY <1>1, <1>2, <1>3, <1>4, <1>5, <1>6, <1>7, <1>8, <1>9, <1>10, <1>11, <1>12, <1>13,
     <1>14, <1>15, <1>16, <1>17, <1>18, <1>19, <1>20, <1>21, <1>22, <1>23, <1>24, <1>25,
     <1>26, <1>27, <1>28, <1>29, <1>30, <1>31, <1>32,
     <1>33, <1>34, <1>35, <1>36, <1>37
     DEF Next, handoverUserWork, Written, OneByOne

(* What a request took along from its checks stays with it until it writes.  *)
LEMMA AskingKept ==
    ASSUME Typed, ~AllowSelfReview => Checked, [Next]_vars
    PROVE  Asking' /\ (~AllowSelfReview => Checked')
<1> USE DEF Typed, Asking, Checked, vars
<1>1. CASE \E from, to \in People : StartHandover(from, to)
  BY <1>1 DEF StartHandover, Resting
<1>2. CASE ListOpen
  BY <1>2 DEF ListOpen
<1>3. CASE \E t \in Reviews \X Seats : MoveSeat(t)
  BY <1>3 DEF MoveSeat
<1>4. CASE Reach
  BY <1>4 DEF Reach
<1>5. CASE MoveItems
  BY <1>5 DEF MoveItems
<1>6. CASE MoveCorrections
  BY <1>6 DEF MoveCorrections
<1>7. CASE Answer
  BY <1>7 DEF Answer, Resting
<1>8. CASE \E call \in calls : Update(call)
  BY <1>8 DEF Update, Done
<1>9. CASE \E call \in calls : Transfer(call)
  BY <1>9 DEF Transfer, Done
<1>10. CASE \E call \in calls : Begin(call)
  BY <1>10 DEF Begin, Done
<1>11. CASE \E call \in calls : Stale(call)
  BY <1>11 DEF Stale, Done
<1>12. CASE \E call \in calls : releaseItemsOf(call)
  BY <1>12 DEF releaseItemsOf, Done
<1>13. CASE \E call \in calls : releaseOpenItems(call)
  BY <1>13 DEF releaseOpenItems, Done
<1>14. CASE \E call \in calls : Report(call)
  BY <1>14 DEF Report, Done
<1>15. CASE \E call \in calls : Confirm(call)
  BY <1>15 DEF Confirm, Done
<1>16. CASE \E call \in calls : Reopen(call)
  BY <1>16 DEF Reopen, Done
<1>17. CASE \E u \in Mutable : setUserActive(u)
  <2> PICK u \in Mutable : setUserActive(u)
    BY <1>17
  <2> DEFINE call == Call("close", u, First, u, None, FALSE)
  <2>1. calls' = calls \/ calls' = calls \cup {call}
    BY DEF setUserActive
  <2>2. call.op = "close"
    BY DEF Call
  <2> HIDE DEF call
  <2> QED
    BY <2>1, <2>2
<1>18. CASE \E u \in Mutable, role \in Roles : updateUserRoles(u, role)
  BY <1>18 DEF updateUserRoles, Changing
<1>19. CASE \E r \in Reviews, u \in People, v, w \in People \cup {None} : UpdateCheck(u, r, v, w)
  <2> PICK r \in Reviews, u \in People, v, w \in People \cup {None} : UpdateCheck(u, r, v, w)
    BY <1>19
  <2> DEFINE call == Call("update", u, r, v, w, FALSE)
  <2>1. /\ call \in Calls /\ call.op = "update" /\ call.by = u /\ call.to = v
        /\ call.also = w /\ call.saw = seat[r]
    <3>1. {u, v, w} \subseteq Somebody /\ "update" \in Ops
      BY DEF Ops, Somebody
    <3> QED
      BY <3>1 DEF Call, Calls, Typed
  <2>2. calls' = calls \cup {call}
    BY DEF UpdateCheck, Ask
  <2>3. ~AllowSelfReview => seat[r]["requester"] \notin {v, w}
    BY DEF UpdateCheck, namedAssigneesFit
  <2> HIDE DEF call
  <2> QED
    BY <2>1, <2>2, <2>3
<1>20. CASE \E r, o \in Reviews, u \in People : copyReview(u, o, r)
  BY <1>20 DEF copyReview
<1>21. CASE \E r \in Reviews, u \in People, blind \in BOOLEAN : BeginCheck(u, r, blind)
  <2> PICK r \in Reviews, u \in People, blind \in BOOLEAN : BeginCheck(u, r, blind)
    BY <1>21
  <2> DEFINE call == Call("begin", u, r, None, None, blind)
  <2>1. /\ call \in Calls /\ call.op = "begin" /\ call.by = u /\ call.to = None
        /\ call.also = None /\ call.saw = seat[r] /\ call.blind = blind
    <3>1. {u, None, None} \subseteq Somebody /\ "begin" \in Ops
      BY DEF Ops, Somebody
    <3> QED
      BY <3>1, Calling
  <2>2. calls' = calls \cup {call}
    BY DEF BeginCheck, Ask
  <2>3. ~AllowSelfReview /\ ~blind => u # seat[r]["requester"]
    BY DEF BeginCheck, Passes, selfReviewBlocked
  <2> HIDE DEF call
  <2> QED
    BY <2>1, <2>2, <2>3
<1>22. CASE \E r \in Reviews, u \in People, op \in {"report", "confirm", "reopen"}, blind \in BOOLEAN :
               FollowUpCheck(u, r, op, blind)
  <2> PICK r \in Reviews, u \in People, op \in {"report", "confirm", "reopen"}, blind \in BOOLEAN :
         FollowUpCheck(u, r, op, blind)
    BY <1>22
  <2> DEFINE call == Call(op, u, r, None, None, blind)
  <2>1. /\ call \in Calls /\ call.op = op /\ call.by = u /\ call.to = None
        /\ call.also = None /\ call.saw = seat[r] /\ call.blind = blind
    <3>1. {u, None, None} \subseteq Somebody /\ op \in Ops
      BY DEF Ops, Somebody
    <3> QED
      BY <3>1, Calling
  <2>2. calls' = calls \cup {call}
    BY DEF FollowUpCheck, Ask
  <2>3. ~AllowSelfReview /\ ~blind /\ op = "confirm" => u # seat[r]["requester"]
    BY DEF FollowUpCheck, canCloseFollowUp, Passes, selfReviewBlocked
  <2> HIDE DEF call
  <2> QED
    BY <2>1, <2>2, <2>3
<1>23. CASE \E r \in Reviews, u, to \in People : bulkAssign(u, r, to)
  BY <1>23 DEF bulkAssign
<1>24. CASE \E r \in Reviews, u, to \in People : createChangeRequest(u, r, to)
  BY <1>24 DEF createChangeRequest
<1>25. CASE \E r \in Reviews, u, to \in People : addParticipant(u, r, to)
  BY <1>25 DEF addParticipant
<1>26. CASE \E r \in Reviews, u, to \in People : removeParticipant(u, r, to)
  <2> PICK r \in Reviews, u, to \in People : removeParticipant(u, r, to)
    BY <1>26
  <2> DEFINE call == Call("release", u, r, to, None, FALSE)
  <2>1. call \in Calls /\ call.op = "release"
    <3>1. {u, to, None} \subseteq Somebody /\ "release" \in Ops
      BY DEF Ops, Somebody
    <3> QED
      BY <3>1 DEF Call, Calls, Typed
  <2>2. calls' = calls \cup {call}
    BY DEF removeParticipant
  <2> HIDE DEF call
  <2> QED
    BY <2>1, <2>2
<1>27. CASE \E r \in Reviews, to \in People : TransferCheck(r, to)
  <2> PICK r \in Reviews, to \in People : TransferCheck(r, to)
    BY <1>27
  <2> DEFINE u    == seat[r].requester
             call == Call("transfer", u, r, to, None, FALSE)
  <2>1. u \in Somebody /\ seat[r] \in Row /\ to \in Somebody /\ None \in Somebody
    BY DEF Typed, Row, Seats, Somebody
  <2>2. /\ call \in Calls /\ call.op = "transfer" /\ call.to = to /\ call.saw = seat[r]
    BY <2>1 DEF Ops, Call, Calls, Typed
  <2>3. calls' = calls \cup {call}
    BY DEF TransferCheck, Ask
  <2>4. ~AllowSelfReview => to \notin {seat[r]["reviewer"], seat[r]["approver"]}
    BY DEF TransferCheck
  <2> HIDE DEF call
  <2> QED
    BY <2>2, <2>3, <2>4
<1>28. CASE \E r \in Reviews, to \in People : reassignApprover(r, to)
  BY <1>28 DEF reassignApprover
<1>29. CASE \E r \in Reviews, to \in Stages : Advance(r, to)
  BY <1>29 DEF Advance, Roads, Changing
<1>30. CASE \E r \in Reviews : Verify(r)
  BY <1>30 DEF Verify, Changing
<1>31. CASE UNCHANGED vars
  BY <1>31 DEF vars
<1>32. CASE \E call \in calls, judged \in BOOLEAN : Decide(call, judged)
  BY <1>32 DEF Decide, Done
<1>33. CASE \E r \in Reviews, u \in People, blind \in BOOLEAN : DecideCheck(u, r, blind)
  <2> PICK r \in Reviews, u \in People, blind \in BOOLEAN : DecideCheck(u, r, blind)
    BY <1>33
  <2> DEFINE to   == IF Able(u, "APPROVER") THEN u ELSE None
             call == Call("decide", u, r, to, None, blind)
  <2>1. /\ call \in Calls /\ call.op = "decide" /\ call.by = u /\ call.saw = seat[r]
        /\ call.blind = blind
    <3>1. {u, to, None} \subseteq Somebody /\ "decide" \in Ops
      BY DEF Ops, Somebody
    <3> HIDE DEF to
    <3> QED
      BY <3>1, Calling
  <2>2. calls' = calls \cup {call}
    BY DEF DecideCheck, Ask
  <2>3. ~AllowSelfReview /\ ~blind => u # seat[r]["requester"]
    BY DEF DecideCheck, Passes, selfReviewBlocked
  <2> HIDE DEF call
  <2> QED
    BY <2>1, <2>2, <2>3
<1>34. CASE ListBreaksOff
  BY <1>34 DEF ListBreaksOff
<1>35. CASE ReachFails
  BY <1>35 DEF ReachFails
<1>36. CASE MoveFails
  BY <1>36 DEF MoveFails
<1>37. CASE \E t \in Reviews \X Seats : SeatFails(t)
  BY <1>37 DEF SeatFails
<1> QED
  BY <1>1, <1>2, <1>3, <1>4, <1>5, <1>6, <1>7, <1>8, <1>9, <1>10, <1>11, <1>12, <1>13,
     <1>14, <1>15, <1>16, <1>17, <1>18, <1>19, <1>20, <1>21, <1>22, <1>23, <1>24, <1>25,
     <1>26, <1>27, <1>28, <1>29, <1>30, <1>31, <1>32,
     <1>33, <1>34, <1>35, <1>36, <1>37
     DEF Next, handoverUserWork, Written, OneByOne

(* Seating somebody who does not come to sit opposite themselves.            *)
LEMMA Reseats ==
    ASSUME Typed, NEW r \in Reviews, NEW new \in Row, Seated(r, new), handover' = handover,
           unasked \subseteq unasked', ~AllowSelfReview => SeatsApart /\ Listing,
           ~AllowSelfReview /\ r \notin unasked' => Apart(new)
    PROVE  seat' \in [Reviews -> Row] /\ (~AllowSelfReview => SeatsApart' /\ Listing')
<1>1. /\ seat' \in [Reviews -> Row] /\ seat'[r] = new
      /\ \A q \in Reviews \ {r} : seat'[q] = seat[q]
      /\ handover.phase # "idle" =>
            /\ since \subseteq since'
            /\ \A q \in Reviews, s \in Seats : seat'[q][s] # seat[q][s] => <<q, s>> \in since'
  BY Naming DEF Typed
<1>2. ~AllowSelfReview => SeatsApart'
  BY <1>1 DEF SeatsApart, Apart
<1>3. ASSUME ~AllowSelfReview, handover.phase = "moving", NEW q \in Reviews \ unasked'
      PROVE  /\ Apart(handover.rows[q])
             /\ \A s \in Seats : <<q, s>> \notin since' => Followed(q, s)'
  <2>1. \A s \in Seats : <<q, s>> \notin since' => <<q, s>> \notin since /\ seat'[q][s] = seat[q][s]
    BY <1>1, <1>3
  <2>2. Apart(handover.rows[q]) /\ \A s \in Seats : <<q, s>> \notin since => Followed(q, s)
    BY <1>3 DEF Listing
  <2> QED
    BY <2>1, <2>2 DEF Followed
<1> QED
  BY <1>1, <1>2, <1>3 DEF Listing, Apart

(* What seats nobody.                                                        *)
LEMMA Aside ==
    ASSUME Typed, seat' = seat, handover' = handover, unasked \subseteq unasked',
           handover.phase # "idle" => since \subseteq since',
           ~AllowSelfReview => SeatsApart /\ Listing
    PROVE  seat' \in [Reviews -> Row] /\ (~AllowSelfReview => SeatsApart' /\ Listing')
<1>1. ASSUME ~AllowSelfReview, handover.phase = "moving", NEW q \in Reviews \ unasked'
      PROVE  /\ Apart(handover.rows[q])
             /\ \A s \in Seats : <<q, s>> \notin since' => Followed(q, s)'
  <2>1. Apart(handover.rows[q]) /\ \A s \in Seats : <<q, s>> \notin since' => Followed(q, s)
    BY <1>1 DEF Listing
  <2> QED
    BY <2>1 DEF Followed
<1> QED
  BY <1>1 DEF Typed, Listing, SeatsApart, Apart

(* A move of the hand-over seats the successor opposite nobody, because what *)
(* the list says of that review is still so.                                 *)
LEMMA Moving ==
    ASSUME Typed, NEW t \in Reviews \X Seats, MoveSeat(t),
           ~AllowSelfReview => SeatsApart /\ Listing
    PROVE  seat' \in [Reviews -> Row] /\ (~AllowSelfReview => SeatsApart' /\ Listing')
<1> DEFINE r == t[1]
           k == t[2]
           ok == May(t) /\ seat[r][k] = handover.from
<1>1. r \in Reviews /\ k \in Seats /\ t = <<r, k>>
  OBVIOUS
<1>2. /\ handover.phase = "moving" /\ handover'.phase = "moving"
      /\ handover'.rows = handover.rows /\ t \in handover.todo
      /\ handover'.todo = handover.todo \ {t}
      /\ handover'.from = handover.from /\ handover'.to = handover.to
  BY WalkSteps DEF MoveSeat
<1>3. /\ handover.from \in People /\ handover.to \in People /\ handover.from # handover.to
      /\ seat \in [Reviews -> Row]
  BY <1>2 DEF Typed, Walked
<1>4. /\ seat' = IF ok THEN [seat EXCEPT ![r][k] = handover.to] ELSE seat
      /\ unasked \subseteq unasked' /\ since' = since
      /\ ok /\ r \notin unasked' => \A s \in Facing(k) : <<r, s>> \notin since
  BY <1>1 DEF MoveSeat
<1>5. seat' \in [Reviews -> Row]
  <2>1. \A row \in Row : [row EXCEPT ![k] = handover.to] \in Row
    BY <1>1, <1>3 DEF Row, Somebody
  <2> QED
    BY <1>1, <1>3, <1>4, <2>1
<1>6. CASE ~ok
  <2>1. seat' = seat
    BY <1>4, <1>6
  <2>2. ~AllowSelfReview => Listing'
    BY <1>2, <1>4, <2>1 DEF Listing, Apart, Followed
  <2> QED
    BY <1>4, <1>5, <2>1, <2>2 DEF SeatsApart, Apart
<1>7. CASE ok /\ ~AllowSelfReview
  <2> DEFINE row == handover.rows[r]
  <2>1. /\ \A q \in Reviews \ {r} : seat'[q] = seat[q]
        /\ \A s \in Seats \ {k} : seat'[r][s] = seat[r][s]
        /\ seat'[r][k] = handover.to /\ seat[r][k] = handover.from
    BY <1>1, <1>3, <1>4, <1>7 DEF Row
  <2>2. row[k] = handover.from /\ handover.to \notin Opposite(<<r, k>>)
    BY <1>1, <1>2, <1>7 DEF May, Listing
  <2>3. ASSUME NEW q \in Reviews \ unasked'
        PROVE  /\ Apart(handover.rows[q])
               /\ \A s \in Seats : <<q, s>> \notin since => Followed(q, s)'
    <3>1. Apart(handover.rows[q]) /\ \A s \in Seats : <<q, s>> \notin since => Followed(q, s)
      BY <1>2, <1>4, <1>7 DEF Listing
    <3>2. ASSUME q = r, NEW s \in Seats, s = k PROVE Followed(q, s)'
      BY <1>2, <2>1, <2>2, <3>2 DEF Followed
    <3>3. ASSUME NEW s \in Seats, q # r \/ s # k, <<q, s>> \notin since PROVE Followed(q, s)'
      <4>1. seat'[q][s] = seat[q][s]
        BY <2>1, <3>3
      <4> QED
        BY <1>2, <3>1, <3>3, <4>1 DEF Followed
    <3> QED
      BY <3>1, <3>2, <3>3
  <2>4. ASSUME r \notin unasked' PROVE Apart(seat'[r])
    <3>1. Apart(row) /\ Apart(seat[r])
      BY <1>1, <1>4, <1>7, <2>3, <2>4 DEF SeatsApart
    <3>2. \A s \in Facing(k) : \/ seat[r][s] = row[s]
                               \/ row[s] = handover.from /\ seat[r][s] = handover.to
      <4>1. Facing(k) \subseteq Seats
        BY DEF Facing, Seats
      <4> QED
        BY <1>1, <1>2, <1>4, <1>7, <2>4, <4>1 DEF Listing, Followed
    <3>3. {"requester", "reviewer", "approver"} = Seats
      BY DEF Seats
    <3>4. handover.from # None
      BY <1>3, AssignmentAssumption
    <3>5. CASE k = "requester"
      <4>1. handover.to \notin {row["reviewer"], row["approver"]}
        BY <2>2, <3>5 DEF Opposite
      <4>2. handover.from \notin {row["reviewer"], row["approver"]}
        BY <2>2, <3>1, <3>4, <3>5 DEF Apart
      <4>3. handover.to \notin {seat[r]["reviewer"], seat[r]["approver"]}
        BY <3>2, <3>5, <4>1, <4>2 DEF Facing
      <4> QED
        BY <2>1, <3>3, <3>5, <4>3 DEF Apart
    <3>6. CASE k # "requester"
      <4>1. handover.to # row["requester"]
        BY <1>1, <2>2, <3>6 DEF Opposite
      <4>2. handover.from # row["requester"]
        BY <1>1, <2>2, <3>1, <3>3, <3>4, <3>6 DEF Apart
      <4>3. handover.to # seat[r]["requester"]
        BY <3>2, <3>6, <4>1, <4>2 DEF Facing
      <4> QED
        BY <1>1, <2>1, <3>1, <3>3, <3>6, <4>3 DEF Apart
    <3> QED
      BY <3>5, <3>6
  <2>5. SeatsApart'
    BY <1>4, <1>7, <2>1, <2>4 DEF SeatsApart
  <2>6. Listing'
    BY <1>2, <1>4, <1>7, <2>3 DEF Listing, Apart
  <2> QED
    BY <1>5, <2>5, <2>6
<1> QED
  BY <1>5, <1>6, <1>7

(* Nobody comes to sit opposite themselves but where it is noted.            *)
LEMMA SeatsKept ==
    ASSUME Typed, ~AllowSelfReview => SeatsApart /\ Checked /\ Listing, [Next]_vars
    PROVE  seat' \in [Reviews -> Row] /\ (~AllowSelfReview => SeatsApart' /\ Listing')
<1>1. CASE \E from, to \in People : StartHandover(from, to)
  <2>1. handover'.phase = "listing" /\ seat' = seat /\ unasked' = unasked
    BY <1>1, WalkSteps DEF StartHandover, reviews
  <2> QED
    BY <2>1 DEF Listing, SeatsApart, Apart, Typed
<1>2. CASE ListOpen
  <2>1. /\ handover'.rows = seat /\ seat' = seat /\ unasked' = unasked
        /\ handover'.todo = Listed /\ handover'.from = handover.from
    BY <1>2, WalkSteps DEF ListOpen, reviews
  <2>2. ~AllowSelfReview => SeatsApart'
    BY <2>1 DEF SeatsApart, Apart
  <2>3. ~AllowSelfReview => Listing'
    BY <2>1 DEF Listing, SeatsApart, Apart, Followed, Listed, Held
  <2> QED
    BY <2>1, <2>2, <2>3 DEF Typed
<1>3. CASE \E t \in Reviews \X Seats : MoveSeat(t)
  BY <1>3, Moving
<1>4. CASE Reach
  BY <1>4, WalkSteps DEF Reach, reviews, Listing, SeatsApart, Apart, Typed
<1>5. CASE MoveItems
  BY <1>5, WalkSteps DEF MoveItems, reviews, Listing, SeatsApart, Apart, Typed
<1>6. CASE MoveCorrections
  BY <1>6, WalkSteps DEF MoveCorrections, reviews, Listing, SeatsApart, Apart, Typed
<1>7. CASE Answer
  BY <1>7, WalkSteps DEF Answer, reviews, Listing, SeatsApart, Apart, Typed
<1>8. CASE \E call \in calls : Update(call)
  <2> PICK call \in calls : Update(call)
    BY <1>8
  <2>1. call \in Calls
    BY Seatings
  <2>2. PICK new \in Row :
           /\ Seated(call.r, new)
           /\ new["requester"] = seat[call.r]["requester"]
           /\ new["reviewer"] \in {call.to, seat[call.r]["reviewer"]}
           /\ new["approver"] \in {call.also, seat[call.r]["approver"]}
    BY Seatings
  <2>3. handover' = handover /\ unasked' = Crossed(call, "reviewer") /\ call.op = "update"
    BY DEF Update, Applies
  <2>4. ASSUME ~AllowSelfReview, call.r \notin unasked' PROVE Apart(new)
    <3>1. /\ seat[call.r]["requester"] = call.saw["requester"] /\ ~call.blind
          /\ call.r \notin unasked /\ call.r \in Reviews
      BY <2>1, <2>3, <2>4 DEF Crossed, Facing, Calls
    <3>2. Apart(seat[call.r])
      BY <2>4, <3>1 DEF SeatsApart
    <3> QED
      BY <2>2, <2>3, <2>4, <3>1, <3>2 DEF Apart, Checked
  <2> QED
    BY <2>1, <2>2, <2>3, <2>4, Reseats DEF Calls, Crossed
<1>9. CASE \E call \in calls : Transfer(call)
  <2> PICK call \in calls : Transfer(call)
    BY <1>9
  <2>1. call \in Calls
    BY Seatings
  <2>2. PICK new \in Row :
           /\ Seated(call.r, new)
           /\ new["requester"] = call.to
           /\ new["reviewer"] = seat[call.r]["reviewer"]
           /\ new["approver"] = seat[call.r]["approver"]
    BY Seatings
  <2>3. handover' = handover /\ unasked' = Crossed(call, "requester") /\ call.op = "transfer"
    BY DEF Transfer, Applies
  <2>4. ASSUME ~AllowSelfReview, call.r \notin unasked' PROVE Apart(new)
    <3>1. /\ seat[call.r]["reviewer"] = call.saw["reviewer"]
          /\ seat[call.r]["approver"] = call.saw["approver"]
          /\ call.r \notin unasked /\ call.r \in Reviews
      BY <2>1, <2>3, <2>4 DEF Crossed, Facing, Calls
    <3>2. Apart(seat[call.r])
      BY <2>4, <3>1 DEF SeatsApart
    <3> QED
      BY <2>2, <2>3, <2>4, <3>1, <3>2 DEF Apart, Checked
  <2> QED
    BY <2>1, <2>2, <2>3, <2>4, Reseats DEF Calls, Crossed
<1>10. CASE \E call \in calls : Begin(call)
  <2> PICK call \in calls : Begin(call)
    BY <1>10
  <2>1. call \in Calls
    BY Seatings
  <2>2. PICK new \in Row :
           /\ Seated(call.r, new)
           /\ new["requester"] = seat[call.r]["requester"]
           /\ new["reviewer"] \in {call.by, seat[call.r]["reviewer"]}
           /\ new["approver"] = seat[call.r]["approver"]
    BY Seatings
  <2>3. handover' = handover /\ unasked' = Crossed(call, "reviewer") /\ call.op = "begin"
    BY DEF Begin, Applies
  <2>4. ASSUME ~AllowSelfReview, call.r \notin unasked' PROVE Apart(new)
    <3>1. /\ seat[call.r]["requester"] = call.saw["requester"] /\ ~call.blind
          /\ call.r \notin unasked /\ call.r \in Reviews
      BY <2>1, <2>3, <2>4 DEF Crossed, Facing, Calls
    <3>2. Apart(seat[call.r])
      BY <2>4, <3>1 DEF SeatsApart
    <3> QED
      BY <2>2, <2>3, <2>4, <3>1, <3>2 DEF Apart, Checked
  <2> QED
    BY <2>1, <2>2, <2>3, <2>4, Reseats DEF Calls, Crossed
<1>11. CASE \E call \in calls : Stale(call)
  BY <1>11, Aside DEF Stale, reviews
<1>12. CASE \E call \in calls : releaseItemsOf(call)
  BY <1>12, Aside DEF releaseItemsOf, reviews
<1>13. CASE \E call \in calls : releaseOpenItems(call)
  BY <1>13, Aside DEF releaseOpenItems, reviews
<1>14. CASE \E call \in calls : Report(call)
  BY <1>14, Aside DEF Report, reviews
<1>15. CASE \E call \in calls : Confirm(call)
  BY <1>15, Aside DEF Confirm, Crossed, reviews
<1>16. CASE \E call \in calls : Reopen(call)
  BY <1>16, Aside DEF Reopen, reviews
<1>17. CASE \E u \in Mutable : setUserActive(u)
  BY <1>17, Aside DEF setUserActive, reviews
<1>18. CASE \E u \in Mutable, role \in Roles : updateUserRoles(u, role)
  BY <1>18, Aside DEF updateUserRoles, reviews
<1>19. CASE \E r \in Reviews, u \in People, v, w \in People \cup {None} : UpdateCheck(u, r, v, w)
  BY <1>19, Aside DEF UpdateCheck, Ask, reviews
<1>20. CASE \E r, o \in Reviews, u \in People : copyReview(u, o, r)
  <2> PICK r \in Reviews, o \in Reviews, u \in People : copyReview(u, o, r)
    BY <1>20
  <2>1. PICK new \in Row : /\ Seated(r, new) /\ new["requester"] = u
                           /\ new["reviewer"] = seat[o]["reviewer"]
                           /\ new["approver"] = seat[o]["approver"]
    BY Seatings
  <2>2. /\ handover' = handover /\ unasked \subseteq unasked'
        /\ u \in {seat[o]["reviewer"], seat[o]["approver"]} => r \in unasked'
    BY DEF copyReview
  <2>3. r \notin unasked' => Apart(new)
    BY <2>1, <2>2 DEF Apart
  <2> QED
    BY <2>1, <2>2, <2>3, Reseats
<1>21. CASE \E r \in Reviews, u \in People, blind \in BOOLEAN : BeginCheck(u, r, blind)
  BY <1>21, Aside DEF BeginCheck, Ask, reviews
<1>22. CASE \E r \in Reviews, u \in People, op \in {"report", "confirm", "reopen"}, blind \in BOOLEAN :
               FollowUpCheck(u, r, op, blind)
  BY <1>22, Aside DEF FollowUpCheck, Ask, reviews
<1>23. CASE \E r \in Reviews, u, to \in People : bulkAssign(u, r, to)
  BY <1>23, Aside DEF bulkAssign, Noted, reviews
<1>24. CASE \E r \in Reviews, u, to \in People : createChangeRequest(u, r, to)
  BY <1>24, Aside DEF createChangeRequest, Noted, reviews
<1>25. CASE \E r \in Reviews, u, to \in People : addParticipant(u, r, to)
  BY <1>25, Aside DEF addParticipant, Noted, reviews
<1>26. CASE \E r \in Reviews, u, to \in People : removeParticipant(u, r, to)
  BY <1>26, Aside DEF removeParticipant, Noted, reviews
<1>27. CASE \E r \in Reviews, to \in People : TransferCheck(r, to)
  BY <1>27, Aside DEF TransferCheck, Ask, reviews
<1>28. CASE \E r \in Reviews, to \in People : reassignApprover(r, to)
  <2> PICK r \in Reviews, to \in People : reassignApprover(r, to)
    BY <1>28
  <2>1. PICK new \in Row : /\ Seated(r, new) /\ new["approver"] = to
                           /\ new["requester"] = seat[r]["requester"]
                           /\ new["reviewer"] = seat[r]["reviewer"]
    BY Seatings
  <2>2. /\ handover' = handover /\ unasked \subseteq unasked'
        /\ to = seat[r]["requester"] => r \in unasked'
    BY DEF reassignApprover
  <2>3. ~AllowSelfReview /\ r \notin unasked' => Apart(new)
    BY <2>1, <2>2 DEF Apart, SeatsApart
  <2> QED
    BY <2>1, <2>2, <2>3, Reseats
<1>29. CASE \E r \in Reviews, to \in Stages : Advance(r, to)
  BY <1>29, Aside DEF Advance, Noted, reviews
<1>30. CASE \E r \in Reviews : Verify(r)
  BY <1>30, Aside DEF Verify, reviews
<1>31. CASE UNCHANGED vars
  BY <1>31, Aside DEF vars, reviews
<1>32. CASE \E call \in calls, judged \in BOOLEAN : Decide(call, judged)
  <2> PICK call \in calls, judged \in BOOLEAN : Decide(call, judged)
    BY <1>32
  <2>1. call \in Calls
    BY Seatings
  <2>2. PICK new \in Row :
           /\ Seated(call.r, new)
           /\ new["requester"] = seat[call.r]["requester"]
           /\ new["reviewer"] = seat[call.r]["reviewer"]
           /\ new["approver"] \in {call.by, seat[call.r]["approver"]}
    BY Seatings
  <2>3. handover' = handover /\ unasked' = Crossed(call, "approver") /\ call.op = "decide"
    BY DEF Decide
  <2>4. ASSUME ~AllowSelfReview, call.r \notin unasked' PROVE Apart(new)
    <3>1. /\ ~call.blind /\ seat[call.r]["requester"] = call.saw["requester"]
          /\ call.r \notin unasked /\ call.r \in Reviews
      BY <2>1, <2>3, <2>4 DEF Crossed, Facing, Calls
    <3>2. Apart(seat[call.r])
      BY <2>4, <3>1 DEF SeatsApart
    <3> QED
      BY <2>2, <2>3, <2>4, <3>1, <3>2 DEF Apart, Checked
  <2> QED
    BY <2>1, <2>2, <2>3, <2>4, Reseats DEF Calls, Crossed
<1>33. CASE \E r \in Reviews, u \in People, blind \in BOOLEAN : DecideCheck(u, r, blind)
  BY <1>33, Aside DEF DecideCheck, Ask, reviews
<1>34. CASE ListBreaksOff
  <2>1. /\ handover'.rows = seat /\ seat' = seat /\ unasked' = unasked
        /\ handover'.todo \subseteq Listed /\ handover'.from = handover.from
    BY <1>34, WalkSteps DEF ListBreaksOff, reviews
  <2>2. ~AllowSelfReview => SeatsApart'
    BY <2>1 DEF SeatsApart, Apart
  <2>3. ~AllowSelfReview => Listing'
    BY <2>1 DEF Listing, SeatsApart, Apart, Followed, Listed, Held
  <2> QED
    BY <2>1, <2>2, <2>3 DEF Typed
<1>35. CASE ReachFails
  BY <1>35, WalkSteps DEF ReachFails, reviews, Listing, SeatsApart, Apart, Typed
<1>36. CASE MoveFails
  BY <1>36, WalkSteps DEF MoveFails, reviews, Listing, SeatsApart, Apart, Typed
<1>37. CASE \E t \in Reviews \X Seats : SeatFails(t)
  <2>1. /\ handover'.rows = handover.rows /\ handover'.todo \subseteq handover.todo
        /\ handover'.from = handover.from /\ handover'.to = handover.to
        /\ handover.phase = "moving" /\ handover'.phase = "moving"
    BY <1>37, WalkSteps DEF SeatFails
  <2>2. seat' = seat /\ since' = since /\ unasked' = unasked
    BY <1>37 DEF SeatFails, reviews
  <2> QED
    BY <2>1, <2>2 DEF Listing, Followed, SeatsApart, Apart, Typed
<1> QED
  BY <1>1, <1>2, <1>3, <1>4, <1>5, <1>6, <1>7, <1>8, <1>9, <1>10, <1>11, <1>12, <1>13,
     <1>14, <1>15, <1>16, <1>17, <1>18, <1>19, <1>20, <1>21, <1>22, <1>23, <1>24, <1>25,
     <1>26, <1>27, <1>28, <1>29, <1>30, <1>31, <1>32,
     <1>33, <1>34, <1>35, <1>36, <1>37
     DEF Next, handoverUserWork, Written, OneByOne

(* The hand-over knows whose work goes to whom.                              *)
LEMMA WalkedKept ==
    ASSUME Typed, [Next]_vars
    PROVE  Walked'
<1>1. CASE \E from, to \in People : StartHandover(from, to)
  BY <1>1, WalkSteps DEF StartHandover
<1>2. CASE ListOpen
  BY <1>2, WalkSteps DEF ListOpen
<1>3. CASE \E t \in Reviews \X Seats : MoveSeat(t)
  BY <1>3, WalkSteps DEF MoveSeat
<1>4. CASE Reach
  BY <1>4, WalkSteps DEF Reach
<1>5. CASE MoveItems
  BY <1>5, WalkSteps DEF MoveItems
<1>6. CASE MoveCorrections
  BY <1>6, WalkSteps DEF MoveCorrections
<1>7. CASE Answer
  BY <1>7, WalkSteps DEF Answer
<1>8. CASE \E call \in calls : Update(call)
  BY <1>8 DEF Typed, Walked, Update, Crossed, reviews
<1>9. CASE \E call \in calls : Transfer(call)
  BY <1>9 DEF Typed, Walked, Transfer, Crossed, reviews
<1>10. CASE \E call \in calls : Begin(call)
  BY <1>10 DEF Typed, Walked, Begin, Crossed, reviews
<1>11. CASE \E call \in calls : Stale(call)
  BY <1>11 DEF Typed, Walked, Stale, reviews
<1>12. CASE \E call \in calls : releaseItemsOf(call)
  BY <1>12 DEF Typed, Walked, releaseItemsOf, reviews
<1>13. CASE \E call \in calls : releaseOpenItems(call)
  BY <1>13 DEF Typed, Walked, releaseOpenItems, reviews
<1>14. CASE \E call \in calls : Report(call)
  BY <1>14 DEF Typed, Walked, Report, reviews
<1>15. CASE \E call \in calls : Confirm(call)
  BY <1>15 DEF Typed, Walked, Confirm, reviews
<1>16. CASE \E call \in calls : Reopen(call)
  BY <1>16 DEF Typed, Walked, Reopen, reviews
<1>17. CASE \E u \in Mutable : setUserActive(u)
  BY <1>17 DEF Typed, Walked, setUserActive, reviews
<1>18. CASE \E u \in Mutable, role \in Roles : updateUserRoles(u, role)
  BY <1>18 DEF Typed, Walked, updateUserRoles, reviews
<1>19. CASE \E r \in Reviews, u \in People, v, w \in People \cup {None} : UpdateCheck(u, r, v, w)
  BY <1>19 DEF Typed, Walked, UpdateCheck, Ask, reviews
<1>20. CASE \E r, o \in Reviews, u \in People : copyReview(u, o, r)
  BY <1>20 DEF Typed, Walked, copyReview, reviews
<1>21. CASE \E r \in Reviews, u \in People, blind \in BOOLEAN : BeginCheck(u, r, blind)
  BY <1>21 DEF Typed, Walked, BeginCheck, Ask, reviews
<1>22. CASE \E r \in Reviews, u \in People, op \in {"report", "confirm", "reopen"}, blind \in BOOLEAN :
               FollowUpCheck(u, r, op, blind)
  BY <1>22 DEF Typed, Walked, FollowUpCheck, Ask, reviews
<1>23. CASE \E r \in Reviews, u, to \in People : bulkAssign(u, r, to)
  BY <1>23 DEF Typed, Walked, bulkAssign, reviews
<1>24. CASE \E r \in Reviews, u, to \in People : createChangeRequest(u, r, to)
  BY <1>24 DEF Typed, Walked, createChangeRequest, reviews
<1>25. CASE \E r \in Reviews, u, to \in People : addParticipant(u, r, to)
  BY <1>25 DEF Typed, Walked, addParticipant, reviews
<1>26. CASE \E r \in Reviews, u, to \in People : removeParticipant(u, r, to)
  BY <1>26 DEF Typed, Walked, removeParticipant, reviews
<1>27. CASE \E r \in Reviews, to \in People : TransferCheck(r, to)
  BY <1>27 DEF Typed, Walked, TransferCheck, Ask, reviews
<1>28. CASE \E r \in Reviews, to \in People : reassignApprover(r, to)
  BY <1>28 DEF Typed, Walked, reassignApprover, reviews
<1>29. CASE \E r \in Reviews, to \in Stages : Advance(r, to)
  BY <1>29 DEF Typed, Walked, Advance, reviews
<1>30. CASE \E r \in Reviews : Verify(r)
  BY <1>30 DEF Typed, Walked, Verify, reviews
<1>31. CASE UNCHANGED vars
  BY <1>31 DEF Typed, Walked, vars
<1>32. CASE \E call \in calls, judged \in BOOLEAN : Decide(call, judged)
  BY <1>32 DEF Typed, Walked, Decide, reviews
<1>33. CASE \E r \in Reviews, u \in People, blind \in BOOLEAN : DecideCheck(u, r, blind)
  BY <1>33 DEF Typed, Walked, DecideCheck, Ask, reviews
<1>34. CASE ListBreaksOff
  BY <1>34, WalkSteps DEF ListBreaksOff
<1>35. CASE ReachFails
  BY <1>35, WalkSteps DEF ReachFails
<1>36. CASE MoveFails
  BY <1>36, WalkSteps DEF MoveFails
<1>37. CASE \E t \in Reviews \X Seats : SeatFails(t)
  BY <1>37, WalkSteps DEF SeatFails
<1> QED
  BY <1>1, <1>2, <1>3, <1>4, <1>5, <1>6, <1>7, <1>8, <1>9, <1>10, <1>11, <1>12, <1>13,
     <1>14, <1>15, <1>16, <1>17, <1>18, <1>19, <1>20, <1>21, <1>22, <1>23, <1>24, <1>25,
     <1>26, <1>27, <1>28, <1>29, <1>30, <1>31, <1>32,
     <1>33, <1>34, <1>35, <1>36, <1>37
     DEF Next, handoverUserWork, Written, OneByOne

(* Nobody confirms what they were to do themselves but where it is noted.    *)
LEMMA AcceptedKept ==
    ASSUME Typed, ~AllowSelfReview => OwnAccepted /\ Checked, [Next]_vars
    PROVE  ~AllowSelfReview => OwnAccepted'
<1> USE DEF OwnAccepted
<1>1. CASE \E from, to \in People : StartHandover(from, to)
  BY <1>1 DEF StartHandover, reviews
<1>2. CASE ListOpen
  BY <1>2 DEF ListOpen, reviews
<1>3. CASE \E t \in Reviews \X Seats : MoveSeat(t)
  BY <1>3 DEF MoveSeat, reviews
<1>4. CASE Reach
  BY <1>4 DEF Reach, reviews
<1>5. CASE MoveItems
  BY <1>5 DEF MoveItems, reviews
<1>6. CASE MoveCorrections
  BY <1>6 DEF MoveCorrections, reviews
<1>7. CASE Answer
  BY <1>7 DEF Answer, reviews
<1>8. CASE \E call \in calls : Update(call)
  BY <1>8 DEF Update, Crossed, reviews
<1>9. CASE \E call \in calls : Transfer(call)
  BY <1>9 DEF Transfer, Crossed, reviews
<1>10. CASE \E call \in calls : Begin(call)
  BY <1>10 DEF Begin, Crossed, reviews
<1>11. CASE \E call \in calls : Stale(call)
  BY <1>11 DEF Stale, reviews
<1>12. CASE \E call \in calls : releaseItemsOf(call)
  BY <1>12 DEF releaseItemsOf, reviews
<1>13. CASE \E call \in calls : releaseOpenItems(call)
  BY <1>13 DEF releaseOpenItems, reviews
<1>14. CASE \E call \in calls : Report(call)
  BY <1>14 DEF Report, reviews
<1>15. CASE \E call \in calls : Confirm(call)
  <2> PICK call \in calls : Confirm(call)
    BY <1>15
  <2>1. call \in Calls /\ call.r \in Reviews /\ call.op = "confirm"
    BY DEF Typed, Asking, Confirm, Calls
  <2>2. /\ accepted' = [accepted EXCEPT ![call.r] = [by |-> call.by, of |-> seat[call.r].requester]]
        /\ unasked' = Crossed(call, "reviewer")
    BY DEF Confirm
  <2>3. ASSUME ~AllowSelfReview, call.r \notin unasked' PROVE accepted'[call.r].by # accepted'[call.r].of
    <3>1. ~call.blind /\ seat[call.r]["requester"] = call.saw["requester"]
      BY <2>2, <2>3 DEF Crossed, Facing
    <3>2. call.by # seat[call.r]["requester"]
      BY <2>1, <2>3, <3>1 DEF Checked
    <3> QED
      BY <2>1, <2>2, <3>2 DEF Typed, Columns
  <2>4. unasked \subseteq unasked' /\ \A r \in Reviews \ {call.r} : accepted'[r] = accepted[r]
    BY <2>1, <2>2 DEF Crossed, Typed, Columns
  <2> QED
    BY <2>3, <2>4 DEF OwnAccepted
<1>16. CASE \E call \in calls : Reopen(call)
  <2> PICK call \in calls : Reopen(call)
    BY <1>16
  <2>1. call.r \in Reviews /\ unasked' = unasked
    BY DEF Typed, Asking, Reopen, Calls
  <2>2. \A r \in Reviews : accepted'[r] = accepted[r] \/ accepted'[r].by = None
    BY <2>1 DEF Reopen, Typed, Columns
  <2> QED
    BY <2>1, <2>2 DEF OwnAccepted
<1>17. CASE \E u \in Mutable : setUserActive(u)
  BY <1>17 DEF setUserActive, reviews
<1>18. CASE \E u \in Mutable, role \in Roles : updateUserRoles(u, role)
  BY <1>18 DEF updateUserRoles, reviews
<1>19. CASE \E r \in Reviews, u \in People, v, w \in People \cup {None} : UpdateCheck(u, r, v, w)
  BY <1>19 DEF UpdateCheck, Ask, reviews
<1>20. CASE \E r, o \in Reviews, u \in People : copyReview(u, o, r)
  BY <1>20 DEF copyReview, reviews
<1>21. CASE \E r \in Reviews, u \in People, blind \in BOOLEAN : BeginCheck(u, r, blind)
  BY <1>21 DEF BeginCheck, Ask, reviews
<1>22. CASE \E r \in Reviews, u \in People, op \in {"report", "confirm", "reopen"}, blind \in BOOLEAN :
               FollowUpCheck(u, r, op, blind)
  BY <1>22 DEF FollowUpCheck, Ask, reviews
<1>23. CASE \E r \in Reviews, u, to \in People : bulkAssign(u, r, to)
  BY <1>23 DEF bulkAssign, reviews
<1>24. CASE \E r \in Reviews, u, to \in People : createChangeRequest(u, r, to)
  BY <1>24 DEF createChangeRequest, reviews
<1>25. CASE \E r \in Reviews, u, to \in People : addParticipant(u, r, to)
  BY <1>25 DEF addParticipant, reviews
<1>26. CASE \E r \in Reviews, u, to \in People : removeParticipant(u, r, to)
  BY <1>26 DEF removeParticipant, reviews
<1>27. CASE \E r \in Reviews, to \in People : TransferCheck(r, to)
  BY <1>27 DEF TransferCheck, Ask, reviews
<1>28. CASE \E r \in Reviews, to \in People : reassignApprover(r, to)
  BY <1>28 DEF reassignApprover, reviews
<1>29. CASE \E r \in Reviews, to \in Stages : Advance(r, to)
  BY <1>29 DEF Advance, reviews
<1>30. CASE \E r \in Reviews : Verify(r)
  BY <1>30 DEF Verify, reviews
<1>31. CASE UNCHANGED vars
  BY <1>31 DEF vars, reviews
<1>32. CASE \E call \in calls, judged \in BOOLEAN : Decide(call, judged)
  BY <1>32 DEF Decide, Crossed, reviews
<1>33. CASE \E r \in Reviews, u \in People, blind \in BOOLEAN : DecideCheck(u, r, blind)
  BY <1>33 DEF DecideCheck, Ask, reviews
<1>34. CASE ListBreaksOff
  BY <1>34 DEF ListBreaksOff, reviews
<1>35. CASE ReachFails
  BY <1>35 DEF ReachFails, reviews
<1>36. CASE MoveFails
  BY <1>36 DEF MoveFails, reviews
<1>37. CASE \E t \in Reviews \X Seats : SeatFails(t)
  BY <1>37 DEF SeatFails, reviews
<1> QED
  BY <1>1, <1>2, <1>3, <1>4, <1>5, <1>6, <1>7, <1>8, <1>9, <1>10, <1>11, <1>12, <1>13,
     <1>14, <1>15, <1>16, <1>17, <1>18, <1>19, <1>20, <1>21, <1>22, <1>23, <1>24, <1>25,
     <1>26, <1>27, <1>28, <1>29, <1>30, <1>31, <1>32,
     <1>33, <1>34, <1>35, <1>36, <1>37
     DEF Next, handoverUserWork, Written, OneByOne

(* The outline of a review begins with people who fit.                       *)
LEMMA OwnStart == Init => Typed /\ (~AllowSelfReview => SeatsApart /\ OwnAccepted /\ Checked /\ Listing)
<1> SUFFICES ASSUME Init
             PROVE  Typed /\ (~AllowSelfReview => SeatsApart /\ OwnAccepted /\ Checked /\ Listing)
  OBVIOUS
<1>1. PICK start \in Starts :
         /\ stage = OfFirst(start.stage, "none") /\ seat = OfFirst(start.seat, Nobody)
         /\ item = OfFirst(start.item, None) /\ correction = OfFirst(start.correction, None)
  BY DEF Init
<1>2. /\ start.stage \in Stages /\ start.seat \in Row
      /\ start.item \in Somebody /\ start.correction \in Somebody
  <2>1. start \in [stage : Stages \ {"none"}, seat : [Seats -> People], item : Somebody,
                   correction : Somebody, followUp : {"none", "open"}]
    BY AssignmentAssumption DEF Somebody
  <2> QED
    BY <2>1 DEF Row, Somebody
<1>3. Nobody \in Row /\ None \in Somebody /\ "none" \in Stages
  BY DEF Nobody, Row, Somebody, Stages
<1>4. Columns
  <2>1. /\ stage \in [Reviews -> Stages] /\ item \in [Reviews -> Somebody]
        /\ correction \in [Reviews -> Somebody]
    BY <1>1, <1>2, <1>3 DEF OfFirst
  <2>2. accepted \in [Reviews -> [by : Somebody, of : Somebody]]
    BY <1>3 DEF Init
  <2>3. guests \in [Reviews -> SUBSET People] /\ holds \in [People -> SUBSET Roles]
    BY AssignmentAssumption DEF Init
  <2> QED
    BY <2>1, <2>2, <2>3 DEF Columns
<1>5. seat \in [Reviews -> Row]
  BY <1>1, <1>2, <1>3 DEF OfFirst
<1>6. calls = {} /\ handover = Resting /\ unasked = {}
  BY DEF Init
<1>7. Typed
  BY <1>4, <1>5, <1>6, RestingWalks DEF Typed, Asking, Walked
<1>8. ASSUME ~AllowSelfReview PROVE SeatsApart
  <2>1. Apart(start.seat)
    BY <1>8, AssignmentAssumption DEF Apart
  <2>2. Apart(Nobody)
    BY DEF Apart, Nobody, Seats
  <2> QED
    BY <1>1, <2>1, <2>2 DEF SeatsApart, OfFirst, Apart
<1>9. OwnAccepted
  BY DEF Init, OwnAccepted
<1>10. Checked /\ Listing
  BY <1>6, RestingWalks DEF Checked, Listing
<1> QED
  BY <1>7, <1>8, <1>9, <1>10

(* The types and what keeps people apart, throughout.                        *)
LEMMA OwnAlways ==
    Spec => [](Typed /\ (~AllowSelfReview => SeatsApart /\ OwnAccepted /\ Checked /\ Listing))
<1> DEFINE Own == Typed /\ (~AllowSelfReview => SeatsApart /\ OwnAccepted /\ Checked /\ Listing)
<1>1. Init => Own
  BY OwnStart
<1>2. Own /\ [Next]_vars => Own'
  <2> SUFFICES ASSUME Own, [Next]_vars PROVE Own'
    OBVIOUS
  <2>1. Columns' /\ Asking' /\ (~AllowSelfReview => Checked')
    BY ColumnsKept, AskingKept
  <2>2. seat' \in [Reviews -> Row] /\ (~AllowSelfReview => SeatsApart' /\ Listing')
    BY SeatsKept
  <2>3. ~AllowSelfReview => OwnAccepted'
    BY AcceptedKept
  <2>4. Walked'
    BY WalkedKept
  <2> QED
    BY <2>1, <2>2, <2>3, <2>4 DEF Typed
<1> HIDE DEF Own
<1>3. Spec => []Own
  BY <1>1, <1>2, PTL DEF Spec
<1> QED
  BY <1>3, PTL DEF Own

(* However many assignments overlap with each other and with hand-overs,     *)
(* whatever changes meanwhile and whichever statement fails: nobody judges,  *)
(* approves or closes out what they asked for but where the seat opposite    *)
(* changed between check and write, the check could not be made, or a copy   *)
(* or an administrator's own choice put them there (handoverUserWork and the *)
(* checks before each assignment).                                           *)
THEOREM OwnWorkTold == Spec => []OwnWorkOnlyByOverlap
<1>1. Typed /\ (~AllowSelfReview => SeatsApart /\ OwnAccepted /\ Checked /\ Listing)
         => OwnWorkOnlyByOverlap
  BY DEF OwnWorkOnlyByOverlap, SeatsApart, OwnAccepted, Apart
<1> QED
  BY <1>1, OwnAlways, PTL

(* What somebody else does, it leaves alone or notes.                        *)
Heeded ==
    handover.phase # "idle" =>
       /\ since \subseteq since'
       /\ \A r \in Reviews, s \in Seats :
             Open(r)' /\ <<r, s>> \notin since' /\ <<r, "stage">> \notin since' =>
             seat'[r][s] = None \/ (Open(r) /\ seat'[r][s] = seat[r][s])
       /\ \A r \in Reviews : Open(r)' /\ ~Touched(r)' =>
             /\ Open(r) /\ guests'[r] = guests[r] /\ \A s \in Seats : seat'[r][s] = seat[r][s]
             /\ item'[r] \in {item[r], None} /\ correction'[r] \in {correction[r], None}

(* What is left alone or noted does not disturb the account.                 *)
LEMMA Others ==
    ASSUME Typed, Left, handover' = handover, Heeded
    PROVE  Left'
<1>1. CASE handover.phase = "idle"
  BY <1>1 DEF Left, SeatsLeft, NamesLeft, ItemLeft, CorrectionLeft, MovedOn
<1>2. CASE handover.phase # "idle"
  <2>1. handover.from # None
    BY <1>2, AssignmentAssumption DEF Typed, Walked
  <2>2. SeatsLeft'
    BY <1>2, <2>1 DEF Heeded, Left, SeatsLeft, MovedOn
  <2>3. ASSUME NEW r \in Reviews, Open(r)', canAccessReviewAs(handover.to, r)', ~Touched(r)'
        PROVE  NamesLeft(r)'
    <3>1. /\ Open(r) /\ guests'[r] = guests[r] /\ \A s \in Seats : seat'[r][s] = seat[r][s]
          /\ item'[r] \in {item[r], None} /\ correction'[r] \in {correction[r], None}
      BY <1>2, <2>3 DEF Heeded
    <3>2. canAccessReviewAs(handover.to, r)
      BY <2>3, <3>1 DEF canAccessReviewAs, InSeat
    <3>3. ~Touched(r)
      BY <1>2, <2>3 DEF Heeded, Touched
    <3>4. NamesLeft(r)
      BY <3>1, <3>2, <3>3 DEF Left
    <3> QED
      BY <2>1, <3>1, <3>4 DEF NamesLeft, ItemLeft, CorrectionLeft
  <2> QED
    BY <2>2, <2>3 DEF Left, MovedOn
<1> QED
  BY <1>1, <1>2

(* Naming people in a review that is there.                                  *)
LEMMA NamingHeeded ==
    ASSUME Typed, NEW r \in Reviews, NEW new \in Row, Seated(r, new),
           UNCHANGED <<guests, item, correction>>,
           \A q \in Reviews : Open(q)' => Open(q)
    PROVE  Heeded
<1>1. /\ seat' \in [Reviews -> Row]
      /\ handover.phase # "idle" =>
            /\ since \subseteq since'
            /\ \A q \in Reviews, s \in Seats : seat'[q][s] # seat[q][s] => <<q, s>> \in since'
  BY Naming DEF Typed
<1>2. \A q \in Reviews : handover.phase # "idle" /\ ~Touched(q)' =>
         \A s \in Seats : seat'[q][s] = seat[q][s]
  BY <1>1 DEF Touched
<1> QED
  BY <1>1, <1>2 DEF Heeded

(* A copy is new, and its requester was not there before.                    *)
LEMMA CopyHeeded ==
    ASSUME Typed, Vacant, NEW u \in People, NEW o \in Reviews, NEW r \in Reviews,
           copyReview(u, o, r)
    PROVE  Heeded
<1>1. PICK new \in Row : Seated(r, new) /\ new["requester"] = u
  BY Seatings
<1>2. /\ seat' \in [Reviews -> Row] /\ seat'[r] = new
      /\ handover.phase # "idle" =>
            /\ since \subseteq since'
            /\ \A q \in Reviews, s \in Seats : seat'[q][s] # seat[q][s] => <<q, s>> \in since'
  BY <1>1, Naming DEF Typed
<1>3. /\ \A s \in Seats : seat[r][s] = None
      /\ \A q \in Reviews \ {r} : stage'[q] = stage[q]
      /\ UNCHANGED <<guests, item, correction>>
  BY DEF copyReview, Vacant, Typed, Columns
<1>4. "requester" \in Seats /\ u # None
  BY AssignmentAssumption DEF Seats
<1>5. handover.phase # "idle" => Touched(r)'
  BY <1>1, <1>2, <1>3, <1>4 DEF Touched
<1>6. \A q \in Reviews : handover.phase # "idle" /\ ~Touched(q)' =>
         \A s \in Seats : seat'[q][s] = seat[q][s]
  BY <1>2 DEF Touched
<1> QED
  BY <1>2, <1>3, <1>5, <1>6 DEF Heeded, Open

(* One entry of one review changes, and is noted.                            *)
LEMMA NotedHeeded ==
    ASSUME NEW r \in Reviews, NEW entry, since' = Noted({<<r, entry>>}),
           UNCHANGED <<seat, handover>>,
           \A q \in Reviews \ {r} :
              guests'[q] = guests[q] /\ item'[q] = item[q] /\ correction'[q] = correction[q],
           \A q \in Reviews : Open(q)' => Open(q) \/ (q = r /\ entry = "stage")
    PROVE  Heeded
<1> SUFFICES ASSUME handover.phase # "idle" PROVE Heeded
  BY DEF Heeded
<1>1. since' = since \cup {<<r, entry>>}
  BY DEF Noted
<1>2. Touched(r)'
  <2>1. <<r, entry>> \in since' /\ <<r, entry>>[1] = r
    BY <1>1
  <2> QED
    BY <2>1 DEF Touched
<1>3. \A q \in Reviews : Open(q)' /\ ~Touched(q)' => q # r
  BY <1>2
<1> QED
  BY <1>1, <1>3 DEF Heeded

(* A review comes to be there by a copy, and stays.                          *)
LEMMA VacantKept ==
    ASSUME Typed, Vacant, [Next]_vars
    PROVE  Vacant'
<1>1. CASE \E from, to \in People : StartHandover(from, to)
  BY <1>1 DEF StartHandover, reviews, Vacant
<1>2. CASE ListOpen
  BY <1>2 DEF ListOpen, reviews, Vacant
<1>3. CASE \E t \in Reviews \X Seats : MoveSeat(t)
  <2> PICK t \in Reviews \X Seats : MoveSeat(t)
    BY <1>3
  <2>1. stage' = stage /\ calls' = calls /\ handover.from # None
    BY AssignmentAssumption DEF MoveSeat, Typed, Walked
  <2>2. \A r \in Reviews, s \in Seats : seat[r][s] = None => seat'[r][s] = None
    BY <2>1 DEF MoveSeat, Typed, Row
  <2> QED
    BY <2>1, <2>2 DEF Vacant
<1>4. CASE Reach
  BY <1>4 DEF Reach, reviews, Vacant
<1>5. CASE MoveItems
  BY <1>5 DEF MoveItems, reviews, Vacant
<1>6. CASE MoveCorrections
  BY <1>6 DEF MoveCorrections, reviews, Vacant
<1>7. CASE Answer
  BY <1>7 DEF Answer, reviews, Vacant
<1>8. CASE \E call \in calls : Update(call)
  <2> PICK call \in calls : Update(call)
    BY <1>8
  <2>1. call \in Calls /\ call.r \in Reviews /\ stage[call.r] # "none"
    BY Seatings DEF Update, Applies, Calls, Vacant
  <2>2. PICK new \in Row : Seated(call.r, new)
    BY Seatings
  <2>3. \A q \in Reviews \ {call.r} : seat'[q] = seat[q]
    BY <2>1, <2>2, Naming DEF Typed
  <2>4. stage'[call.r] # "none" /\ \A q \in Reviews \ {call.r} : stage'[q] = stage[q]
    BY <2>1 DEF Update, Typed, Columns
  <2>5. calls' \subseteq calls
    BY DEF Update, Done
  <2> QED
    BY <2>1, <2>3, <2>4, <2>5 DEF Vacant, Typed, Asking, Calls
<1>9. CASE \E call \in calls : Transfer(call)
  <2> PICK call \in calls : Transfer(call)
    BY <1>9
  <2>1. call \in Calls /\ call.r \in Reviews /\ stage[call.r] # "none"
    BY Seatings DEF Transfer, Applies, Calls, Vacant
  <2>2. PICK new \in Row : Seated(call.r, new)
    BY Seatings
  <2>3. \A q \in Reviews \ {call.r} : seat'[q] = seat[q]
    BY <2>1, <2>2, Naming DEF Typed
  <2>4. stage'[call.r] # "none" /\ \A q \in Reviews \ {call.r} : stage'[q] = stage[q]
    BY <2>1 DEF Transfer, Typed, Columns
  <2>5. calls' \subseteq calls
    BY DEF Transfer, Done
  <2> QED
    BY <2>1, <2>3, <2>4, <2>5 DEF Vacant, Typed, Asking, Calls
<1>10. CASE \E call \in calls : Begin(call)
  <2> PICK call \in calls : Begin(call)
    BY <1>10
  <2>1. call \in Calls /\ call.r \in Reviews /\ stage[call.r] # "none"
    BY Seatings DEF Begin, Applies, Calls, Vacant
  <2>2. PICK new \in Row : Seated(call.r, new)
    BY Seatings
  <2>3. \A q \in Reviews \ {call.r} : seat'[q] = seat[q]
    BY <2>1, <2>2, Naming DEF Typed
  <2>4. stage'[call.r] # "none" /\ \A q \in Reviews \ {call.r} : stage'[q] = stage[q]
    BY <2>1 DEF Begin, Typed, Columns
  <2>5. calls' \subseteq calls
    BY DEF Begin, Done
  <2> QED
    BY <2>1, <2>3, <2>4, <2>5 DEF Vacant, Typed, Asking, Calls
<1>11. CASE \E call \in calls : Stale(call)
  BY <1>11 DEF Stale, Done, reviews, Vacant
<1>12. CASE \E call \in calls : releaseItemsOf(call)
  BY <1>12 DEF releaseItemsOf, Done, reviews, Vacant
<1>13. CASE \E call \in calls : releaseOpenItems(call)
  BY <1>13 DEF releaseOpenItems, Done, reviews, Vacant
<1>14. CASE \E call \in calls : Report(call)
  BY <1>14 DEF Report, Done, reviews, Vacant
<1>15. CASE \E call \in calls : Confirm(call)
  BY <1>15 DEF Confirm, Done, reviews, Vacant
<1>16. CASE \E call \in calls : Reopen(call)
  BY <1>16 DEF Reopen, Done, reviews, Vacant
<1>17. CASE \E u \in Mutable : setUserActive(u)
  <2>1. /\ stage' = stage /\ seat' = seat
        /\ \A call \in calls' : call \in calls \/ call.op = "close"
    BY <1>17 DEF setUserActive, Call, reviews
  <2> QED
    BY <2>1 DEF Vacant
<1>18. CASE \E u \in Mutable, role \in Roles : updateUserRoles(u, role)
  BY <1>18 DEF updateUserRoles, reviews, Vacant
<1>19. CASE \E r \in Reviews, u \in People, v, w \in People \cup {None} : UpdateCheck(u, r, v, w)
  BY <1>19 DEF UpdateCheck, Ask, Call, reviews, Vacant
<1>20. CASE \E r, o \in Reviews, u \in People : copyReview(u, o, r)
  <2> PICK r \in Reviews, o \in Reviews, u \in People : copyReview(u, o, r)
    BY <1>20
  <2>1. PICK new \in Row : Seated(r, new)
    BY Seatings
  <2>2. \A q \in Reviews \ {r} : seat'[q] = seat[q]
    BY <2>1, Naming DEF Typed
  <2>3. stage'[r] = "desk" /\ (\A q \in Reviews \ {r} : stage'[q] = stage[q]) /\ calls' = calls
    BY DEF copyReview, Typed, Columns
  <2>4. \A q \in Reviews : stage'[q] = "none" => q # r /\ stage[q] = "none"
    BY <2>3
  <2>5. \A q \in Reviews, s \in Seats : stage'[q] = "none" => seat'[q][s] = None
    BY <2>2, <2>4 DEF Vacant
  <2>6. ASSUME NEW call \in calls', call.op = "transfer" PROVE stage'[call.r] # "none"
    <3>1. call \in calls /\ stage[call.r] # "none"
      BY <2>3, <2>6 DEF Vacant
    <3>2. call.r \in Reviews
      BY <3>1, <2>6 DEF Typed, Asking, Calls
    <3> QED
      BY <2>3, <3>1, <3>2
  <2> QED
    BY <2>5, <2>6 DEF Vacant
<1>21. CASE \E r \in Reviews, u \in People, blind \in BOOLEAN : BeginCheck(u, r, blind)
  BY <1>21 DEF BeginCheck, Ask, Call, reviews, Vacant
<1>22. CASE \E r \in Reviews, u \in People, op \in {"report", "confirm", "reopen"}, blind \in BOOLEAN :
               FollowUpCheck(u, r, op, blind)
  BY <1>22 DEF FollowUpCheck, Ask, Call, reviews, Vacant
<1>23. CASE \E r \in Reviews, u, to \in People : bulkAssign(u, r, to)
  BY <1>23 DEF bulkAssign, reviews, Vacant
<1>24. CASE \E r \in Reviews, u, to \in People : createChangeRequest(u, r, to)
  BY <1>24 DEF createChangeRequest, reviews, Vacant, Typed, Columns
<1>25. CASE \E r \in Reviews, u, to \in People : addParticipant(u, r, to)
  BY <1>25 DEF addParticipant, reviews, Vacant
<1>26. CASE \E r \in Reviews, u, to \in People : removeParticipant(u, r, to)
  BY <1>26 DEF removeParticipant, Call, reviews, Vacant
<1>27. CASE \E r \in Reviews, to \in People : TransferCheck(r, to)
  BY <1>27 DEF TransferCheck, Ask, Call, reviews, Vacant
<1>28. CASE \E r \in Reviews, to \in People : reassignApprover(r, to)
  <2> PICK r \in Reviews, to \in People : reassignApprover(r, to)
    BY <1>28
  <2>1. PICK new \in Row : Seated(r, new)
    BY Seatings
  <2>2. \A q \in Reviews \ {r} : seat'[q] = seat[q]
    BY <2>1, Naming DEF Typed
  <2>3. stage[r] = "signing" /\ stage' = stage /\ calls' = calls
    BY DEF reassignApprover
  <2>4. \A q \in Reviews : stage'[q] = "none" => q # r /\ stage[q] = "none"
    BY <2>3
  <2>5. \A q \in Reviews, s \in Seats : stage'[q] = "none" => seat'[q][s] = None
    BY <2>2, <2>4 DEF Vacant
  <2> QED
    BY <2>3, <2>5 DEF Vacant
<1>29. CASE \E r \in Reviews, to \in Stages : Advance(r, to)
  BY <1>29 DEF Advance, Roads, reviews, Vacant, Typed, Columns
<1>30. CASE \E r \in Reviews : Verify(r)
  BY <1>30 DEF Verify, reviews, Vacant
<1>31. CASE UNCHANGED vars
  BY <1>31 DEF vars, reviews, Vacant
<1>32. CASE \E call \in calls, judged \in BOOLEAN : Decide(call, judged)
  <2> PICK call \in calls, judged \in BOOLEAN : Decide(call, judged)
    BY <1>32
  <2>1. call \in Calls /\ call.r \in Reviews /\ stage[call.r] # "none"
    BY Seatings DEF Decide, Applies, Calls, Vacant
  <2>2. PICK new \in Row : Seated(call.r, new)
    BY Seatings
  <2>3. \A q \in Reviews \ {call.r} : seat'[q] = seat[q]
    BY <2>1, <2>2, Naming DEF Typed
  <2>4. stage'[call.r] # "none" /\ \A q \in Reviews \ {call.r} : stage'[q] = stage[q]
    BY <2>1 DEF Decide, Typed, Columns
  <2>5. calls' \subseteq calls
    BY DEF Decide, Done
  <2> QED
    BY <2>1, <2>3, <2>4, <2>5 DEF Vacant, Typed, Asking, Calls
<1>33. CASE \E r \in Reviews, u \in People, blind \in BOOLEAN : DecideCheck(u, r, blind)
  BY <1>33 DEF DecideCheck, Ask, Call, reviews, Vacant
<1>34. CASE ListBreaksOff
  BY <1>34 DEF ListBreaksOff, reviews, Vacant
<1>35. CASE ReachFails
  BY <1>35 DEF ReachFails, reviews, Vacant
<1>36. CASE MoveFails
  BY <1>36 DEF MoveFails, reviews, Vacant
<1>37. CASE \E t \in Reviews \X Seats : SeatFails(t)
  BY <1>37 DEF SeatFails, reviews, Vacant
<1> QED
  BY <1>1, <1>2, <1>3, <1>4, <1>5, <1>6, <1>7, <1>8, <1>9, <1>10, <1>11, <1>12, <1>13,
     <1>14, <1>15, <1>16, <1>17, <1>18, <1>19, <1>20, <1>21, <1>22, <1>23, <1>24, <1>25,
     <1>26, <1>27, <1>28, <1>29, <1>30, <1>31, <1>32,
     <1>33, <1>34, <1>35, <1>36, <1>37
     DEF Next, handoverUserWork, Written, OneByOne

(* Nothing slips past the hand-over.                                         *)
LEMMA LeftKept ==
    ASSUME Typed, Vacant, Left, [Next]_vars
    PROVE  Left'
<1>1. CASE \E from, to \in People : StartHandover(from, to)
  <2>1. handover'.phase = "listing"
    BY <1>1, WalkSteps
  <2> QED
    BY <2>1 DEF Left, SeatsLeft, NamesLeft, ItemLeft, CorrectionLeft, MovedOn
<1>2. CASE ListOpen
  <2>1. /\ handover'.phase = "moving" /\ handover'.todo = Listed
        /\ handover'.from = handover.from /\ seat' = seat /\ stage' = stage
    BY <1>2, WalkSteps DEF ListOpen, reviews
  <2>2. SeatsLeft'
    BY <2>1 DEF SeatsLeft, Listed, Held, Open
  <2> QED
    BY <2>1, <2>2 DEF Left, NamesLeft, ItemLeft, CorrectionLeft, MovedOn
<1>3. CASE \E t \in Reviews \X Seats : MoveSeat(t)
  <2> PICK t \in Reviews \X Seats : MoveSeat(t)
    BY <1>3
  <2>1. /\ handover.phase = "moving" /\ handover'.phase = "moving"
        /\ handover'.from = handover.from /\ handover'.todo = handover.todo \ {t}
        /\ handover.named \subseteq handover'.named /\ handover'.lost = handover.lost
        /\ seat[t[1]][t[2]] = handover.from /\ ~May(t) => t \in handover'.named
    BY WalkSteps DEF MoveSeat
  <2>2. handover.from # handover.to /\ stage' = stage /\ since' = since
    BY <2>1 DEF MoveSeat, Typed, Walked
  <2>3. \A r \in Reviews, s \in Seats : seat'[r][s] = handover.from =>
           seat[r][s] = handover.from /\ (t = <<r, s>> => ~May(t))
    <3>1. /\ t[1] \in Reviews /\ t[2] \in Seats /\ t = <<t[1], t[2]>>
          /\ seat' = IF May(t) /\ seat[t[1]][t[2]] = handover.from
                     THEN [seat EXCEPT ![t[1]][t[2]] = handover.to] ELSE seat
      BY DEF MoveSeat
    <3> QED
      BY <2>2, <3>1 DEF Typed, Row
  <2>4. SeatsLeft'
    <3> SUFFICES ASSUME NEW r \in Reviews, NEW s \in Seats, Open(r)', seat'[r][s] = handover.from,
                        "seats" \notin handover.lost, <<r, "stage">> \notin since
                 PROVE  <<r, s>> \in handover'.todo \cup handover'.named \cup since
      BY <2>1, <2>2 DEF SeatsLeft
    <3>1. Open(r) /\ seat[r][s] = handover.from /\ (t = <<r, s>> => ~May(t))
      BY <2>2, <2>3 DEF Open
    <3>2. <<r, s>> \in handover.todo \cup handover.named \cup since
      BY <2>1, <3>1 DEF Left, SeatsLeft
    <3>3. t = <<r, s>> => seat[t[1]][t[2]] = handover.from
      BY <3>1
    <3> QED
      BY <2>1, <3>1, <3>2, <3>3
  <2> QED
    BY <2>1, <2>4 DEF Left, NamesLeft, ItemLeft, CorrectionLeft, MovedOn
<1>4. CASE Reach
  <2>1. /\ handover.todo = {} /\ handover'.todo = {}
        /\ handover'.from = handover.from /\ handover'.to = handover.to
        /\ handover'.named = handover.named /\ handover'.reach = reachableReviews
        /\ handover'.lost = handover.lost
        /\ \/ handover.phase = "moving" /\ handover'.phase = "items"
           \/ handover.phase = "between" /\ handover'.phase = "corrections"
    BY <1>4, WalkSteps
  <2>2. UNCHANGED <<stage, seat, guests, item, correction, since>>
    BY <1>4 DEF Reach, reviews
  <2>3. SeatsLeft'
    BY <2>1, <2>2 DEF Left, SeatsLeft, MovedOn, Open
  <2>4. ASSUME NEW r \in Reviews, Open(r)', canAccessReviewAs(handover.to, r)', ~Touched(r)'
        PROVE  NamesLeft(r)'
    <3>1. Open(r) /\ canAccessReviewAs(handover.to, r) /\ ~Touched(r)
      BY <2>1, <2>2, <2>4 DEF Open, canAccessReviewAs, InSeat, Touched
    <3>2. NamesLeft(r)
      BY <3>1 DEF Left
    <3>3. handover.from \in {item[r], correction[r]} => r \in reachableReviews
      BY <3>1 DEF reachableReviews
    <3> QED
      BY <2>1, <2>2, <3>2, <3>3 DEF NamesLeft, ItemLeft, CorrectionLeft
  <2> QED
    BY <2>1, <2>3, <2>4 DEF Left
<1>5. CASE MoveItems
  <2>1. /\ handover'.from = handover.from /\ handover'.to = handover.to
        /\ handover'.named = handover.named /\ handover'.todo = handover.todo
        /\ handover'.lost = handover.lost
        /\ handover.phase = "items"
        /\ handover'.phase = "between"
    BY <1>5, WalkSteps
  <2>2. /\ UNCHANGED <<stage, seat, guests, correction, since>> /\ item' = Passed(item)
    BY <1>5 DEF MoveItems
  <2>3. SeatsLeft' /\ MovedOn(handover.phase)
    BY <2>1, <2>2 DEF Left, SeatsLeft, MovedOn, Open
  <2>4. ASSUME NEW r \in Reviews, Open(r)', canAccessReviewAs(handover.to, r)', ~Touched(r)'
        PROVE  NamesLeft(r)'
    <3>1. Open(r) /\ canAccessReviewAs(handover.to, r) /\ ~Touched(r)
      BY <2>1, <2>2, <2>4 DEF Open, canAccessReviewAs, InSeat, Touched
    <3>2. NamesLeft(r)
      BY <3>1 DEF Left
    <3>3. "items" \notin handover.lost /\ item[r] = handover.from => r \in handover.reach
      BY <2>1, <3>2 DEF NamesLeft, ItemLeft
    <3>4. handover.from # handover.to
      BY <2>1 DEF Typed, Walked
    <3>5. "items" \notin handover.lost => item'[r] # handover.from
      BY <2>2, <3>3, <3>4 DEF Passed
    <3>6. ItemLeft(r)'
      BY <2>1, <2>2, <3>2, <3>5 DEF NamesLeft, ItemLeft
    <3>7. CorrectionLeft(r)'
      BY <2>1, <2>2, <3>2, <3>5 DEF NamesLeft, CorrectionLeft
    <3> QED
      BY <3>6, <3>7 DEF NamesLeft, ItemLeft, CorrectionLeft
  <2> QED
    BY <2>1, <2>3, <2>4 DEF Left
<1>6. CASE MoveCorrections
  <2>1. /\ handover'.from = handover.from /\ handover'.to = handover.to
        /\ handover'.named = handover.named /\ handover'.todo = handover.todo
        /\ handover'.lost = handover.lost
        /\ handover.phase = "corrections"
        /\ handover'.phase = "answered"
    BY <1>6, WalkSteps
  <2>2. /\ UNCHANGED <<stage, seat, guests, item, since>> /\ correction' = Passed(correction)
    BY <1>6 DEF MoveCorrections
  <2>3. SeatsLeft' /\ MovedOn(handover.phase)
    BY <2>1, <2>2 DEF Left, SeatsLeft, MovedOn, Open
  <2>4. ASSUME NEW r \in Reviews, Open(r)', canAccessReviewAs(handover.to, r)', ~Touched(r)'
        PROVE  NamesLeft(r)'
    <3>1. Open(r) /\ canAccessReviewAs(handover.to, r) /\ ~Touched(r)
      BY <2>1, <2>2, <2>4 DEF Open, canAccessReviewAs, InSeat, Touched
    <3>2. NamesLeft(r)
      BY <3>1 DEF Left
    <3>3. "corrections" \notin handover.lost /\ correction[r] = handover.from => r \in handover.reach
      BY <2>1, <3>2 DEF NamesLeft, CorrectionLeft
    <3>4. handover.from # handover.to
      BY <2>1 DEF Typed, Walked
    <3>5. "corrections" \notin handover.lost => correction'[r] # handover.from
      BY <2>2, <3>3, <3>4 DEF Passed
    <3>6. ItemLeft(r)'
      BY <2>1, <2>2, <3>2, <3>5 DEF NamesLeft, ItemLeft
    <3>7. CorrectionLeft(r)'
      BY <2>1, <2>2, <3>2, <3>5 DEF NamesLeft, CorrectionLeft
    <3> QED
      BY <3>6, <3>7 DEF NamesLeft, ItemLeft, CorrectionLeft
  <2> QED
    BY <2>1, <2>3, <2>4 DEF Left
<1>7. CASE Answer
  <2>1. handover'.phase = "idle"
    BY <1>7, WalkSteps
  <2> QED
    BY <2>1 DEF Left, SeatsLeft, NamesLeft, ItemLeft, CorrectionLeft, MovedOn
<1>8. CASE \E call \in calls : Update(call)
  <2> PICK call \in calls : Update(call)
    BY <1>8
  <2>1. call.r \in Reviews
    BY Seatings DEF Calls
  <2>2. PICK new \in Row : Seated(call.r, new)
    BY Seatings
  <2>3. UNCHANGED <<guests, item, correction, handover>> /\ \A q \in Reviews : Open(q)' => Open(q)
    BY <2>1 DEF Update, Applies, Open, Typed, Columns
  <2> QED
    BY <2>1, <2>2, <2>3, NamingHeeded, Others
<1>9. CASE \E call \in calls : Transfer(call)
  <2> PICK call \in calls : Transfer(call)
    BY <1>9
  <2>1. call.r \in Reviews
    BY Seatings DEF Calls
  <2>2. PICK new \in Row : Seated(call.r, new)
    BY Seatings
  <2>3. UNCHANGED <<guests, item, correction, handover>> /\ \A q \in Reviews : Open(q)' => Open(q)
    BY <2>1 DEF Transfer, Applies, Open, Typed, Columns
  <2> QED
    BY <2>1, <2>2, <2>3, NamingHeeded, Others
<1>10. CASE \E call \in calls : Begin(call)
  <2> PICK call \in calls : Begin(call)
    BY <1>10
  <2>1. call.r \in Reviews
    BY Seatings DEF Calls
  <2>2. PICK new \in Row : Seated(call.r, new)
    BY Seatings
  <2>3. UNCHANGED <<guests, item, correction, handover>> /\ \A q \in Reviews : Open(q)' => Open(q)
    BY <2>1 DEF Begin, Applies, Open, Typed, Columns
  <2> QED
    BY <2>1, <2>2, <2>3, NamingHeeded, Others
<1>11. CASE \E call \in calls : Stale(call)
  <2>1. Heeded /\ handover' = handover
    BY <1>11 DEF Stale, Heeded, reviews, Open, Touched
  <2> QED
    BY <2>1, Others
<1>12. CASE \E call \in calls : releaseItemsOf(call)
  <2>1. Heeded /\ handover' = handover
    BY <1>12 DEF releaseItemsOf, Heeded, reviews, Open, Touched, Typed, Columns, Noted
  <2> QED
    BY <2>1, Others
<1>13. CASE \E call \in calls : releaseOpenItems(call)
  <2>1. Heeded /\ handover' = handover
    BY <1>13 DEF releaseOpenItems, Heeded, reviews, Open, Touched, Typed, Columns, Noted
  <2> QED
    BY <2>1, Others
<1>14. CASE \E call \in calls : Report(call)
  <2>1. Heeded /\ handover' = handover
    BY <1>14 DEF Report, Heeded, reviews, Open, Touched
  <2> QED
    BY <2>1, Others
<1>15. CASE \E call \in calls : Confirm(call)
  <2>1. Heeded /\ handover' = handover
    BY <1>15 DEF Confirm, Heeded, reviews, Open, Touched
  <2> QED
    BY <2>1, Others
<1>16. CASE \E call \in calls : Reopen(call)
  <2>1. Heeded /\ handover' = handover
    BY <1>16 DEF Reopen, Heeded, reviews, Open, Touched
  <2> QED
    BY <2>1, Others
<1>17. CASE \E u \in Mutable : setUserActive(u)
  <2>1. Heeded /\ handover' = handover
    BY <1>17 DEF setUserActive, Heeded, reviews, Open, Touched
  <2> QED
    BY <2>1, Others
<1>18. CASE \E u \in Mutable, role \in Roles : updateUserRoles(u, role)
  <2>1. Heeded /\ handover' = handover
    BY <1>18 DEF updateUserRoles, Heeded, reviews, Open, Touched
  <2> QED
    BY <2>1, Others
<1>19. CASE \E r \in Reviews, u \in People, v, w \in People \cup {None} : UpdateCheck(u, r, v, w)
  <2>1. Heeded /\ handover' = handover
    BY <1>19 DEF UpdateCheck, Heeded, reviews, Open, Touched, Ask
  <2> QED
    BY <2>1, Others
<1>20. CASE \E r, o \in Reviews, u \in People : copyReview(u, o, r)
  BY <1>20, CopyHeeded, Others DEF copyReview
<1>21. CASE \E r \in Reviews, u \in People, blind \in BOOLEAN : BeginCheck(u, r, blind)
  <2>1. Heeded /\ handover' = handover
    BY <1>21 DEF BeginCheck, Heeded, reviews, Open, Touched, Ask
  <2> QED
    BY <2>1, Others
<1>22. CASE \E r \in Reviews, u \in People, op \in {"report", "confirm", "reopen"}, blind \in BOOLEAN :
               FollowUpCheck(u, r, op, blind)
  <2>1. Heeded /\ handover' = handover
    BY <1>22 DEF FollowUpCheck, Heeded, reviews, Open, Touched, Ask
  <2> QED
    BY <2>1, Others
<1>23. CASE \E r \in Reviews, u, to \in People : bulkAssign(u, r, to)
  <2> PICK r \in Reviews, u \in People, to \in People : bulkAssign(u, r, to)
    BY <1>23
  <2>1. UNCHANGED <<seat, handover>> /\ since' = Noted({<<r, "item">>})
    BY DEF bulkAssign
  <2>2. \A q \in Reviews \ {r} :
           guests'[q] = guests[q] /\ item'[q] = item[q] /\ correction'[q] = correction[q]
    BY DEF bulkAssign, Typed, Columns
  <2>3. \A q \in Reviews : Open(q)' => Open(q)
    BY DEF bulkAssign, Open, Typed, Columns
  <2> QED
    BY <2>1, <2>2, <2>3, NotedHeeded, Others
<1>24. CASE \E r \in Reviews, u, to \in People : createChangeRequest(u, r, to)
  <2> PICK r \in Reviews, u \in People, to \in People : createChangeRequest(u, r, to)
    BY <1>24
  <2>1. UNCHANGED <<seat, handover>> /\ since' = Noted({<<r, "correction">>})
    BY DEF createChangeRequest
  <2>2. \A q \in Reviews \ {r} :
           guests'[q] = guests[q] /\ item'[q] = item[q] /\ correction'[q] = correction[q]
    BY DEF createChangeRequest, Typed, Columns
  <2>3. \A q \in Reviews : Open(q)' => Open(q)
    BY DEF createChangeRequest, Open, Typed, Columns
  <2> QED
    BY <2>1, <2>2, <2>3, NotedHeeded, Others
<1>25. CASE \E r \in Reviews, u, to \in People : addParticipant(u, r, to)
  <2> PICK r \in Reviews, u \in People, to \in People : addParticipant(u, r, to)
    BY <1>25
  <2>1. UNCHANGED <<seat, handover>> /\ since' = Noted({<<r, "guests">>})
    BY DEF addParticipant
  <2>2. \A q \in Reviews \ {r} :
           guests'[q] = guests[q] /\ item'[q] = item[q] /\ correction'[q] = correction[q]
    BY DEF addParticipant, Typed, Columns
  <2>3. \A q \in Reviews : Open(q)' => Open(q)
    BY DEF addParticipant, Open, Typed, Columns
  <2> QED
    BY <2>1, <2>2, <2>3, NotedHeeded, Others
<1>26. CASE \E r \in Reviews, u, to \in People : removeParticipant(u, r, to)
  <2> PICK r \in Reviews, u \in People, to \in People : removeParticipant(u, r, to)
    BY <1>26
  <2>1. UNCHANGED <<seat, handover>> /\ since' = Noted({<<r, "guests">>})
    BY DEF removeParticipant
  <2>2. \A q \in Reviews \ {r} :
           guests'[q] = guests[q] /\ item'[q] = item[q] /\ correction'[q] = correction[q]
    BY DEF removeParticipant, Typed, Columns
  <2>3. \A q \in Reviews : Open(q)' => Open(q)
    BY DEF removeParticipant, Open, Typed, Columns
  <2> QED
    BY <2>1, <2>2, <2>3, NotedHeeded, Others
<1>27. CASE \E r \in Reviews, to \in People : TransferCheck(r, to)
  <2>1. Heeded /\ handover' = handover
    BY <1>27 DEF TransferCheck, Heeded, reviews, Open, Touched, Ask
  <2> QED
    BY <2>1, Others
<1>28. CASE \E r \in Reviews, to \in People : reassignApprover(r, to)
  <2> PICK r \in Reviews, to \in People : reassignApprover(r, to)
    BY <1>28
  <2>1. \E new \in Row : Seated(r, new)
    BY Seatings
  <2>2. UNCHANGED <<guests, item, correction, handover>> /\ \A q \in Reviews : Open(q)' => Open(q)
    BY DEF reassignApprover, Open
  <2> QED
    BY <2>1, <2>2, NamingHeeded, Others
<1>29. CASE \E r \in Reviews, to \in Stages : Advance(r, to)
  <2> PICK r \in Reviews, to \in Stages : Advance(r, to)
    BY <1>29
  <2>1. UNCHANGED <<seat, guests, item, correction, handover>>
    BY DEF Advance
  <2>2. \A q \in Reviews \ {r} : stage'[q] = stage[q]
    BY DEF Advance, Typed, Columns
  <2>3. CASE Open(r)
    <3>1. Heeded
      BY <2>1, <2>2, <2>3 DEF Advance, Heeded, Open, Touched
    <3> QED
      BY <2>1, <3>1, Others
  <2>4. CASE ~Open(r)
    <3>1. since' = Noted({<<r, "stage">>})
      BY <2>4 DEF Advance
    <3>2. \A q \in Reviews : Open(q)' => Open(q) \/ (q = r /\ "stage" = "stage")
      BY <2>2 DEF Open
    <3>3. Heeded
      BY <2>1, <3>1, <3>2, NotedHeeded
    <3> QED
      BY <2>1, <3>3, Others
  <2> QED
    BY <2>3, <2>4
<1>30. CASE \E r \in Reviews : Verify(r)
  <2>1. Heeded /\ handover' = handover
    BY <1>30 DEF Verify, Heeded, reviews, Open, Touched, Typed, Columns, Noted
  <2> QED
    BY <2>1, Others
<1>31. CASE UNCHANGED vars
  <2>1. Heeded /\ handover' = handover
    BY <1>31 DEF vars, Heeded, reviews, Open, Touched
  <2> QED
    BY <2>1, Others
<1>32. CASE \E call \in calls, judged \in BOOLEAN : Decide(call, judged)
  <2> PICK call \in calls, judged \in BOOLEAN : Decide(call, judged)
    BY <1>32
  <2>1. call.r \in Reviews
    BY Seatings DEF Calls
  <2>2. PICK new \in Row : Seated(call.r, new)
    BY Seatings
  <2>3. UNCHANGED <<guests, item, correction, handover>> /\ \A q \in Reviews : Open(q)' => Open(q)
    BY <2>1 DEF Decide, Open, Typed, Columns
  <2> QED
    BY <2>1, <2>2, <2>3, NamingHeeded, Others
<1>33. CASE \E r \in Reviews, u \in People, blind \in BOOLEAN : DecideCheck(u, r, blind)
  <2>1. Heeded /\ handover' = handover
    BY <1>33 DEF DecideCheck, Heeded, reviews, Open, Touched, Ask
  <2> QED
    BY <2>1, Others
<1>34. CASE ListBreaksOff
  <2>1. handover'.phase = "moving" /\ "seats" \in handover'.lost
    BY <1>34, WalkSteps
  <2> QED
    BY <2>1 DEF Left, SeatsLeft, NamesLeft, ItemLeft, CorrectionLeft, MovedOn
<1>35. CASE ReachFails
  <2>1. /\ handover.todo = {} /\ handover'.todo = {}
        /\ handover'.from = handover.from /\ handover'.to = handover.to
        /\ handover'.named = handover.named
        /\ handover'.lost = handover.lost \cup {handover'.phase}
        /\ \/ handover.phase = "moving" /\ handover'.phase = "items"
           \/ handover.phase = "between" /\ handover'.phase = "corrections"
    BY <1>35, WalkSteps
  <2>2. UNCHANGED <<stage, seat, guests, item, correction, since>>
    BY <1>35 DEF ReachFails, reviews
  <2>3. SeatsLeft'
    BY <2>1, <2>2 DEF Left, SeatsLeft, MovedOn, Open
  <2>4. ASSUME NEW r \in Reviews, Open(r)', canAccessReviewAs(handover.to, r)', ~Touched(r)'
        PROVE  NamesLeft(r)'
    <3>1. Open(r) /\ canAccessReviewAs(handover.to, r) /\ ~Touched(r)
      BY <2>1, <2>2, <2>4 DEF Open, canAccessReviewAs, InSeat, Touched
    <3>2. NamesLeft(r)
      BY <3>1 DEF Left
    <3>3. ItemLeft(r)'
      BY <2>1, <2>2, <3>2 DEF NamesLeft, ItemLeft
    <3>4. CorrectionLeft(r)'
      BY <2>1, <2>2, <3>2 DEF NamesLeft, CorrectionLeft
    <3> QED
      BY <3>3, <3>4 DEF NamesLeft, ItemLeft, CorrectionLeft
  <2> QED
    BY <2>1, <2>3, <2>4 DEF Left
<1>36. CASE MoveFails
  <2>1. /\ handover'.from = handover.from /\ handover'.to = handover.to
        /\ handover'.named = handover.named /\ handover'.todo = handover.todo
        /\ handover'.lost = handover.lost \cup {handover.phase}
        /\ \/ handover.phase = "items" /\ handover'.phase = "between"
           \/ handover.phase = "corrections" /\ handover'.phase = "answered"
    BY <1>36, WalkSteps
  <2>2. UNCHANGED <<stage, seat, guests, item, correction, since>>
    BY <1>36 DEF MoveFails, reviews
  <2>3. SeatsLeft' /\ MovedOn(handover.phase)
    BY <2>1, <2>2 DEF Left, SeatsLeft, MovedOn, Open
  <2>4. ASSUME NEW r \in Reviews, Open(r)', canAccessReviewAs(handover.to, r)', ~Touched(r)'
        PROVE  NamesLeft(r)'
    <3>1. Open(r) /\ canAccessReviewAs(handover.to, r) /\ ~Touched(r)
      BY <2>1, <2>2, <2>4 DEF Open, canAccessReviewAs, InSeat, Touched
    <3>2. NamesLeft(r)
      BY <3>1 DEF Left
    <3>3. ItemLeft(r)'
      BY <2>1, <2>2, <3>2 DEF NamesLeft, ItemLeft
    <3>4. CorrectionLeft(r)'
      BY <2>1, <2>2, <3>2 DEF NamesLeft, CorrectionLeft
    <3> QED
      BY <3>3, <3>4 DEF NamesLeft, ItemLeft, CorrectionLeft
  <2> QED
    BY <2>1, <2>3, <2>4 DEF Left
<1>37. CASE \E t \in Reviews \X Seats : SeatFails(t)
  <2> PICK t \in Reviews \X Seats : SeatFails(t)
    BY <1>37
  <2>1. /\ handover.phase = "moving" /\ handover'.phase = "moving"
        /\ handover'.from = handover.from /\ handover'.todo = handover.todo \ {t}
        /\ handover'.named = handover.named \cup {t} /\ handover'.lost = handover.lost
    BY WalkSteps DEF SeatFails
  <2>2. UNCHANGED <<stage, seat, since>>
    BY DEF SeatFails, reviews
  <2>3. SeatsLeft'
    BY <2>1, <2>2 DEF Left, SeatsLeft, Open, MovedOn
  <2> QED
    BY <2>1, <2>3 DEF Left, NamesLeft, ItemLeft, CorrectionLeft, MovedOn
<1> QED
  BY <1>1, <1>2, <1>3, <1>4, <1>5, <1>6, <1>7, <1>8, <1>9, <1>10, <1>11, <1>12, <1>13,
     <1>14, <1>15, <1>16, <1>17, <1>18, <1>19, <1>20, <1>21, <1>22, <1>23, <1>24, <1>25,
     <1>26, <1>27, <1>28, <1>29, <1>30, <1>31, <1>32,
     <1>33, <1>34, <1>35, <1>36, <1>37
     DEF Next, handoverUserWork, Written, OneByOne

(* The types, and what keeps the answer honest, throughout.                  *)
LEMMA LeftAlways == Spec => [](Typed /\ Vacant /\ Left)
<1>1. Init => Vacant /\ Left
  <2> SUFFICES ASSUME Init PROVE Vacant /\ Left
    OBVIOUS
  <2>1. calls = {} /\ handover = Resting
    BY DEF Init
  <2>2. PICK start \in Starts : stage = OfFirst(start.stage, "none") /\ seat = OfFirst(start.seat, Nobody)
    BY DEF Init
  <2>3. start.stage # "none"
    BY AssignmentAssumption
  <2>4. Vacant
    BY <2>1, <2>2, <2>3 DEF Vacant, OfFirst, Nobody
  <2> QED
    BY <2>1, <2>4, RestingWalks DEF Left, SeatsLeft, NamesLeft, ItemLeft, CorrectionLeft, MovedOn
<1>2. Typed /\ Vacant /\ Left /\ [Next]_vars => (Vacant /\ Left)'
  BY VacantKept, LeftKept
<1> QED
  BY <1>1, <1>2, OwnAlways, PTL DEF Spec

(* Whatever falls between its statements, a hand-over's answer names every   *)
(* seat it left with whoever is leaving, and where the successor can open    *)
(* the review it left no item and no correction, unless somebody else        *)
(* changed that review meanwhile or a statement failed and was passed over   *)
(* (handoverUserWork, moveAssignments, reachableReviews).                    *)
THEOREM HandoverTold == Spec => []HandoverAccounts
<1>1. Typed /\ Vacant /\ Left => HandoverAccounts
  BY DEF HandoverAccounts, Left, SeatsLeft, NamesLeft, ItemLeft, CorrectionLeft, MovedOn, Touched
<1> QED
  BY <1>1, LeftAlways, PTL

=============================================================================
