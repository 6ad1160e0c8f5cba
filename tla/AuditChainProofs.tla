--------------------------- MODULE AuditChainProofs ---------------------------
(***************************************************************************)
(* Proofs about AuditChain, for any number of requests and verifications,  *)
(* a chain of any length and any number of edits behind the program's      *)
(* back.  The first invariant, Inv, is about the positions everybody holds *)
(* and needs nothing of what a walk has read; the second adds the rows.    *)
(***************************************************************************)
EXTENDS AuditChain, FiniteSetTheorems, WellFoundedInduction, TLAPS

(* A process carries the fields of a process; its rows may be anything.      *)
Shaped ==
    /\ proc = [p \in Processes |-> proc[p]]
    /\ \A p \in Processes :
          proc[p] \in [phase : Phases, kind : {"event", "console", "full", "sweep"},
                       at : Position, rows : {proc[p].rows}]

OnChain(position) == /\ position.seq \in Nat /\ position.seq <= head.seq
                     /\ position = Written(position.seq)

(* Head, anchor and every place a process holds are points of the chain; who *)
(* holds the lock holds the head, and nobody else does.                      *)
Positions ==
    /\ head.seq \in Nat /\ OnChain(head) /\ OnChain(anchor)
    /\ \A p \in Processes :
          /\ OnChain(proc[p].at)
          /\ proc[p].phase = "locked" => proc[p].at = head
          /\ proc[p].phase = "proved" => OnChain(Proved(proc[p]))
    /\ \A p, q \in Processes :
          proc[p].phase = "locked" /\ proc[q].phase = "locked" => p = q

Linked ==
    /\ edits \in Nat
    /\ edits = 0 => /\ log \in Seq(Row) /\ Len(log) = head.seq
                    /\ \A k \in 1..Len(log) : log[k] = RowAfter(Written(k - 1))

Inv == Shaped /\ Positions /\ Linked

-----------------------------------------------------------------------------
(* Written(n) is a position, and one event takes the chain from it to the    *)
(* next.                                                                     *)
LEMMA WrittenIsPosition ==
    ASSUME NEW n \in Nat
    PROVE  Written(n) \in Position
<1>1. [k \in 1..n |-> "said"] \in Seq(Texts)
  BY DEF Texts
<1> QED
  BY <1>1 DEF Written, Position, Hash

(* Appending to the first n rows that were meant gives the first n + 1.      *)
LEMMA NextWritten ==
    ASSUME NEW n \in Nat
    PROVE  /\ RowAfter(Written(n)) \in Row
           /\ RowAfter(Written(n)).seq = n + 1
           /\ [seq |-> RowAfter(Written(n)).seq, hash |-> RowAfter(Written(n)).hash]
                = Written(n + 1)
<1> DEFINE h == [k \in 1..n |-> "said"]
<1>1. h \in Seq(Texts) /\ Len(h) = n /\ "said" \in Texts
  BY DEF Texts
<1>2. Written(n) = [seq |-> n, hash |-> h]
  BY DEF Written
<1>3. RowAfter(Written(n)) = [seq |-> n + 1, linked |-> h,
                              body |-> [previous |-> h, text |-> "said"],
                              hash |-> Append(h, "said")]
  BY <1>2 DEF RowAfter, Sha
<1>4. Append(h, "said") \in Seq(Texts)
  BY <1>1
<1>5. Append(h, "said") = [k \in 1..(n + 1) |-> "said"]
  <2>1. Len(Append(h, "said")) = n + 1 /\ DOMAIN Append(h, "said") = 1..(n + 1)
    BY <1>1
  <2>2. \A k \in 1..(n + 1) : Append(h, "said")[k] = "said"
    BY <1>1
  <2> QED
    BY <2>1, <2>2, <1>4
<1>6. Written(n + 1) = [seq |-> n + 1, hash |-> Append(h, "said")]
  BY <1>5 DEF Written
<1>7. RowAfter(Written(n)) \in Row
  BY <1>1, <1>3, <1>4 DEF Row, Hash
<1> QED
  BY <1>3, <1>6, <1>7

-----------------------------------------------------------------------------
(* Every statement keeps the invariant.                                      *)
LEMMA Start == Init => Inv
<1> SUFFICES ASSUME Init PROVE Inv
  OBVIOUS
<1>1. Nowhere = Written(0) /\ Nowhere.seq = 0 /\ Nowhere \in Position
  <2>1. [k \in 1..0 |-> "said"] = << >>
    OBVIOUS
  <2> QED
    BY <2>1, WrittenIsPosition DEF Nowhere, Written
<1>2. Resting \in [phase : Phases, kind : {"event", "console", "full", "sweep"},
                   at : Position, rows : {Resting.rows}]
  BY <1>1 DEF Resting, Phases
<1>3. Shaped
  BY <1>2 DEF Init, Shaped
<1>4. Positions
  BY <1>1 DEF Init, Positions, OnChain, Resting
<1>5. Linked
  BY <1>1 DEF Init, Linked
<1> QED
  BY <1>3, <1>4, <1>5 DEF Inv

(* A process takes on a new state and nothing else changes but the anchor.   *)
LEMMA Becoming ==
    ASSUME Inv, NEW p \in Processes, NEW STATE s, Become(p, s),
           s \in [phase : Phases, kind : {"event", "console", "full", "sweep"},
                  at : Position, rows : {s.rows}],
           OnChain(s.at),
           s.phase = "locked" => s.at = head /\ Unlocked,
           s.phase = "proved" => OnChain(Proved(s)),
           OnChain(anchor'),
           UNCHANGED <<log, head, edits>>
    PROVE  Inv'
<1>1. \A q \in Processes : proc'[q] = IF q = p THEN s ELSE proc[q]
  BY DEF Become, Inv, Shaped
<1>2. Shaped'
  BY <1>1 DEF Shaped, Become, Inv
<1>3. (head.seq \in Nat /\ OnChain(head) /\ OnChain(anchor))'
  BY DEF Inv, Positions, OnChain, Written
<1>5. ASSUME NEW q \in Processes
      PROVE  (/\ OnChain(proc[q].at)
              /\ proc[q].phase = "locked" => proc[q].at = head
              /\ proc[q].phase = "proved" => OnChain(Proved(proc[q])))'
  <2>1. CASE q = p
    BY <1>1, <2>1 DEF OnChain, Written, Proved, Before
  <2>2. CASE q # p
    <3>1. proc'[q] = proc[q]
      BY <1>1, <2>2
    <3>2. /\ OnChain(proc[q].at)
          /\ proc[q].phase = "locked" => proc[q].at = head
          /\ proc[q].phase = "proved" => OnChain(Proved(proc[q]))
      BY DEF Inv, Positions
    <3>3. OnChain(proc[q].at)'
      BY <3>1, <3>2 DEF OnChain, Written
    <3>4. Proved(proc[q])' = Proved(proc[q])
      <4> DEFINE At(t) == IF Len(t.rows) + 1 = 1 THEN t.at
                ELSE [seq |-> t.at.seq + (Len(t.rows) + 1) - 1,
                      hash |-> t.rows[(Len(t.rows) + 1) - 1].hash]
      <4>1. Proved(proc[q]) = At(proc[q]) /\ Proved(proc[q])' = At(proc'[q])
        BY Zenon DEF Proved, Before
      <4> HIDE DEF At
      <4> QED
        BY <4>1, <3>1
    <3>5. (proc[q].phase = "proved" => OnChain(Proved(proc[q])))'
      <4>1. ASSUME proc[q].phase = "proved"
            PROVE  OnChain(Proved(proc[q]))'
        BY <4>1, <3>2, <3>4 DEF OnChain, Written
      <4> QED
        BY <4>1, <3>1
    <3> QED
      BY <3>1, <3>2, <3>3, <3>5
  <2> QED
    BY <2>1, <2>2
<1>6. ASSUME NEW q \in Processes, NEW r \in Processes,
             (proc[q].phase = "locked" /\ proc[r].phase = "locked")'
      PROVE  q = r
  BY <1>1, <1>6 DEF Inv, Positions, Unlocked
<1>7. Positions'
  BY <1>3, <1>5, <1>6 DEF Positions
<1>8. Linked'
  BY DEF Inv, Linked, RowAfter, Written, Sha
<1> QED
  BY <1>2, <1>7, <1>8 DEF Inv

(* What Inv says of one process, and of the two marks.                       *)
LEMMA Held ==
    ASSUME Inv, NEW p \in Processes
    PROVE  /\ proc[p] \in [phase : Phases, kind : {"event", "console", "full", "sweep"},
                           at : Position, rows : {proc[p].rows}]
           /\ OnChain(proc[p].at) /\ OnChain(anchor) /\ OnChain(head)
           /\ proc[p].phase = "locked" => proc[p].at = head
           /\ proc[p].phase = "proved" => OnChain(Proved(proc[p]))
BY DEF Inv, Shaped, Positions

(* Whatever lies on the chain has the shape of a position.                   *)
LEMMA OnChainIsPosition ==
    ASSUME NEW STATE x, OnChain(x)
    PROVE  x \in Position
BY WrittenIsPosition DEF OnChain

(* Taking an event in hand, giving up, and going back to rest.               *)
LEMMA Resuming ==
    ASSUME Inv, NEW p \in Processes, NEW phase \in {"idle", "wanting"},
           Become(p, [Resting EXCEPT !.phase = phase]), OnChain(anchor'),
           UNCHANGED <<log, head, edits>>
    PROVE  Inv'
<1> DEFINE s == [Resting EXCEPT !.phase = phase]
<1>1. Nowhere = Written(0) /\ Nowhere.seq = 0
  <2>1. [k \in 1..0 |-> "said"] = << >>
    OBVIOUS
  <2> QED
    BY <2>1 DEF Nowhere, Written
<1>2. OnChain(Nowhere)
  BY <1>1 DEF OnChain, Inv, Positions
<1>3. s.phase = phase /\ s.at = Nowhere
      /\ s \in [phase : Phases, kind : {"event", "console", "full", "sweep"},
                at : Position, rows : {s.rows}]
  BY <1>1, WrittenIsPosition DEF Resting, Phases
<1> HIDE DEF s
<1>4. Become(p, s)
  BY DEF s
<1> QED
  BY <1>2, <1>3, <1>4, Becoming

(* Taking an event in hand, waiting for the lock and giving up keep the invariant. *)
LEMMA Requests ==
    ASSUME Inv, NEW p \in Processes, Record(p) \/ Lock(p) \/ Leave(p)
    PROVE  Inv'
<1>1. OnChain(anchor) /\ (anchor' = anchor /\ head' = head => OnChain(anchor'))
  BY Held DEF OnChain, Written
<1>2. CASE Record(p)
  BY <1>1, <1>2, Resuming DEF Record
<1>3. CASE Leave(p)
  <2>1. Resting = [Resting EXCEPT !.phase = "idle"]
    BY DEF Resting
  <2> QED
    BY <1>1, <1>3, <2>1, Resuming DEF Leave
<1>4. CASE Lock(p)
  <2> DEFINE s == [proc[p] EXCEPT !.phase = "locked", !.at = head]
  <2>1. OnChain(head) /\ head \in Position
    BY Held, OnChainIsPosition
  <2>2. /\ s.phase = "locked" /\ s.at = head
        /\ s \in [phase : Phases, kind : {"event", "console", "full", "sweep"},
                  at : Position, rows : {s.rows}]
    BY <2>1, Held DEF Phases
  <2> HIDE DEF s
  <2>3. Become(p, s) /\ Unlocked /\ UNCHANGED <<log, head, edits>> /\ OnChain(anchor')
    BY <1>1, <1>4 DEF Lock, s
  <2> QED
    BY <2>1, <2>2, <2>3, Becoming
<1> QED
  BY <1>2, <1>3, <1>4

(* A verification: only what ended at the head of the log is marked.         *)
LEMMA Verifications ==
    ASSUME Inv, NEW p \in Processes,
           \/ \E kind \in Kinds : Verify(p, kind)
           \/ Walk(p) \/ Judge(p) \/ Mark(p) \/ NotMarked(p)
    PROVE  Inv'
<1>1. /\ OnChain(anchor) /\ OnChain(head) /\ OnChain(proc[p].at)
      /\ proc[p] \in [phase : Phases, kind : {"event", "console", "full", "sweep"},
                      at : Position, rows : {proc[p].rows}]
  BY Held
<1>2. ASSUME anchor' = anchor
      PROVE  OnChain(anchor')
  BY <1>1, <1>2
<1>3. OnChain(Nowhere)
  <2>1. [k \in 1..0 |-> "said"] = << >>
    OBVIOUS
  <2> QED
    BY <2>1 DEF Nowhere, Written, OnChain, Inv, Positions
<1>4. ASSUME NEW kind \in Kinds, Verify(p, kind)
      PROVE  Inv'
  <2> DEFINE at == IF kind = "full" THEN Nowhere ELSE anchor
             s == [Resting EXCEPT !.phase = "anchored", !.kind = kind, !.at = at]
  <2>1. OnChain(at)
    BY <1>1, <1>3
  <2>2. at \in Position
    BY <2>1, OnChainIsPosition
  <2>3. Become(p, s) /\ OnChain(anchor') /\ UNCHANGED <<log, head, edits>>
    BY <1>2, <1>4 DEF Verify
  <2> HIDE DEF at
  <2>4. /\ s.phase = "anchored" /\ s.at = at
        /\ s \in [phase : Phases, kind : {"event", "console", "full", "sweep"},
                  at : Position, rows : {s.rows}]
    BY <2>2, AuditAssumption DEF Resting, Phases
  <2> HIDE DEF s
  <2> QED
    BY <2>1, <2>3, <2>4, Becoming
<1>5. CASE Walk(p)
  <2> DEFINE rows == After(proc[p].at.seq)
             s == [proc[p] EXCEPT !.phase = "walked", !.rows = rows]
  <2>1. Become(p, s) /\ OnChain(anchor') /\ UNCHANGED <<log, head, edits>>
    BY <1>2, <1>5 DEF Walk
  <2> HIDE DEF rows
  <2>2. /\ s.phase = "walked" /\ s.at = proc[p].at
        /\ s \in [phase : Phases, kind : {"event", "console", "full", "sweep"},
                  at : Position, rows : {s.rows}]
    BY <1>1 DEF Phases
  <2> HIDE DEF s
  <2> QED
    BY <1>1, <2>1, <2>2, Becoming
<1>6. CASE Judge(p)
  <2> DEFINE phase == IF Follows(proc[p]) /\ EndsAtHead(proc[p])
                      THEN "proved" ELSE "alarm"
             s == [proc[p] EXCEPT !.phase = phase]
  <2>1. Become(p, s) /\ OnChain(anchor') /\ UNCHANGED <<log, head, edits>>
    BY <1>2, <1>6 DEF Judge
  <2>2. phase \in {"proved", "alarm"} /\ (phase = "proved" => EndsAtHead(proc[p]))
    OBVIOUS
  <2> HIDE DEF phase
  <2>3. /\ s.phase = phase /\ s.at = proc[p].at /\ s.rows = proc[p].rows
        /\ s \in [phase : Phases, kind : {"event", "console", "full", "sweep"},
                  at : Position, rows : {s.rows}]
    BY <1>1, <2>2 DEF Phases
  <2> HIDE DEF s
  <2>4. Proved(s) = Proved(proc[p])
    BY <2>3 DEF Proved, Before
  <2>5. s.phase = "proved" => Proved(s) = head
    BY <2>2, <2>3, <2>4 DEF EndsAtHead, Proved
  <2> QED
    BY <1>1, <2>1, <2>2, <2>3, <2>5, Becoming
<1>7. CASE Mark(p) \/ NotMarked(p)
  <2>1. OnChain(anchor')
    <3>1. OnChain(Proved(proc[p]))
      BY <1>7, Held DEF Mark, NotMarked
    <3> QED
      BY <1>1, <1>7, <3>1 DEF Mark, NotMarked
  <2>2. PICK phase \in {"idle", "wanting"} :
          AfterMark(proc[p]) = [Resting EXCEPT !.phase = phase]
    BY DEF AfterMark, Resting
  <2>3. /\ Become(p, [Resting EXCEPT !.phase = phase])
        /\ UNCHANGED <<log, head, edits>>
    BY <1>7, <2>2 DEF Mark, NotMarked
  <2> QED
    BY <2>1, <2>3, Resuming
<1> QED
  BY <1>4, <1>5, <1>6, <1>7

(* An event is committed by the one process that holds the lock, so what it  *)
(* read is the head: the chain grows by exactly one row.                     *)
LEMMA Committing ==
    ASSUME Inv, NEW p \in Processes, Commit(p)
    PROVE  Inv'
<1> DEFINE n == head.seq
<1>1. n \in Nat /\ head = Written(n) /\ proc[p].at = head /\ proc[p].phase = "locked"
  BY Held DEF Commit, OnChain
<1>2. /\ log' = Append(log, RowAfter(Written(n)))
      /\ head' = Written(n + 1)
      /\ proc' = [proc EXCEPT ![p] = Resting]
      /\ anchor' = anchor /\ edits' = edits
  BY <1>1, NextWritten DEF Commit, Become
<1>3. head'.seq = n + 1 /\ RowAfter(Written(n)) \in Row
  BY <1>1, <1>2, NextWritten DEF Written
<1>4. OnChain(head)' /\ OnChain(anchor)' /\ OnChain(Nowhere)' /\ Nowhere \in Position
  <2>1. [k \in 1..0 |-> "said"] = << >>
    OBVIOUS
  <2>2. Nowhere = Written(0) /\ Nowhere.seq = 0 /\ Nowhere \in Position
    BY <2>1, WrittenIsPosition DEF Nowhere, Written
  <2>3. OnChain(Nowhere)'
    BY <1>1, <1>3, <2>2 DEF OnChain, Written
  <2>4. OnChain(head)'
    BY <1>1, <1>2, <1>3 DEF OnChain
  <2>5. OnChain(anchor)'
    <3>1. OnChain(anchor) /\ anchor' = anchor /\ head.seq <= head'.seq
          /\ head.seq \in Nat /\ head'.seq \in Nat
      BY Held, <1>1, <1>2, <1>3
    <3> QED
      BY <3>1 DEF OnChain, Written
  <2> QED
    BY <2>2, <2>3, <2>4, <2>5
<1>5. \A q \in Processes : proc'[q] = IF q = p THEN Resting ELSE proc[q]
  BY <1>2 DEF Inv, Shaped
<1>6. Shaped'
  <2>1. Resting \in [phase : Phases, kind : {"event", "console", "full", "sweep"},
                     at : Position, rows : {Resting.rows}]
    BY <1>4 DEF Resting, Phases
  <2> QED
    BY <1>2, <1>5, <2>1 DEF Shaped, Inv
<1>7. ASSUME NEW q \in Processes
      PROVE  (/\ OnChain(proc[q].at)
              /\ proc[q].phase # "locked"
              /\ proc[q].phase = "proved" => OnChain(Proved(proc[q])))'
  <2>1. CASE q = p
    <3>1. proc'[q].phase = "idle" /\ proc'[q].at = Nowhere
      BY <1>5, <2>1 DEF Resting
    <3>2. OnChain(proc[q].at)'
      BY <3>1, <1>4 DEF OnChain, Written, Nowhere
    <3> QED
      BY <3>1, <3>2
  <2>2. CASE q # p
    <3>1. proc'[q] = proc[q] /\ proc[q].phase # "locked"
      BY <1>1, <1>5, <2>2 DEF Inv, Positions
    <3>2. OnChain(proc[q].at)'
      <4>1. OnChain(proc[q].at) /\ (proc[q].at)' = proc[q].at /\ head.seq <= head'.seq
            /\ head.seq \in Nat /\ head'.seq \in Nat
        BY <3>1, <1>1, <1>3, Held
      <4> QED
        BY <4>1 DEF OnChain, Written
    <3>3. Proved(proc[q])' = Proved(proc[q])
      <4> DEFINE At(t) == IF Len(t.rows) + 1 = 1 THEN t.at
                ELSE [seq |-> t.at.seq + (Len(t.rows) + 1) - 1,
                      hash |-> t.rows[(Len(t.rows) + 1) - 1].hash]
      <4>1. Proved(proc[q]) = At(proc[q]) /\ Proved(proc[q])' = At(proc'[q])
        BY Zenon DEF Proved, Before
      <4> HIDE DEF At
      <4> QED
        BY <4>1, <3>1
    <3>4. (proc[q].phase = "proved" => OnChain(Proved(proc[q])))'
      <4>1. ASSUME proc[q].phase = "proved"
            PROVE  OnChain(Proved(proc[q]))'
        <5>1. OnChain(Proved(proc[q])) /\ head.seq <= head'.seq
              /\ head.seq \in Nat /\ head'.seq \in Nat
          BY <4>1, <1>1, <1>3, Held
        <5> QED
          BY <3>3, <5>1 DEF OnChain, Written
      <4> QED
        BY <4>1, <3>1
    <3> QED
      BY <3>1, <3>2, <3>4
  <2> QED
    BY <2>1, <2>2
<1>8. Positions'
  BY <1>1, <1>3, <1>4, <1>7 DEF Positions
<1>9. Linked'
  <2>1. CASE edits = 0
    <3>1. /\ log \in Seq(Row) /\ Len(log) = n
          /\ \A k \in 1..n : log[k] = RowAfter(Written(k - 1))
      BY <2>1 DEF Inv, Linked
    <3>2. log' \in Seq(Row) /\ Len(log') = n + 1
      BY <1>2, <1>3, <3>1
    <3>3. ASSUME NEW k \in 1..(n + 1)
          PROVE  log'[k] = RowAfter(Written(k - 1))
      <4>1. CASE k = n + 1
        BY <1>1, <1>2, <3>1, <4>1
      <4>2. CASE k # n + 1
        BY <1>1, <1>2, <3>1, <4>2
      <4> QED
        BY <4>1, <4>2
    <3> QED
      BY <1>2, <1>3, <2>1, <3>2, <3>3 DEF Linked, RowAfter, Written, Sha
  <2>2. CASE edits # 0
    BY <1>2, <2>2 DEF Linked, Inv
  <2> QED
    BY <2>1, <2>2
<1> QED
  BY <1>6, <1>8, <1>9 DEF Inv

(* Nothing but the rows changes in an edit, and from then on Linked says     *)
(* nothing of them.                                                          *)
LEMMA Editing ==
    ASSUME Inv, Edit \/ UNCHANGED vars
    PROVE  Inv'
<1>1. head' = head /\ anchor' = anchor /\ proc' = proc
  BY DEF Edit, vars
<1>2. Shaped'
  BY <1>1 DEF Inv, Shaped
<1>3. Positions'
  BY <1>1 DEF Inv, Positions, OnChain, Written, Proved, Before, Phases
<1>4. Linked'
  <2>1. CASE Edit
    <3>1. edits' = edits + 1 /\ edits \in Nat
      BY <2>1 DEF Edit, Inv, Linked
    <3> QED
      BY <3>1 DEF Linked
  <2>2. CASE UNCHANGED vars
    BY <2>2 DEF vars, Inv, Linked, RowAfter, Written, Sha
  <2> QED
    BY <2>1, <2>2
<1> QED
  BY <1>2, <1>3, <1>4 DEF Inv

(* Every step keeps the invariant.                                           *)
LEMMA Kept == Inv /\ [Next]_vars => Inv'
BY Requests, Verifications, Committing, Editing DEF Next

-----------------------------------------------------------------------------
(* However many requests append at once, for however long and beside however *)
(* many verifications, the log is the unbroken chain of what they recorded   *)
(* and the head is its last link (appendAudit).                              *)
THEOREM ChainTold == Spec => []ChainUnbroken
<1>1. Inv => ChainUnbroken
  <2> SUFFICES ASSUME Inv, edits = 0
               PROVE  /\ head = Written(Len(log))
                      /\ \A k \in DOMAIN log : log[k] = RowAfter(Written(k - 1))
    BY DEF ChainUnbroken
  <2> QED
    BY DEF Inv, Positions, OnChain, Linked
<1> QED
  BY Start, Kept, <1>1, PTL DEF Spec

(* Whatever happened to the rows meanwhile, verification resumes from a point *)
(* the chain went through (MarkAuditChainVerified).                           *)
THEOREM AnchorTold == Spec => []AnchorOnChain
<1>1. Inv => AnchorOnChain
  BY DEF Inv, Positions, OnChain, AnchorOnChain
<1> QED
  BY Start, Kept, <1>1, PTL DEF Spec

-----------------------------------------------------------------------------
(* What a walk has read.                                                     *)

(* A row that was linked when it was written and whose link nobody edited.   *)
LinkedRow == {row \in Row : row.body.previous = row.linked}

Intact(s) == \A k \in DOMAIN s.rows : s.rows[k] = RowAfter(Written(s.at.seq + k - 1))

(* The rows stay in the order of their numbers, none beyond the head.        *)
Ordered ==
    /\ \A k \in 1..Len(log) : log[k].seq \in 1..head.seq
    /\ \A j, k \in 1..Len(log) : j < k => log[j].seq < log[k].seq

Reads ==
    /\ log \in Seq(LinkedRow)
    /\ \A p \in Processes :
          /\ proc[p].rows \in Seq(LinkedRow)
          /\ proc[p].phase = "proved" => Intact(proc[p])

(* A nonempty set of numbers has a least one: what induction on a number     *)
(* comes to here.                                                            *)
Less == {pair \in Nat \X Nat : pair[1] < pair[2]}

LEMMA LeastNumber ==
    ASSUME NEW T \in SUBSET Nat, T # {}
    PROVE  \E x \in T : \A y \in T : x <= y
<1>1. IsWellFoundedOn(Less, Nat)
  BY NatLessThanWellFounded DEF OpToRel, Less
<1>2. PICK x \in T : \A y \in T : ~ (<<y, x>> \in Less)
  BY <1>1, WFMin
<1>3. \A y \in T : y < x => <<y, x>> \in Less
  BY DEF Less
<1>4. \A y \in T : x \in Nat /\ y \in Nat /\ ~ (y < x)
  BY <1>2, <1>3
<1> QED
  BY <1>4

LEMMA RowAfterIsLinked ==
    ASSUME NEW STATE position, position \in Position
    PROVE  RowAfter(position) \in LinkedRow /\ RowAfter(position).seq = position.seq + 1
<1> DEFINE h == position.hash
           body == [previous |-> h, text |-> "said"]
<1>1. h \in Seq(Texts) /\ "said" \in Texts /\ position.seq \in Nat
  BY DEF Position, Hash, Texts
<1>2. Append(h, "said") \in Seq(Texts)
  BY <1>1
<1>3. RowAfter(position) = [seq |-> position.seq + 1, linked |-> h, body |-> body,
                            hash |-> Append(h, "said")]
  BY DEF RowAfter, Sha
<1> QED
  BY <1>1, <1>2, <1>3 DEF LinkedRow, Row, Hash

(* An edit changes the text, with or without the hash, and neither the       *)
(* number nor the link.                                                      *)
LEMMA EditedStaysLinked ==
    ASSUME NEW STATE row, row \in LinkedRow
    PROVE  LET body == [row.body EXCEPT !.text = "edited"]
           IN  /\ [row EXCEPT !.body = body] \in LinkedRow
               /\ [row EXCEPT !.body = body, !.hash = Sha(body)] \in LinkedRow
               /\ [row EXCEPT !.body = body].seq = row.seq
               /\ [row EXCEPT !.body = body, !.hash = Sha(body)].seq = row.seq
<1> DEFINE body == [row.body EXCEPT !.text = "edited"]
<1>1. /\ row = [seq |-> row.seq, linked |-> row.linked, body |-> row.body,
                hash |-> row.hash]
      /\ row.seq \in Nat /\ row.linked \in Hash /\ row.hash \in Hash
      /\ row.body \in [previous : Hash, text : Texts] /\ row.body.previous = row.linked
  BY DEF LinkedRow, Row
<1>2. /\ body \in [previous : Hash, text : Texts] /\ body.previous = row.linked
      /\ body.text = "edited"
  BY <1>1 DEF Texts
<1> HIDE DEF body
<1>3. Sha(body) \in Hash
  BY <1>1, <1>2 DEF Sha, Hash, Texts
<1>4. [row EXCEPT !.body = body] = [seq |-> row.seq, linked |-> row.linked,
                                    body |-> body, hash |-> row.hash]
  BY <1>1
<1>5. [row EXCEPT !.body = body, !.hash = Sha(body)]
         = [seq |-> row.seq, linked |-> row.linked, body |-> body, hash |-> Sha(body)]
  <2> DEFINE hash == Sha(body)
             edited == [row EXCEPT !.body = body]
  <2>1. [row EXCEPT !.body = body, !.hash = hash] = [edited EXCEPT !.hash = hash]
    OBVIOUS
  <2>2. edited = [seq |-> row.seq, linked |-> row.linked, body |-> body,
                  hash |-> row.hash]
    BY <1>4
  <2> HIDE DEF hash, edited
  <2>3. [edited EXCEPT !.hash = hash]
           = [seq |-> row.seq, linked |-> row.linked, body |-> body, hash |-> hash]
    BY <2>2
  <2> QED
    BY <2>1, <2>3 DEF hash
<1>6. /\ [row EXCEPT !.body = body] \in LinkedRow
      /\ [row EXCEPT !.body = body].seq = row.seq
  BY <1>1, <1>2, <1>4 DEF LinkedRow, Row
<1>7. /\ [row EXCEPT !.body = body, !.hash = Sha(body)] \in LinkedRow
      /\ [row EXCEPT !.body = body, !.hash = Sha(body)].seq = row.seq
  BY <1>1, <1>2, <1>3, <1>5 DEF LinkedRow, Row
<1> QED
  BY <1>6, <1>7 DEF body

(* The walk reads rows of the log ...                                        *)
LEMMA CountedUpTo ==
    ASSUME log \in Seq(LinkedRow), NEW n \in Nat
    PROVE  Cardinality(UpTo(n)) \in Nat
<1>1. IsFiniteSet(1..Len(log)) /\ UpTo(n) \in SUBSET (1..Len(log))
  BY FS_Interval DEF UpTo
<1>2. IsFiniteSet(UpTo(n))
  BY <1>1, FS_Subset
<1> QED
  BY <1>2, FS_CardinalityType

LEMMA RowsAfter ==
    ASSUME log \in Seq(LinkedRow), NEW n \in Nat
    PROVE  After(n) \in Seq(LinkedRow)
<1> DEFINE first == 1 + Cardinality(UpTo(n))
<1>1. first \in Nat /\ first >= 1
  <2>1. Cardinality(UpTo(n)) \in Nat
    BY CountedUpTo
  <2> QED
    BY <2>1
<1> HIDE DEF first
<1>2. After(n) = SubSeq(log, first, Len(log))
  BY DEF After, first
<1>3. \A k \in first..Len(log) : log[k] \in LinkedRow
  BY <1>1
<1> QED
  BY <1>1, <1>2, <1>3

(* ... namely all those behind the number it starts from.                    *)
LEMMA TailRead ==
    ASSUME log \in Seq(LinkedRow), Ordered, NEW n \in Nat
    PROVE  \E first \in Nat \ {0} :
              /\ After(n) = SubSeq(log, first, Len(log))
              /\ \A k \in 1..Len(log) : log[k].seq > n <=> k >= first
<1> DEFINE later == {k \in 1..(Len(log) + 1) : k = Len(log) + 1 \/ log[k].seq > n}
<1>1. later \in SUBSET Nat /\ later # {}
  <2>1. Len(log) + 1 \in later
    OBVIOUS
  <2> QED
    BY <2>1
<1>2. PICK first \in later : \A k \in later : first <= k
  <2> HIDE DEF later
  <2> QED
    BY <1>1, LeastNumber
<1>3. \A k \in 1..Len(log) : log[k].seq \in Nat
  BY DEF LinkedRow, Row
<1>4. ASSUME NEW k \in 1..Len(log)
      PROVE  log[k].seq > n <=> k >= first
  <2>1. CASE k < first
    <3>1. k \notin later
      BY <1>2, <2>1
    <3> QED
      BY <2>1, <3>1
  <2>2. CASE k = first
    BY <1>2, <2>2
  <2>3. CASE k > first
    <3>1. log[first].seq > n /\ log[first].seq < log[k].seq /\ first \in 1..Len(log)
      BY <1>2, <2>3 DEF Ordered
    <3> QED
      BY <1>3, <2>3, <3>1
  <2> QED
    BY <2>1, <2>2, <2>3
<1>5. UpTo(n) = 1..(first - 1)
  BY <1>2, <1>3, <1>4 DEF UpTo
<1>6. Cardinality(UpTo(n)) = first - 1
  <2>1. first - 1 \in Nat
    BY <1>2
  <2> QED
    BY <1>5, <2>1, FS_Interval
<1>7. After(n) = SubSeq(log, first, Len(log))
  <2>1. 1 + Cardinality(UpTo(n)) = first
    BY <1>2, <1>6
  <2> QED
    BY <2>1 DEF After
<1> QED
  BY <1>2, <1>4, <1>7

(* A walk whose rows follow one another and end at the head read them as     *)
(* they were written.  The last hash is the head's; a hash says which text   *)
(* and which hash it was computed over, so from the last row to the first    *)
(* each hash is the one that was written.                                    *)
Said(m) == [j \in 1..m |-> "said"]

LEMMA SaidOnce ==
    ASSUME NEW m \in Nat
    PROVE  Said(m) \in Seq(Texts) /\ Len(Said(m)) = m /\ Said(m + 1) = Append(Said(m), "said")
<1>1. Said(m) \in Seq(Texts) /\ Len(Said(m)) = m
  BY DEF Said, Texts
<1>2. /\ Append(Said(m), "said") \in [1..(m + 1) -> Texts]
      /\ \A j \in 1..(m + 1) : Append(Said(m), "said")[j] = "said"
  <2>1. \A j \in 1..m : Said(m)[j] = "said"
    BY DEF Said
  <2>2. /\ "said" \in Texts
        /\ Append(Said(m), "said") \in Seq(Texts) /\ Len(Append(Said(m), "said")) = m + 1
        /\ \A j \in 1..m : Append(Said(m), "said")[j] = Said(m)[j]
        /\ Append(Said(m), "said")[m + 1] = "said"
    BY <1>1 DEF Texts
  <2>3. Append(Said(m), "said") \in [1..(m + 1) -> Texts]
    <3> DEFINE e == Append(Said(m), "said")
    <3>1. e \in Seq(Texts) /\ Len(e) = m + 1 /\ m + 1 \in Nat
      BY <2>2
    <3> HIDE DEF e
    <3>2. e \in [1..(m + 1) -> Texts]
      BY <3>1
    <3> QED
      BY <3>2 DEF e
  <2>4. ASSUME NEW j \in 1..(m + 1)
        PROVE  Append(Said(m), "said")[j] = "said"
    <3>1. j \in 1..m \/ j = m + 1
      OBVIOUS
    <3> QED
      BY <2>1, <2>2, <3>1
  <2> QED
    BY <2>3, <2>4
<1>3. Said(m + 1) = Append(Said(m), "said")
  BY <1>2 DEF Said
<1> QED
  BY <1>1, <1>3

LEMMA SaidBefore ==
    ASSUME NEW m \in Nat, NEW h \in Seq(Texts), NEW text \in Texts,
           Append(h, text) = Said(m + 1)
    PROVE  h = Said(m) /\ text = "said"
<1>1. Append(h, text) = Append(Said(m), "said") /\ Said(m) \in Seq(Texts) /\ Len(Said(m)) = m
  BY SaidOnce
<1>2. Len(h) = m
  BY <1>1 DEF Texts
<1>3. text = "said"
  BY <1>1, <1>2 DEF Texts
<1>4. h \in [1..m -> Texts] /\ \A j \in 1..m : h[j] = Append(h, text)[j]
  BY <1>2
<1>5. \A j \in 1..m : Append(h, text)[j] = "said"
  BY DEF Said
<1>6. h = Said(m)
  BY <1>4, <1>5 DEF Said
<1> QED
  BY <1>3, <1>6

(* A row that follows its predecessor and whose hash is as it was written is *)
(* itself as it was written, and so is the hash it links to.                 *)
LEMMA RowAsWritten ==
    ASSUME NEW STATE row, row \in LinkedRow, NEW m \in Nat,
           row.seq = m + 1, Sha(row.body) = row.hash, row.hash = Said(m + 1)
    PROVE  row.linked = Said(m) /\ row = RowAfter(Written(m))
<1>1. /\ row.body.previous \in Seq(Texts) /\ row.body.text \in Texts
      /\ row.body = [previous |-> row.body.previous, text |-> row.body.text]
      /\ row.body.previous = row.linked
      /\ row = [seq |-> row.seq, linked |-> row.linked, body |-> row.body, hash |-> row.hash]
  BY DEF LinkedRow, Row, Hash
<1>2. Append(row.body.previous, row.body.text) = Said(m + 1)
  BY DEF Sha
<1>3. row.body.previous = Said(m) /\ row.body.text = "said"
  BY <1>1, <1>2, SaidBefore
<1>4. Written(m) = [seq |-> m, hash |-> Said(m)]
  BY DEF Written, Said
<1> DEFINE h == Said(m)
<1>5. Append(h, "said") = Said(m + 1)
  BY SaidOnce
<1> HIDE DEF h
<1>6. RowAfter([seq |-> m, hash |-> h])
         = [seq |-> m + 1, linked |-> h, body |-> [previous |-> h, text |-> "said"],
            hash |-> Append(h, "said")]
  BY DEF RowAfter, Sha
<1> QED
  BY <1>1, <1>3, <1>4, <1>5, <1>6 DEF h

LEMMA FollowedToTheHead ==
    ASSUME NEW STATE s, s.rows \in Seq(LinkedRow), s.at.seq \in Nat,
           Follows(s), EndsAtHead(s), head.seq \in Nat, head = Written(head.seq)
    PROVE  Intact(s)
<1> DEFINE n == Len(s.rows)
           a == s.at.seq
           Right(k) == k > 0 => s.rows[k].hash = Said(a + k)
           wrong == {j \in 0..n : \E k \in 0..n : j + k = n /\ ~ Right(k)}
<1>1. n \in Nat /\ a \in Nat
  OBVIOUS
<1>2. Right(n)
  <2>1. CASE n = 0
    BY <2>1
  <2>2. CASE n > 0
    <3>1. head = [seq |-> s.at.seq + (n + 1) - 1, hash |-> s.rows[(n + 1) - 1].hash]
      BY <1>1, <2>2 DEF EndsAtHead, Before
    <3>2. (n + 1) - 1 = n /\ head.seq = a + n /\ head.hash = s.rows[n].hash
      BY <1>1, <3>1
    <3>3. head.hash = Said(head.seq)
      BY DEF Written, Said
    <3> QED
      BY <3>2, <3>3
  <2> QED
    BY <1>1, <2>1, <2>2
<1>3. ASSUME NEW k \in 1..n, Right(k)
      PROVE  /\ s.rows[k] = RowAfter(Written(a + k - 1))
             /\ \A i \in 0..n : i + 1 = k => Right(i)
  <2> DEFINE m == a + k - 1
  <2>1. m \in Nat /\ m + 1 = a + k
    BY <1>1
  <2>2. s.rows[k] \in LinkedRow /\ s.rows[k].hash = Said(m + 1)
    BY <1>1, <1>3, <2>1
  <2>3. /\ s.rows[k].linked = Before(s, k).hash
        /\ s.rows[k].seq = Before(s, k).seq + 1
        /\ Sha(s.rows[k].body) = s.rows[k].hash
    BY DEF Follows
  <2>4. s.rows[k].seq = m + 1
    BY <1>1, <2>3 DEF Before
  <2> HIDE DEF m
  <2>5. s.rows[k].linked = Said(m) /\ s.rows[k] = RowAfter(Written(m))
    BY <2>1, <2>2, <2>3, <2>4, RowAsWritten
  <2>6. ASSUME NEW i \in 0..n, i + 1 = k, i > 0
        PROVE  s.rows[i].hash = Said(a + i)
    <3>1. a + i = m /\ k - 1 = i /\ k # 1
      BY <1>1, <2>6 DEF m
    <3>2. Before(s, k).hash = s.rows[i].hash
      BY <3>1 DEF Before
    <3> QED
      BY <2>3, <2>5, <3>1, <3>2
  <2> QED
    BY <2>5, <2>6 DEF m
<1>4. \A k \in 1..n : Right(k)
  <2> SUFFICES ASSUME wrong # {} PROVE FALSE
    <3> SUFFICES ASSUME NEW k \in 1..n, ~ Right(k) PROVE wrong # {}
      OBVIOUS
    <3>1. n - k \in 0..n /\ k \in 0..n /\ (n - k) + k = n
      BY <1>1
    <3> HIDE DEF Right
    <3>2. n - k \in wrong
      BY <3>1
    <3> QED
      BY <3>2
  <2> HIDE DEF Right
  <2>1. wrong \in SUBSET Nat /\ wrong \subseteq 0..n
    BY <1>1
  <2>2. PICK j \in wrong : \A i \in wrong : j <= i
    <3> HIDE DEF wrong
    <3> QED
      BY <2>1, LeastNumber
  <2>3. PICK k \in 0..n : j + k = n /\ ~ Right(k)
    OBVIOUS
  <2>4. k # n
    BY <1>2, <2>3
  <2>5. k + 1 \in 1..n /\ j - 1 \in 0..n /\ (j - 1) + (k + 1) = n
    <3>1. j \in 0..n
      BY <2>1
    <3> HIDE DEF wrong, n
    <3> QED
      BY <1>1, <2>3, <2>4, <3>1
  <2>6. Right(k + 1)
    <3>1. j - 1 \notin wrong
      <4>1. j \in Nat /\ ~ (j <= j - 1)
        BY <2>1
      <4> HIDE DEF wrong
      <4> QED
        BY <2>2, <4>1
    <3> QED
      BY <2>5, <3>1
  <2>7. Right(k)
    BY <1>3, <2>5, <2>6
  <2> QED
    BY <2>3, <2>7
<1>5. \A k \in 1..n : s.rows[k] = RowAfter(Written(a + k - 1))
  <2> HIDE DEF Right
  <2> QED
    BY <1>3, <1>4
<1> QED
  BY <1>5 DEF Intact

-----------------------------------------------------------------------------
(* Every statement keeps what is said of the rows.                           *)
LEMMA RestingReadsNothing ==
    ASSUME NEW phase \in {"idle", "wanting"}
    PROVE  /\ Resting.rows \in Seq(LinkedRow) /\ Resting.phase = "idle"
           /\ [Resting EXCEPT !.phase = phase].rows \in Seq(LinkedRow)
           /\ [Resting EXCEPT !.phase = phase].phase # "proved"
BY DEF Resting

LEMMA StartRows == Init => Reads /\ Ordered
<1> SUFFICES ASSUME Init PROVE Reads /\ Ordered
  OBVIOUS
<1>1. log = << >> /\ \A p \in Processes : proc[p] = Resting
  BY DEF Init
<1>2. Resting.rows = << >> /\ Resting.phase = "idle"
  BY DEF Resting
<1>3. << >> \in Seq(LinkedRow) /\ Len(<< >>) = 0
  OBVIOUS
<1>4. Reads
  BY <1>1, <1>2, <1>3 DEF Reads
<1>5. Ordered
  BY <1>1, <1>3 DEF Ordered
<1> QED
  BY <1>4, <1>5

LEMMA RowsOnBecoming ==
    ASSUME Inv, Reads, NEW p \in Processes, NEW STATE s, Become(p, s),
           s.rows \in Seq(LinkedRow), s.phase = "proved" => Intact(s),
           log' \in Seq(LinkedRow)
    PROVE  Reads'
<1>1. \A q \in Processes : proc'[q] = IF q = p THEN s ELSE proc[q]
  BY DEF Become, Inv, Shaped
<1>2. ASSUME NEW q \in Processes
      PROVE  /\ proc'[q].rows \in Seq(LinkedRow)
             /\ proc'[q].phase = "proved" => Intact(proc'[q])
  BY <1>1 DEF Reads
<1>3. \A q \in Processes : Intact(proc'[q]) => Intact(proc[q])'
  BY DEF Intact, RowAfter, Written, Sha
<1> QED
  BY <1>2, <1>3 DEF Reads

LEMMA SameRows ==
    ASSUME Ordered, UNCHANGED log, UNCHANGED head
    PROVE  Ordered'
BY DEF Ordered

LEMMA RowsOfRequests ==
    ASSUME Inv, Reads, Ordered, NEW p \in Processes, Record(p) \/ Lock(p) \/ Leave(p)
    PROVE  Reads' /\ Ordered'
<1>1. log' = log /\ head' = head /\ log' \in Seq(LinkedRow)
  BY DEF Record, Lock, Leave, Reads
<1>2. CASE Record(p)
  BY <1>1, <1>2, RestingReadsNothing, RowsOnBecoming, SameRows DEF Record
<1>3. CASE Leave(p)
  BY <1>1, <1>3, RestingReadsNothing, RowsOnBecoming, SameRows DEF Leave
<1>4. CASE Lock(p)
  <2> DEFINE s == [proc[p] EXCEPT !.phase = "locked", !.at = head]
  <2>1. s.rows = proc[p].rows /\ s.phase = "locked"
    BY Held
  <2> HIDE DEF s
  <2>2. Become(p, s) /\ s.rows \in Seq(LinkedRow)
    BY <1>4, <2>1 DEF Lock, s, Reads
  <2> QED
    BY <1>1, <2>1, <2>2, RowsOnBecoming, SameRows
<1> QED
  BY <1>2, <1>3, <1>4

LEMMA RowsOfVerifications ==
    ASSUME Inv, Reads, Ordered, NEW p \in Processes,
           \/ \E kind \in Kinds : Verify(p, kind)
           \/ Walk(p) \/ Judge(p) \/ Mark(p) \/ NotMarked(p)
    PROVE  Reads' /\ Ordered'
<1>1. log' = log /\ head' = head /\ log' \in Seq(LinkedRow)
  BY DEF Verify, Walk, Judge, Mark, NotMarked, Reads
<1>2. Ordered'
  BY <1>1, SameRows
<1>3. ASSUME NEW kind \in Kinds, Verify(p, kind)
      PROVE  Reads'
  <2> DEFINE at == IF kind = "full" THEN Nowhere ELSE anchor
             s == [Resting EXCEPT !.phase = "anchored", !.kind = kind, !.at = at]
  <2> HIDE DEF at
  <2>1. s.rows \in Seq(LinkedRow) /\ s.phase = "anchored"
    BY DEF Resting
  <2>2. Become(p, s)
    BY <1>3 DEF Verify, at
  <2> HIDE DEF s
  <2> QED
    BY <1>1, <2>1, <2>2, RowsOnBecoming
<1>4. CASE Walk(p)
  <2> DEFINE rows == After(proc[p].at.seq)
             s == [proc[p] EXCEPT !.phase = "walked", !.rows = rows]
  <2>1. proc[p].at.seq \in Nat
    BY Held DEF Position
  <2>2. rows \in Seq(LinkedRow)
    BY <2>1, RowsAfter DEF Reads
  <2>3. Become(p, s)
    BY <1>4 DEF Walk
  <2> HIDE DEF rows
  <2>4. s.rows = rows /\ s.phase = "walked"
    BY Held
  <2> HIDE DEF s
  <2> QED
    BY <1>1, <1>2, <2>2, <2>3, <2>4, RowsOnBecoming
<1>5. CASE Judge(p)
  <2> DEFINE phase == IF Follows(proc[p]) /\ EndsAtHead(proc[p])
                      THEN "proved" ELSE "alarm"
             s == [proc[p] EXCEPT !.phase = phase]
  <2>1. Become(p, s)
    BY <1>5 DEF Judge
  <2>2. phase = "proved" => Follows(proc[p]) /\ EndsAtHead(proc[p])
    OBVIOUS
  <2> HIDE DEF phase
  <2>3. /\ proc[p].at.seq \in Nat /\ head.seq \in Nat /\ head = Written(head.seq)
        /\ proc[p].rows \in Seq(LinkedRow)
    BY Held DEF OnChain, Position, Reads
  <2>4. phase = "proved" => Intact(proc[p])
    BY <2>2, <2>3, FollowedToTheHead
  <2>5. s.phase = phase /\ s.rows = proc[p].rows /\ s.at = proc[p].at
    BY Held
  <2> HIDE DEF s
  <2>6. s.phase = "proved" => Intact(s)
    BY <2>4, <2>5 DEF Intact
  <2> QED
    BY <1>1, <1>2, <2>1, <2>3, <2>5, <2>6, RowsOnBecoming
<1>6. CASE Mark(p) \/ NotMarked(p)
  <2>1. PICK phase \in {"idle", "wanting"} :
          AfterMark(proc[p]) = [Resting EXCEPT !.phase = phase]
    BY DEF AfterMark, Resting
  <2>2. Become(p, [Resting EXCEPT !.phase = phase])
    BY <1>6, <2>1 DEF Mark, NotMarked
  <2> QED
    BY <1>1, <1>2, <2>2, RestingReadsNothing, RowsOnBecoming
<1> QED
  BY <1>2, <1>3, <1>4, <1>5, <1>6

(* The row committed is numbered behind every other.                         *)
LEMMA RowsOfCommitting ==
    ASSUME Inv, Reads, Ordered, NEW p \in Processes, Commit(p)
    PROVE  Reads' /\ Ordered'
<1> DEFINE row == RowAfter(head)
<1>1. head \in Position /\ proc[p].at = head /\ head.seq \in Nat
  BY Held, OnChainIsPosition DEF Commit, OnChain
<1>2. row \in LinkedRow /\ row.seq = head.seq + 1
  BY <1>1, RowAfterIsLinked
<1>3. log' = Append(log, row) /\ head'.seq = row.seq /\ Become(p, Resting)
  BY <1>1 DEF Commit
<1> HIDE DEF row
<1>4. log' \in Seq(LinkedRow) /\ Len(log') = Len(log) + 1 /\ log \in Seq(LinkedRow)
  BY <1>2, <1>3 DEF Reads
<1>5. Reads'
  BY <1>3, <1>4, RestingReadsNothing, RowsOnBecoming
<1>6. /\ \A k \in 1..Len(log) : log'[k] = log[k]
      /\ log'[Len(log) + 1] = row
  BY <1>3, <1>4
<1>7. \A k \in 1..Len(log) : log[k].seq \in Nat
  BY <1>4 DEF LinkedRow, Row
<1>8. Ordered'
  <2>1. ASSUME NEW k \in 1..Len(log')
        PROVE  log'[k].seq \in 1..head'.seq
    <3>1. k \in 1..Len(log) \/ k = Len(log) + 1
      BY <1>4
    <3> QED
      BY <1>1, <1>2, <1>3, <1>6, <3>1 DEF Ordered
  <2>2. ASSUME NEW j \in 1..Len(log'), NEW k \in 1..Len(log'), j < k
        PROVE  log'[j].seq < log'[k].seq
    <3>1. j \in 1..Len(log) /\ (k \in 1..Len(log) \/ k = Len(log) + 1)
      BY <1>4, <2>2
    <3>2. log[j].seq \in 1..head.seq
      BY <3>1 DEF Ordered
    <3>3. CASE k = Len(log) + 1
      BY <1>1, <1>2, <1>6, <3>1, <3>2, <3>3
    <3>4. CASE k \in 1..Len(log)
      BY <1>6, <2>2, <3>1, <3>4 DEF Ordered
    <3> QED
      BY <3>1, <3>3, <3>4
  <2> QED
    BY <2>1, <2>2 DEF Ordered
<1> QED
  BY <1>5, <1>8

(* An edit leaves the numbers and the links alone, a restore shortens the log. *)
LEMMA RowsOfEditing ==
    ASSUME Inv, Reads, Ordered, Edit \/ UNCHANGED vars
    PROVE  Reads' /\ Ordered'
<1>1. head' = head /\ proc' = proc /\ head.seq \in Nat /\ log \in Seq(LinkedRow)
  BY DEF Edit, vars, Inv, Positions, Reads
<1>2. ASSUME log' \in Seq(LinkedRow)
      PROVE  Reads'
  BY <1>1, <1>2 DEF Reads, Intact, RowAfter, Written, Sha
<1>3. ASSUME NEW n \in 0..Len(log), log' \in Seq(LinkedRow), Len(log') = n,
             \A j \in 1..n : log'[j].seq = log[j].seq
      PROVE  Ordered'
  <2>1. Len(log) \in Nat /\ \A j \in 1..n : j \in 1..Len(log)
    BY <1>1
  <2>2. \A k \in 1..n : log'[k].seq \in 1..head'.seq
    BY <1>1, <1>3, <2>1 DEF Ordered
  <2>3. \A j, k \in 1..n : j < k => log'[j].seq < log'[k].seq
    BY <1>3, <2>1 DEF Ordered
  <2> QED
    BY <1>3, <2>2, <2>3 DEF Ordered
<1>4. CASE Edit
  <2>1. PICK k \in DOMAIN log :
          LET body == [log[k].body EXCEPT !.text = "edited"]
          IN  \/ log' = [log EXCEPT ![k].body = body]
              \/ log' = [log EXCEPT ![k].body = body, ![k].hash = Sha(body)]
              \/ log' = SubSeq(log, 1, k - 1)
    BY <1>4 DEF Edit
  <2>2. k \in 1..Len(log) /\ log[k] \in LinkedRow
    BY <1>1
  <2> DEFINE body == [log[k].body EXCEPT !.text = "edited"]
             text == [log[k] EXCEPT !.body = body]
             rehashed == [log[k] EXCEPT !.body = body, !.hash = Sha(body)]
  <2>3. /\ text \in LinkedRow /\ rehashed \in LinkedRow
        /\ text.seq = log[k].seq /\ rehashed.seq = log[k].seq
    BY <2>2, EditedStaysLinked
  <2>4. ASSUME NEW row \in LinkedRow, row.seq = log[k].seq,
               log' = [log EXCEPT ![k] = row]
        PROVE  Reads' /\ Ordered'
    <3>1. log' \in Seq(LinkedRow) /\ Len(log') = Len(log)
      BY <1>1, <2>2, <2>4
    <3>2. \A j \in 1..Len(log) : log'[j].seq = log[j].seq
      BY <1>1, <2>2, <2>4
    <3> QED
      BY <1>1, <1>2, <1>3, <3>1, <3>2
  <2>5. CASE log' = [log EXCEPT ![k].body = body]
    <3>1. log' = [log EXCEPT ![k] = text]
      BY <2>5
    <3> QED
      BY <2>3, <2>4, <3>1
  <2>6. CASE log' = [log EXCEPT ![k].body = body, ![k].hash = Sha(body)]
    <3>1. log' = [log EXCEPT ![k] = rehashed]
      BY <2>6
    <3> QED
      BY <2>3, <2>4, <3>1
  <2>7. CASE log' = SubSeq(log, 1, k - 1)
    <3>1. log' \in Seq(LinkedRow) /\ Len(log') = k - 1 /\ k - 1 \in 0..Len(log)
          /\ \A j \in 1..(k - 1) : log'[j] = log[j]
      BY <1>1, <2>2, <2>7
    <3> QED
      BY <1>2, <1>3, <3>1
  <2> QED
    BY <2>1, <2>5, <2>6, <2>7
<1>5. CASE UNCHANGED vars
  <2>1. log' = log
    BY <1>5 DEF vars
  <2> QED
    BY <1>1, <1>2, <2>1 DEF Ordered
<1> QED
  BY <1>4, <1>5

RowsInv == Inv /\ Reads /\ Ordered

LEMMA RowsKept == RowsInv /\ [Next]_vars => RowsInv'
<1> SUFFICES ASSUME RowsInv, [Next]_vars PROVE RowsInv'
  OBVIOUS
<1>1. Inv'
  BY Kept DEF RowsInv
<1>2. Reads' /\ Ordered'
  BY RowsOfRequests, RowsOfVerifications, RowsOfCommitting, RowsOfEditing
     DEF RowsInv, Next
<1> QED
  BY <1>1, <1>2 DEF RowsInv

LEMMA RowsHold == Spec => []RowsInv
<1>1. Init => RowsInv
  BY Start, StartRows DEF RowsInv
<1> QED
  BY <1>1, RowsKept, PTL DEF Spec

(* Head, anchor, rows and every process are what their columns and variables *)
(* can hold (audit_logs, audit_chain_state, ChainCheck).                     *)
THEOREM TypesTold == Spec => []TypeOK
<1>1. RowsInv => TypeOK
  <2> SUFFICES ASSUME RowsInv PROVE TypeOK
    OBVIOUS
  <2>1. log \in Seq(Row)
    BY DEF RowsInv, Reads, LinkedRow
  <2>2. head \in Position /\ anchor \in Position
    <3>1. OnChain(head) /\ OnChain(anchor)
      BY DEF RowsInv, Inv, Positions
    <3> QED
      BY <3>1, OnChainIsPosition
  <2>3. ASSUME NEW p \in Processes
        PROVE  proc[p] \in Process
    <3>1. proc[p] \in [phase : Phases, kind : {"event", "console", "full", "sweep"},
                       at : Position, rows : {proc[p].rows}]
      BY Held DEF RowsInv
    <3>2. proc[p].rows \in Seq(Row)
      BY DEF RowsInv, Reads, LinkedRow
    <3> QED
      BY <3>1, <3>2 DEF Process
  <2>4. proc \in [Processes -> Process]
    BY <2>3 DEF RowsInv, Inv, Shaped
  <2>5. edits \in Nat
    BY DEF RowsInv, Inv, Linked
  <2> QED
    BY <2>1, <2>2, <2>4, <2>5 DEF TypeOK
<1> QED
  BY RowsHold, <1>1, PTL

(* The one query of a verification returns every row numbered behind the     *)
(* place it starts from, and no other (VerifyAuditChain).                    *)
WholeTailRead ==
    \A n \in Nat :
       \E first \in Nat \ {0} :
          /\ After(n) = SubSeq(log, first, Len(log))
          /\ \A k \in 1..Len(log) : log[k].seq > n <=> k >= first

THEOREM TailTold == Spec => []WholeTailRead
<1>1. RowsInv => WholeTailRead
  BY TailRead DEF RowsInv, Reads, WholeTailRead
<1> QED
  BY RowsHold, <1>1, PTL

(* The anchor only moves to where a walk ended whose every row was, when it  *)
(* was read, as the program wrote it: whoever edits rows meanwhile, with or  *)
(* without their hashes, or restores an older log, and however many events,  *)
(* verifications and marks interleave (VerifyAuditChain,                     *)
(* MarkAuditChainVerified).                                                  *)
LEMMA AnchorMoves ==
    ASSUME RowsInv, [Next]_vars, anchor' # anchor
    PROVE  \E p \in Processes :
              LET s == proc[p]
              IN  /\ s.phase = "proved"
                  /\ anchor'.seq = s.at.seq + Len(s.rows)
                  /\ \A k \in DOMAIN s.rows :
                        s.rows[k] = RowAfter(Written(s.at.seq + k - 1))
<1>1. PICK p \in Processes : Mark(p)
  BY DEF Next, Record, Lock, Commit, Leave, Verify, Walk, Judge, NotMarked, Edit, vars
<1>2. proc[p].phase = "proved" /\ anchor' = Proved(proc[p])
  BY <1>1 DEF Mark
<1>3. Intact(proc[p]) /\ proc[p].rows \in Seq(LinkedRow)
  BY <1>2 DEF RowsInv, Reads
<1>4. proc[p].at.seq \in Nat
  BY Held DEF RowsInv, Position
<1>5. anchor'.seq = proc[p].at.seq + Len(proc[p].rows)
  <2> DEFINE n == Len(proc[p].rows)
  <2>1. n \in Nat
    BY <1>3
  <2>2. CASE n = 0
    BY <1>2, <1>4, <2>1, <2>2 DEF Proved, Before
  <2>3. CASE n # 0
    BY <1>2, <1>4, <2>1, <2>3 DEF Proved, Before
  <2> QED
    BY <2>2, <2>3
<1> QED
  BY <1>2, <1>3, <1>5 DEF Intact

THEOREM MarksTold == Spec => ProvedRowsAreIntact
<1>1. RowsInv /\ [Next]_vars
        => [anchor' # anchor =>
              \E p \in Processes :
                 LET s == proc[p]
                 IN  /\ s.phase = "proved"
                     /\ anchor'.seq = s.at.seq + Len(s.rows)
                     /\ \A k \in DOMAIN s.rows :
                           s.rows[k] = RowAfter(Written(s.at.seq + k - 1))]_vars
  BY AnchorMoves
<1> QED
  BY RowsHold, <1>1, PTL DEF Spec, ProvedRowsAreIntact
=============================================================================
