------------------------------ MODULE AuditChain ------------------------------
(***************************************************************************)
(* The audit log's hash chain: appendAudit and the verification of         *)
(* internal/store, started from the console (internal/web/admin.go) and    *)
(* from the hourly sweep (internal/maintenance), while other requests go   *)
(* on appending.                                                           *)
(*                                                                         *)
(* SHA-256 is taken to be free of collisions: a hash is the sequence of    *)
(* texts it was computed over, the empty string is the empty sequence.     *)
(***************************************************************************)
EXTENDS Naturals, Sequences, FiniteSets

CONSTANTS
    Processes,  \* requests and the sweep (bound on concurrency)
    Kinds,      \* what they do: "event", "console", "full", "sweep"
    EditKinds,  \* what may happen to the rows behind the program's back
    MaxEvents,  \* bound on the length of the chain
    MaxEdits    \* bound on such edits

ASSUME AuditAssumption ==
    /\ Kinds \subseteq {"event", "console", "full", "sweep"}
    /\ EditKinds \subseteq {"text", "rehashed", "lost"}
    /\ MaxEvents \in Nat /\ MaxEdits \in Nat

VARIABLES
    log,     \* audit_logs, by chain_sequence
    head,    \* audit_chain_state: sequence and head_hash
    anchor,  \* audit_chain_state: verified_sequence and verified_hash
    proc,    \* what each process holds
    edits    \* edits so far

vars == <<log, head, anchor, proc, edits>>

Texts     == {"said", "edited"}
Hash      == Seq(Texts)
Position  == [seq : Nat, hash : Hash]
Row       == [seq : Nat, linked : Hash, body : [previous : Hash, text : Texts],
              hash : Hash]
Phases    == {"idle", "wanting", "locked", "anchored", "walked", "proved", "alarm"}
Process   == [phase : Phases, kind : {"event", "console", "full", "sweep"},
              at : Position, rows : Seq(Row)]

Nowhere == [seq |-> 0, hash |-> <<>>]
Resting == [phase |-> "idle", kind |-> "event", at |-> Nowhere, rows |-> <<>>]

Sha(body) == Append(body.previous, body.text)

\* The row an event becomes after a given position.
RowAfter(p) ==
    LET body == [previous |-> p.hash, text |-> "said"]
    IN  [seq |-> p.seq + 1, linked |-> p.hash, body |-> body, hash |-> Sha(body)]

Init ==
    /\ log = <<>>
    /\ head = Nowhere /\ anchor = Nowhere
    /\ proc = [p \in Processes |-> Resting]
    /\ edits = 0

Become(p, state) == proc' = [proc EXCEPT ![p] = state]

-----------------------------------------------------------------------------
(* appendAudit: SELECT ... FOR UPDATE, INSERT, UPDATE, COMMIT *)

Record(p) ==
    /\ proc[p].phase = "idle" /\ "event" \in Kinds
    /\ Become(p, [Resting EXCEPT !.phase = "wanting"])
    /\ UNCHANGED <<log, head, anchor, edits>>

\* Variant: a plain SELECT.
Unlocked_never == TRUE
Unlocked == \A q \in Processes : proc[q].phase # "locked"

Lock(p) ==
    /\ proc[p].phase = "wanting"
    /\ Unlocked
    /\ Become(p, [proc[p] EXCEPT !.phase = "locked", !.at = head])
    /\ UNCHANGED <<log, head, anchor, edits>>

Commit(p) ==
    /\ proc[p].phase = "locked"
    /\ Len(log) < MaxEvents
    /\ LET row == RowAfter(proc[p].at)
       IN  /\ log' = Append(log, row)
           /\ head' = [seq |-> row.seq, hash |-> row.hash]
    /\ Become(p, Resting)
    /\ UNCHANGED <<anchor, edits>>

\* The request ends, the database fails or the process stops: what was not
\* committed is lost, and the lock with it.
Leave(p) ==
    /\ proc[p].phase # "idle"
    /\ Become(p, Resting)
    /\ UNCHANGED <<log, head, anchor, edits>>

-----------------------------------------------------------------------------
(* Verification *)

\* verifyAudit and verifyAuditChain: from the anchor, or with ?full=1 from the
\* start, one such pass at a time.
Verify(p, kind) ==
    /\ proc[p].phase = "idle" /\ kind \in Kinds \ {"event"}
    /\ kind = "full" => \A q \in Processes : proc[q].kind # "full"
    /\ Become(p, [Resting EXCEPT !.phase = "anchored", !.kind = kind,
                                 !.at = IF kind = "full" THEN Nowhere ELSE anchor])
    /\ UNCHANGED <<log, head, anchor, edits>>

\* The rows come by chain_sequence: those up to seq are the first ones.
UpTo(seq)  == {k \in DOMAIN log : log[k].seq <= seq}
After(seq) == SubSeq(log, 1 + Cardinality(UpTo(seq)), Len(log))

\* One query returns the rows; the loop then stops at the first that does not
\* follow.
Walk(p) ==
    /\ proc[p].phase = "anchored"
    /\ Become(p, [proc[p] EXCEPT !.phase = "walked", !.rows = After(proc[p].at.seq)])
    /\ UNCHANGED <<log, head, anchor, edits>>

\* Where the walk stands before its k-th row.
Before(s, k) == IF k = 1 THEN s.at
                ELSE [seq |-> s.at.seq + k - 1, hash |-> s.rows[k - 1].hash]

Follows(s) ==
    \A k \in DOMAIN s.rows :
       /\ s.rows[k].linked = Before(s, k).hash
       /\ s.rows[k].seq = Before(s, k).seq + 1
       /\ Sha(s.rows[k].body) = s.rows[k].hash

\* Variant: the rows alone decide.
EndsAtHead_unasked(s) == TRUE
EndsAtHead(s) == Before(s, Len(s.rows) + 1) = head

\* The head is read by a second query, when the rows followed.
Judge(p) ==
    /\ proc[p].phase = "walked"
    /\ Become(p, [proc[p] EXCEPT
                    !.phase = IF Follows(proc[p]) /\ EndsAtHead(proc[p])
                              THEN "proved" ELSE "alarm"])
    /\ UNCHANGED <<log, head, anchor, edits>>

\* Variant: the anchor is put at the head of the moment.
Proved_headNow(s) == head
Proved(s) == Before(s, Len(s.rows) + 1)

\* The console goes on to record that it verified; the sweep does not.
AfterMark(s) == IF s.kind = "sweep" THEN Resting
                ELSE [Resting EXCEPT !.phase = "wanting"]

\* MarkAuditChainVerified updates the row appendAudit locks.
Mark(p) ==
    /\ proc[p].phase = "proved"
    /\ IF proc[p].kind = "sweep" /\ proc[p].rows = <<>> THEN UNCHANGED anchor
       ELSE Unlocked /\ anchor' = Proved(proc[p])
    /\ Become(p, AfterMark(proc[p]))
    /\ UNCHANGED <<log, head, edits>>

\* Its failure is not looked at.
NotMarked(p) ==
    /\ proc[p].phase = "proved"
    /\ Become(p, AfterMark(proc[p]))
    /\ UNCHANGED <<log, head, anchor, edits>>

-----------------------------------------------------------------------------
(* What verification is there to find: a row edited in the database, with or *)
(* without its hash, and a restore that lost the latest events.              *)

Edit ==
    /\ edits < MaxEdits
    /\ \E k \in DOMAIN log :
          LET body == [log[k].body EXCEPT !.text = "edited"]
          IN  \/ /\ "text" \in EditKinds
                 /\ log' = [log EXCEPT ![k].body = body]
              \/ /\ "rehashed" \in EditKinds
                 /\ log' = [log EXCEPT ![k].body = body, ![k].hash = Sha(body)]
              \/ /\ "lost" \in EditKinds
                 /\ log' = SubSeq(log, 1, k - 1)
    /\ edits' = edits + 1
    /\ UNCHANGED <<head, anchor, proc>>

Next ==
    \/ \E p \in Processes :
          \/ Record(p) \/ Lock(p) \/ Commit(p) \/ Leave(p)
          \/ \E kind \in Kinds : Verify(p, kind)
          \/ Walk(p) \/ Judge(p) \/ Mark(p) \/ NotMarked(p)
    \/ Edit

Spec == Init /\ [][Next]_vars

-----------------------------------------------------------------------------
(* Type invariant: positions and rows are what the columns can hold. *)

TypeOK ==
    /\ log \in Seq(Row)
    /\ head \in Position /\ anchor \in Position
    /\ proc \in [Processes -> Process]
    /\ edits \in Nat

\* The chain as the program wrote it.
Written(n)  == [seq |-> n, hash |-> [k \in 1..n |-> "said"]]

\* However many requests append at once, every event has a number of its own
\* and links to the one before, and the recorded head is the last of them
\* (appendAudit).
ChainUnbroken ==
    edits = 0 =>
       /\ head = Written(Len(log))
       /\ \A k \in DOMAIN log : log[k] = RowAfter(Written(k - 1))

\* The anchor is a point the chain really went through: verification may start
\* from it (MarkAuditChainVerified, AuditCheckpoint).
AnchorOnChain == anchor.seq <= head.seq /\ anchor = Written(anchor.seq)

\* The anchor never moves over a row that is not as it was written, nor over
\* one the walk has not read (verifyAuditChain).
ProvedRowsAreIntact ==
    [][anchor' # anchor =>
         \E p \in Processes :
            LET s == proc[p]
            IN  /\ s.phase = "proved"
                /\ anchor'.seq = s.at.seq + Len(s.rows)
                /\ \A k \in DOMAIN s.rows :
                      s.rows[k] = RowAfter(Written(s.at.seq + k - 1))]_vars
=============================================================================
