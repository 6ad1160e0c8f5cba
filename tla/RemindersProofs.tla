---------------------------- MODULE RemindersProofs ----------------------------
(***************************************************************************)
(* Proofs about Reminders, for any people, any number of rows of each kind *)
(* and any number of rows stamped at a time.                               *)
(***************************************************************************)
EXTENDS Reminders, TLAPS

Holds(w) ==
    w = [phase |-> w.phase, at |-> w.at, todo |-> w.todo, pending |-> w.pending,
         group |-> w.group, about |-> w.about, to |-> w.to]

(* What the worker holds was stamped before, is in one place only, and was   *)
(* told to nobody before it is written about.                                *)
InHand ==
    /\ Holds(worker)
    /\ worker.todo \cup worker.group \cup worker.about \subseteq Matters
    /\ \A m \in worker.todo \cup worker.group \cup worker.about : stamp[m] = "recent"
    /\ \A m \in worker.todo \cup worker.group : told[m] = {} /\ m \notin worker.about
    /\ \A m \in worker.todo : m \notin worker.group
    /\ worker.phase \in {"idle", "sweeping"} => worker.todo = {} /\ worker.group = {}
    /\ worker.phase # "writing" => worker.about = {}

Windows ==
    /\ DOMAIN stamp = Matters /\ DOMAIN told = Matters
    /\ \A m \in Matters : stamp[m] # "recent" => told[m] = {}

Telling == InHand /\ Windows /\ OncePerWindow

(* A key that was rotated is done, has one successor, and has none as long   *)
(* as the rotation is under way.                                             *)
Rotations ==
    /\ DOMAIN state = Matters /\ from \in [Matters -> Matters \cup {None}]
    /\ rotating \subseteq Matters
    /\ \A m \in rotating : state[m] = "done" /\ \A n \in Matters : from[n] # m
    /\ \A n \in Matters : from[n] # None => state[from[n]] = "done" /\ state[n] # "none"
    /\ \A n, k \in Matters : from[n] = from[k] /\ from[n] # None => n = k

-----------------------------------------------------------------------------
(* The worker's steps: what is stamped is nobody's yet, and a name leaves    *)
(* the list with its notice.                                                 *)
LEMMA Stamping ==
    ASSUME Telling, StartSweep \/ Stamp
    PROVE  Telling'
<1> USE DEF Telling, Windows, OncePerWindow
<1>1. CASE StartSweep
  <2>1. /\ worker' = [Resting EXCEPT !.phase = "sweeping", !.at = "correction"]
        /\ stamp' = stamp /\ told' = told
    BY <1>1 DEF StartSweep, matters
  <2>2. /\ Holds(worker') /\ worker'.phase = "sweeping" /\ worker'.todo = {}
        /\ worker'.group = {} /\ worker'.about = {}
    BY <2>1 DEF Holds, Resting
  <2>3. InHand'
    BY <2>1, <2>2 DEF InHand, Holds
  <2> QED
    BY <2>1, <2>2, <2>3
<1>2. CASE Stamp
  <2>1. worker.phase = "sweeping" /\ worker.todo = {} /\ worker.group = {} /\ worker.about = {}
        /\ told' = told
    BY <1>2 DEF Stamp, InHand
  <2>2. CASE GoOn /\ UNCHANGED stamp
    <3>1. /\ Holds(worker') /\ worker'.phase \in {"idle", "sweeping"} /\ worker'.todo = {}
          /\ worker'.group = {} /\ worker'.about = {}
      BY <2>2 DEF GoOn, Holds, Resting
    <3>2. InHand'
      BY <2>1, <2>2, <3>1 DEF InHand, Holds
    <3> QED
      BY <2>1, <2>2, <3>1, <3>2
  <2>3. CASE ~(GoOn /\ UNCHANGED stamp)
    <3>1. PICK S \in SUBSET {m \in Matters : kind[m] = worker.at /\ Remindable(m)} :
             /\ stamp' = [m \in Matters |-> IF m \in S THEN "recent" ELSE stamp[m]]
             /\ worker' = [worker EXCEPT !.phase = "telling", !.todo = S,
                                         !.pending = S \cap signing]
      BY <1>2, <2>3 DEF Stamp
    <3>2. \A m \in S : m \in Matters /\ told[m] = {}
      BY <3>1 DEF Remindable
    <3>3. /\ Holds(worker') /\ worker'.phase = "telling" /\ worker'.todo = S
          /\ worker'.group = {} /\ worker'.about = {}
      BY <2>1, <3>1 DEF Holds, InHand
    <3>4. InHand'
      BY <2>1, <3>1, <3>2, <3>3 DEF InHand, Holds
    <3> QED
      BY <2>1, <3>1, <3>3, <3>4
  <2> QED
    BY <2>2, <2>3
<1> QED
  BY <1>1, <1>2

(* Looking up what is due tells nobody.                                      *)
LEMMA Looking ==
    ASSUME Telling, remindUnclaimedReviews \/ \E m \in Matters : LookUp(m)
    PROVE  Telling'
<1> USE DEF Telling, Windows, OncePerWindow
<1>1. stamp' = stamp /\ told' = told /\ worker.phase = "telling" /\ worker.about = {}
  BY DEF remindUnclaimedReviews, LookUp, matters, InHand
<1>2. CASE remindUnclaimedReviews
  <2>1. CASE GoOn
    <3>1. /\ Holds(worker') /\ worker'.phase \in {"idle", "sweeping"} /\ worker'.todo = {}
          /\ worker'.group = {} /\ worker'.about = {}
      BY <2>1 DEF GoOn, Holds, Resting
    <3>2. InHand'
      BY <1>1, <3>1 DEF InHand, Holds
    <3> QED
      BY <1>1, <3>1, <3>2
  <2>2. CASE ~GoOn
    <3>1. /\ worker.todo = {}
          /\ worker' = [worker EXCEPT !.phase = "writing", !.about = worker.group,
                                      !.group = {}, !.to = securityReviewers]
      BY <1>2, <2>2 DEF remindUnclaimedReviews
    <3>2. /\ Holds(worker') /\ worker'.phase = "writing" /\ worker'.todo = {}
          /\ worker'.group = {} /\ worker'.about = worker.group
      BY <3>1 DEF Holds, InHand
    <3>3. InHand'
      BY <1>1, <3>2 DEF InHand, Holds
    <3>4. \A m \in worker'.about : told[m] = {}
      BY <3>2 DEF InHand
    <3> QED
      BY <1>1, <3>3, <3>4
  <2> QED
    BY <2>1, <2>2
<1>3. ASSUME NEW m \in Matters, LookUp(m)
      PROVE  Telling'
  <2>1. /\ m \in worker.todo /\ told[m] = {} /\ m \notin worker.group
        /\ \/ worker' = [worker EXCEPT !.todo = @ \ {m}, !.phase = "writing", !.about = {m},
                                       !.to = Recipients(m, m \in worker.pending)]
           \/ worker' = [worker EXCEPT !.todo = @ \ {m}, !.group = @ \cup {m}]
           \/ worker' = [worker EXCEPT !.todo = @ \ {m}]
    BY <1>3 DEF LookUp, InHand, Holds
  <2>2. /\ Holds(worker') /\ worker'.todo = worker.todo \ {m}
        /\ \/ worker'.phase = "writing" /\ worker'.about = {m} /\ worker'.group = worker.group
           \/ /\ worker'.phase = "telling" /\ worker'.about = {}
              /\ worker'.group \in {worker.group, worker.group \cup {m}}
    BY <1>1, <2>1 DEF Holds, InHand
  <2>3. InHand'
    BY <1>1, <2>1, <2>2 DEF InHand, Holds
  <2> QED
    BY <1>1, <2>1, <2>2, <2>3
<1> QED
  BY <1>2, <1>3

(* A notice goes to somebody the sweep has in hand, once.                    *)
LEMMA Writing ==
    ASSUME Telling, NEW p \in People, Notify(p) \/ NotifyFails(p)
    PROVE  Telling'
<1> USE DEF Telling, Windows, OncePerWindow
<1>1. /\ stamp' = stamp /\ worker.phase = "writing" /\ p \in worker.to
      /\ worker' = Written(p)
      /\ \/ told' = told
         \/ told' = [m \in Matters |-> IF m \in worker.about THEN told[m] \cup {p} ELSE told[m]]
  BY DEF Notify, NotifyFails, matters
<1>2. /\ Holds(worker') /\ worker'.todo = worker.todo /\ worker'.group = worker.group
      /\ worker'.to = worker.to \ {p}
      /\ \/ worker'.phase = "telling" /\ worker'.about = {}
         \/ worker'.phase = "writing" /\ worker'.about = worker.about
  BY <1>1 DEF Written, Holds, InHand
<1>3. \A m \in Matters : m \notin worker.about => told'[m] = told[m]
  BY <1>1
<1>4. InHand'
  BY <1>1, <1>2, <1>3 DEF InHand, Holds
<1>5. Windows'
  BY <1>1, <1>3 DEF InHand
<1>6. OncePerWindow'
  BY <1>1, <1>2 DEF InHand
<1> QED
  BY <1>4, <1>5, <1>6

(* A stop leaves the stamps; a window ends only when nothing is in hand.     *)
LEMMA Waiting ==
    ASSUME Telling, \/ Stop \/ \E m \in Matters : WindowPasses(m)
                    \/ UNCHANGED <<stamp, told, worker>>
    PROVE  Telling'
<1> USE DEF Telling, Windows, OncePerWindow
<1>1. CASE Stop
  <2>1. worker' = Resting /\ stamp' = stamp /\ told' = told
    BY <1>1 DEF Stop, matters
  <2>2. /\ Holds(worker') /\ worker'.phase = "idle" /\ worker'.todo = {}
        /\ worker'.group = {} /\ worker'.about = {}
    BY <2>1 DEF Holds, Resting
  <2>3. InHand'
    BY <2>1, <2>2 DEF InHand, Holds
  <2> QED
    BY <2>1, <2>2, <2>3
<1>2. ASSUME NEW m \in Matters, WindowPasses(m)
      PROVE  Telling'
  <2>1. /\ worker.phase = "idle" /\ worker' = worker
        /\ stamp' = [stamp EXCEPT ![m] = "old"] /\ told' = [told EXCEPT ![m] = {}]
    BY <1>2 DEF WindowPasses
  <2>2. worker.todo = {} /\ worker.group = {} /\ worker.about = {}
    BY <2>1 DEF InHand
  <2>3. InHand'
    BY <2>1, <2>2 DEF InHand, Holds
  <2> QED
    BY <2>1, <2>2, <2>3
<1>3. CASE UNCHANGED <<stamp, told, worker>>
  BY <1>3 DEF InHand, Holds
<1> QED
  BY <1>1, <1>2, <1>3

(* Every step keeps the three facts together.                                *)
LEMMA TellingKept == Telling /\ [Next]_vars => Telling'
<1> SUFFICES ASSUME Telling, [Next]_vars PROVE Telling'
  OBVIOUS
<1>1. CASE Sweeping
  BY <1>1, Stamping, Looking, Writing DEF Sweeping
<1>2. ASSUME NEW p \in People, NotifyFails(p) \/ ChangeAccount(p)
      PROVE  Telling'
  BY <1>2, Writing, Waiting DEF ChangeAccount, matters
<1>3. ASSUME NEW m \in Matters,
             \/ DateNears(m) \/ Settle(m) \/ Move(m) \/ CreateKey(m) \/ KeyExpires(m)
             \/ RotateKey(m) \/ IssueRefused(m) \/ \E old \in Matters : IssueKey(old, m)
      PROVE  UNCHANGED <<stamp, told, worker>>
  BY <1>3 DEF DateNears, Settle, Move, CreateKey, KeyExpires, RotateKey, IssueRefused, IssueKey,
     matters
<1>4. CASE UNCHANGED vars
  BY <1>4, Waiting DEF vars, matters
<1> QED
  BY <1>1, <1>2, <1>3, <1>4, Waiting DEF Next

-----------------------------------------------------------------------------
(* Rotating revokes the key in the statement that asks for it, so it is      *)
(* asked for once.                                                           *)
LEMMA RotationsKept == Rotations /\ [Next]_vars => Rotations'
<1> SUFFICES ASSUME Rotations, [Next]_vars PROVE Rotations'
  OBVIOUS
<1> USE RemindersAssumption DEF Rotations
<1>1. ASSUME UNCHANGED <<state, from, rotating>>
      PROVE  Rotations'
  BY <1>1
<1>2. CASE \/ Sweeping \/ Stop \/ UNCHANGED vars
           \/ \E p \in People : NotifyFails(p) \/ ChangeAccount(p)
  BY <1>1, <1>2 DEF Sweeping, StartSweep, Stamp, remindUnclaimedReviews, LookUp, Notify, Stop,
     NotifyFails, ChangeAccount, vars, matters, keys
<1>3. ASSUME NEW m \in Matters,
             WindowPasses(m) \/ DateNears(m) \/ Move(m) \/ KeyExpires(m)
      PROVE  Rotations'
  BY <1>1, <1>3 DEF WindowPasses, DateNears, Move, KeyExpires, keys
<1>4. ASSUME NEW m \in Matters, Settle(m) \/ CreateKey(m)
      PROVE  Rotations'
  BY <1>4 DEF Settle, CreateKey, keys
<1>5. ASSUME NEW m \in Matters, RotateKey(m)
      PROVE  Rotations'
  BY <1>5 DEF RotateKey, Withdrawn
<1>6. ASSUME NEW m \in Matters, IssueRefused(m)
      PROVE  Rotations'
  BY <1>6 DEF IssueRefused, matters
<1>7. ASSUME NEW m \in Matters, NEW old \in Matters, IssueKey(old, m)
      PROVE  Rotations'
  <2>1. /\ state[m] = "none" /\ state[old] = "done" /\ old # m /\ old # None
        /\ state' = [state EXCEPT ![m] = "open"] /\ from' = [from EXCEPT ![m] = old]
        /\ rotating' = rotating \ {old} /\ old \in rotating
    BY <1>7 DEF IssueKey
  <2> QED
    BY <2>1
<1> QED
  BY <1>2, <1>3, <1>4, <1>5, <1>6, <1>7 DEF Next

-----------------------------------------------------------------------------
(* Nobody is told twice of the same thing within its window: the stamp is    *)
(* written before anybody is told.                                           *)
THEOREM WindowTold == Spec => []OncePerWindow
<1>1. Init => Telling
  BY DEF Init, Telling, InHand, Windows, OncePerWindow, Holds, Resting
<1>2. Telling => OncePerWindow
  BY DEF Telling
<1> QED
  BY <1>1, <1>2, TellingKept, PTL DEF Spec

(* Of a key and what replaced it one works at most.                          *)
THEOREM KeysTold == Spec => []OneKeyWorks
<1>1. Init => Rotations
  BY DEF Init, Rotations
<1>2. Rotations => OneKeyWorks
  BY RemindersAssumption DEF Rotations, OneKeyWorks, Works, Keys
<1> QED
  BY <1>1, <1>2, RotationsKept, PTL DEF Spec
=============================================================================
