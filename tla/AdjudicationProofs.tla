--------------------------- MODULE AdjudicationProofs ---------------------------
(***************************************************************************)
(* Proofs about Adjudication, for any number of players and slots, any     *)
(* kits, any board and any number of interruptions.                        *)
(*                                                                         *)
(* The scheduler's own state (slots, cursor, current, and who is asked) is *)
(* only ever changed in one of the ways of StepOfSchedule.  That every     *)
(* action of the stage is one of them, and that each of them keeps the     *)
(* cursor between the decided slots and the others, are separate lemmas.   *)
(***************************************************************************)
EXTENDS Adjudication, DataProofs, SequenceTheorems

SlotRecords == [act : SlotActions, revealed : BOOLEAN, outcome : Outcomes]

-------------------------------------------------------------------------------
(***************************************************************************)
(* The strengthening of the invariants.                                    *)
(***************************************************************************)
\* A slot keeps the action of the plan that was locked.
PlansKept ==
  \A p \in Players : [s \in DOMAIN slots[p] |-> slots[p][s].act] \in Plans[p]

\* The cursor stands on a slot, or before the first one of a player.
CursorStands ==
  cursor.p \in Seats => cursor.s = 1 \/ cursor.s \in DOMAIN slots[Order[cursor.p]]

\* The action on the table is the one that somebody is asked about.
OnTable ==
  /\ current = IF pending # None THEN <<pending.p, pending.s>>
               ELSE IF choice # None /\ choice.s > 0 THEN <<choice.p, choice.s>> ELSE <<>>
  /\ current # <<>> => current[2] \in DOMAIN slots[current[1]]

\* The die of a regime ability is asked for before the ability is used up.
DieBelongs ==
  pending.kind = "REGIME_MANUAL_DIE" =>
    /\ pending.p \notin regimeUsed
    /\ Act(pending.p, pending.s).type = "REGIME"

ScheduleInv ==
  /\ slots \in [Players -> Seq(SlotRecords)]
  /\ cursor \in [p : 1 .. Len(Order) + 1, s : 1 .. 4,
                 status : {"READY", "SUSPENDED", "COMPLETE"}]
  /\ current \in {<<>>} \cup (Players \X (1 .. 3))
  /\ pending \in Pendings
  /\ choice \in Choices
  /\ PlansKept
  /\ CursorStands
  /\ SlotsInOrder
  /\ SuspensionOwnsSlot
  /\ OnTable
  /\ DieBelongs

(***************************************************************************)
(* The ways in which the schedule changes.                                 *)
(***************************************************************************)
\* The slot under the cursor gets its outcome and nobody is asked.
Deciding ==
  \E p \in Players : \E s \in DOMAIN slots[p] : \E o \in Outcomes \ {"NONE"} :
    AtSlot(p, s) /\ Decide(p, s, o) /\ pending' = None /\ choice' = None

\* Somebody is asked about the slot under the cursor.
AskingPlayer(p, s) ==
  /\ choice' = None
  /\ pending' \in Pendings
  /\ pending' # None
  /\ pending'.p = p
  /\ pending'.s = s
  /\ Activates(Act(p, s)) <=> pending'.kind # "REGIME_MANUAL_DIE"
  /\ pending'.kind = "REGIME_MANUAL_DIE" => Act(p, s).type = "REGIME" /\ p \notin regimeUsed'

AskingRegime(p, s) ==
  /\ pending' = None
  /\ choice' \in Choices
  /\ choice' # None
  /\ choice'.p = p
  /\ choice'.s = s
  /\ Act(p, s).type = "REGIME"
  /\ p \notin regimeUsed'

Asking ==
  \E p \in Players : \E s \in DOMAIN slots[p] :
    AtSlot(p, s) /\ Suspend(p, s) /\ (AskingPlayer(p, s) \/ AskingRegime(p, s))

\* A regime slot is answered and the cursor moves without the scheduler.
Answered ==
  choice # None /\ choice.s > 0 /\ AdvanceInline(choice.p, choice.s)
  /\ pending' = pending /\ choice' = None

\* The FLUMA player is asked between two slots, and answers.
Triggered ==
  /\ pending = None /\ choice = None /\ pending' = None
  /\ choice' \in Choices /\ choice' # None /\ choice'.s = 0
  /\ cursor' = [cursor EXCEPT !.status = "SUSPENDED"]
  /\ UNCHANGED <<slots, current>>

Calmed ==
  /\ choice # None /\ choice.s = 0
  /\ pending' = pending /\ choice' = None
  /\ cursor' = [cursor EXCEPT !.status = IF cursor.p \in Seats THEN "READY" ELSE "COMPLETE"]
  /\ UNCHANGED <<slots, current>>

\* Nothing but what is remembered with the question changes.
Waiting ==
  /\ UNCHANGED <<schedule, choice, regimeUsed>>
  /\ pending' \in Pendings
  /\ pending'.kind = pending.kind
  /\ pending # None => pending'.p = pending.p /\ pending'.s = pending.s

StepOfSchedule == Deciding \/ Asking \/ Answered \/ Triggered \/ Calmed \/ Waiting

-------------------------------------------------------------------------------
(***************************************************************************)
(* Shapes.                                                                 *)
(***************************************************************************)
\* A table has finitely many players.
LEMMA PlayersFinite == IsFiniteSet(Players)
<1>1. Order \in Seq(Players) /\ {Order[i] : i \in DOMAIN Order} = Players
  BY OrderAssumption
<1>2. Len(Order) \in Nat /\ DOMAIN Order = 1 .. Len(Order) /\ Order \in [1 .. Len(Order) -> Players]
  BY <1>1, LenProperties
<1>3. IsFiniteSet(1 .. Len(Order))
  BY <1>2, FS_Interval
<1>4. Order \in Surjection(1 .. Len(Order), Players)
  BY <1>1, <1>2 DEF Surjection
<1> QED BY <1>3, <1>4, FS_Surjection

\* Seats are the positions of the order, each with a player of its own.
LEMMA SeatsProperties ==
  /\ Len(Order) \in Nat
  /\ \A i \in Seats : i \in Nat /\ i >= 1 /\ i <= Len(Order) /\ Order[i] \in Players
  /\ \A p \in Players : \E i \in Seats : p = Order[i]
  /\ \A i, j \in Seats : Order[i] = Order[j] => i = j
  /\ Len(Order) + 1 \notin Seats
<1>1. Order \in Seq(Players) /\ {Order[i] : i \in DOMAIN Order} = Players
      /\ \A i, j \in DOMAIN Order : Order[i] = Order[j] => i = j
  BY OrderAssumption
<1>2. Len(Order) \in Nat /\ DOMAIN Order = Seats
  BY <1>1, LenProperties DEF Seats
<1>3. \A p \in Players : \E i \in Seats : p = Order[i]
  BY <1>1, <1>2
<1>4. \A i \in Seats : Order[i] \in Players
  BY <1>1, <1>2
<1>5. \A i \in Seats : i \in Nat /\ i >= 1 /\ i <= Len(Order)
  BY <1>2 DEF Seats
<1>6. Len(Order) + 1 \notin Seats
  BY <1>2 DEF Seats
<1> QED BY <1>1, <1>2, <1>3, <1>4, <1>5, <1>6

\* Every question names a player and a slot.
LEMMA PendingShape ==
  ASSUME NEW r \in Pendings
  PROVE  /\ r.kind = "NONE" <=> r = None
         /\ r # None => r.p \in Players /\ r.s \in 1 .. 3
BY DEF Pendings, None

\* Every choice names a player, and a slot unless it interrupts the schedule.
LEMMA ChoiceShape ==
  ASSUME NEW r \in Choices
  PROVE  /\ r.kind = "NONE" <=> r = None
         /\ r # None => r.p \in Players /\ r.s \in 0 .. 3
         /\ r.kind \in {"ARDEN", "DINESIA"} => r.s \in 1 .. 3
BY DEF Choices, None

\* A player's plan has at most three slots.
LEMMA PlanShape ==
  ASSUME slots \in [Players -> Seq(SlotRecords)], PlansKept, NEW p \in Players
  PROVE  /\ Len(slots[p]) \in 0 .. 3
         /\ DOMAIN slots[p] = 1 .. Len(slots[p])
         /\ \A s \in DOMAIN slots[p] : s \in 1 .. 3 /\ slots[p][s] \in SlotRecords
<1> DEFINE plan == [s \in DOMAIN slots[p] |-> slots[p][s].act]
<1>1. slots[p] \in Seq(SlotRecords)
  OBVIOUS
<1>2. /\ Len(slots[p]) \in Nat /\ DOMAIN slots[p] = 1 .. Len(slots[p])
      /\ slots[p] \in [1 .. Len(slots[p]) -> SlotRecords]
  BY <1>1, LenProperties
<1>3. plan \in Seq(SlotActions) /\ ValidPlan(plan)
  BY PlanAssumption DEF PlansKept
<1>4. DOMAIN plan = 1 .. Len(slots[p])
  BY <1>2
<1> HIDE DEF plan
<1>5. Len(plan) \in Nat /\ DOMAIN plan = 1 .. Len(plan) /\ Len(plan) <= 3
  BY <1>3, LenProperties DEF ValidPlan
<1>6. Len(slots[p]) = Len(plan)
  <2>1. \A m, n \in Nat : 1 .. m = 1 .. n => m = n
    <3> TAKE m, n \in Nat
    <3> HAVE 1 .. m = 1 .. n
    <3>1. (m \in 1 .. n \/ m = 0) /\ (n \in 1 .. m \/ n = 0)
      OBVIOUS
    <3> QED BY <3>1
  <2> QED BY <1>2, <1>4, <1>5, <2>1
<1> QED BY <1>2, <1>5, <1>6

-------------------------------------------------------------------------------
(***************************************************************************)
(* The cursor.                                                             *)
(***************************************************************************)
\* The slot s of the i-th player comes before the slot t of the j-th.
Precedes(i, s, j, t) == i < j \/ (i = j /\ s < t)

\* locateNextSlot skips nothing but what is not there.
LEMMA LocateProperties ==
  ASSUME slots \in [Players -> Seq(SlotRecords)], PlansKept,
         NEW i \in 1 .. Len(Order) + 1, NEW s \in Nat \ {0}
  PROVE  \E j \in 1 .. Len(Order) + 1 : \E t \in 1 .. 3 :
           /\ Locate(i, s) = <<j, t>>
           /\ j \in Seats => t \in DOMAIN slots[Order[j]]
           /\ \A k \in Seats : \A u \in DOMAIN slots[Order[k]] :
                Precedes(k, u, i, s) <=> Precedes(k, u, j, t)
<1>1. Len(Order) \in Nat /\ Seats = 1 .. Len(Order) /\ \A k \in Seats : Order[k] \in Players
  BY SeatsProperties DEF Seats
<1>2. \A k \in Seats : /\ Len(slots[Order[k]]) \in 0 .. 3
                       /\ DOMAIN slots[Order[k]] = 1 .. Len(slots[Order[k]])
                       /\ slots[Order[k]] # <<>> <=> Len(slots[Order[k]]) > 0
  <2> TAKE k \in Seats
  <2>1. slots[Order[k]] \in Seq(SlotRecords)
    BY <1>1
  <2>2. Len(slots[Order[k]]) \in 0 .. 3 /\ DOMAIN slots[Order[k]] = 1 .. Len(slots[Order[k]])
    BY <1>1, PlanShape
  <2> QED BY <2>1, <2>2, EmptySeq
<1>3. CASE i \in Seats /\ s <= Len(slots[Order[i]])
  <2>1. Locate(i, s) = <<i, s>>
    BY <1>3 DEF Locate
  <2>2. s \in DOMAIN slots[Order[i]] /\ s \in 1 .. 3
    <3>1. PICK n \in 0 .. 3 : n = Len(slots[Order[i]]) /\ DOMAIN slots[Order[i]] = 1 .. n
      BY <1>2, <1>3
    <3>2. s \in Nat /\ s >= 1 /\ s <= n
      BY <1>3, <3>1
    <3>3. \A m \in 0 .. 3 : s <= m => s \in 1 .. m /\ s \in 1 .. 3
      BY <3>2
    <3> QED BY <3>1, <3>2, <3>3
  <2> QED BY <2>1, <2>2
<1>4. CASE ~ (i \in Seats /\ s <= Len(slots[Order[i]]))
  <2> DEFINE later == {j \in Seats : j > i /\ slots[Order[j]] # <<>>}
  <2>1. Locate(i, s) = IF later = {} THEN <<Len(Order) + 1, 1>>
                       ELSE <<CHOOSE j \in later : \A k \in later : j <= k, 1>>
    BY <1>4 DEF Locate
  <2>2. \A k \in Seats : \A u \in DOMAIN slots[Order[k]] :
          Precedes(k, u, i, s) <=> k <= i
    <3> TAKE k \in Seats
    <3> TAKE u \in DOMAIN slots[Order[k]]
    <3>1. k \in Nat /\ i \in Nat /\ u \in Nat /\ s \in Nat /\ u <= Len(slots[Order[k]])
          /\ Len(slots[Order[k]]) \in Nat
      BY <1>1, <1>2
    <3>2. k = i => u < s
      BY <1>4, <3>1
    <3> QED BY <3>1, <3>2 DEF Precedes
  <2>3. \A k \in Seats : \A u \in DOMAIN slots[Order[k]] : k > i => k \in later
    BY <1>2
  <2>4. later \in SUBSET Nat
    BY <1>1
  <2> HIDE DEF later
  <2>5. CASE later = {}
    <3>1. \A k \in Seats : \A u \in DOMAIN slots[Order[k]] :
            Precedes(k, u, i, s) /\ Precedes(k, u, Len(Order) + 1, 1)
      <4> TAKE k \in Seats
      <4> TAKE u \in DOMAIN slots[Order[k]]
      <4>1. k \in Nat /\ i \in Nat /\ k < Len(Order) + 1 /\ ~ (k > i)
        BY <1>1, <2>3, <2>5
      <4> QED BY <2>2, <4>1 DEF Precedes
    <3>2. Len(Order) + 1 \in 1 .. Len(Order) + 1 /\ Len(Order) + 1 \notin Seats
      BY <1>1
    <3> QED BY <2>1, <2>5, <3>1, <3>2
  <2>6. CASE later # {}
    <3> DEFINE m == CHOOSE j \in later : \A k \in later : j <= k
    <3>1. m \in later /\ \A k \in later : m <= k
      BY <2>4, <2>6, LeastNumber
    <3>2. Locate(i, s) = <<m, 1>>
      BY <2>1, <2>6
    <3> HIDE DEF m
    <3>3. m \in Seats /\ m > i /\ slots[Order[m]] # <<>>
      BY <3>1 DEF later
    <3>4. 1 \in DOMAIN slots[Order[m]] /\ m \in 1 .. Len(Order) + 1
      BY <1>1, <1>2, <3>3
    <3>5. \A k \in Seats : \A u \in DOMAIN slots[Order[k]] :
            Precedes(k, u, i, s) <=> Precedes(k, u, m, 1)
      <4> TAKE k \in Seats
      <4> TAKE u \in DOMAIN slots[Order[k]]
      <4>1. k \in Nat /\ i \in Nat /\ m \in Nat /\ u \in Nat /\ u >= 1
        BY <1>1, <1>2, <3>3
      <4>2. k > i => m <= k
        BY <2>3, <3>1
      <4>3. Precedes(k, u, m, 1) <=> k <= i
        BY <3>3, <4>1, <4>2 DEF Precedes
      <4> QED BY <2>2, <4>3
    <3> QED BY <3>2, <3>4, <3>5
  <2> QED BY <2>5, <2>6
<1> QED BY <1>3, <1>4

\* The slot under the cursor is the first one that has no outcome.
LEMMA SlotUnderCursor ==
  ASSUME ScheduleInv, NEW p \in Players, NEW s \in DOMAIN slots[p], AtSlot(p, s)
  PROVE  \E i \in Seats :
           /\ At = <<i, s>> /\ p = Order[i] /\ s \in 1 .. 3 /\ s \in Nat
           /\ ~ Decided(p, s)
           /\ \A k \in Seats : \A u \in DOMAIN slots[Order[k]] :
                Decided(Order[k], u) <=> Precedes(k, u, i, s)
<1>1. slots \in [Players -> Seq(SlotRecords)] /\ PlansKept
  BY DEF ScheduleInv
<1>2. cursor.p \in 1 .. Len(Order) + 1 /\ cursor.s \in Nat \ {0}
  BY DEF ScheduleInv
<1>3. PICK j \in 1 .. Len(Order) + 1, t \in 1 .. 3 :
           /\ Locate(cursor.p, cursor.s) = <<j, t>>
           /\ j \in Seats => t \in DOMAIN slots[Order[j]]
           /\ \A k \in Seats : \A u \in DOMAIN slots[Order[k]] :
                Precedes(k, u, cursor.p, cursor.s) <=> Precedes(k, u, j, t)
  BY <1>1, <1>2, LocateProperties
<1>4. At = <<j, t>> /\ j \in Seats /\ p = Order[j] /\ s = t
  BY <1>3 DEF At, AtSlot
<1>5. \A k \in Seats : \A u \in DOMAIN slots[Order[k]] :
        Decided(Order[k], u) <=> Precedes(k, u, j, t)
  BY <1>3 DEF ScheduleInv, SlotsInOrder, Behind, Precedes
<1>6. ~ Precedes(j, t, j, t)
  BY DEF Precedes
<1> QED BY <1>4, <1>5, <1>6

\* Whoever is asked is asked about the slot under the cursor.
LEMMA OpenSlot ==
  ASSUME ScheduleInv, NEW p \in Players, NEW s,
         cursor.p \in Seats, <<p, s>> = <<Order[cursor.p], cursor.s>>,
         current = <<p, s>>
  PROVE  /\ s \in DOMAIN slots[p]
         /\ AtSlot(p, s)
         /\ At = <<cursor.p, cursor.s>>
<1>1. slots \in [Players -> Seq(SlotRecords)] /\ PlansKept
  BY DEF ScheduleInv
<1>2. p = Order[cursor.p] /\ s = cursor.s
  OBVIOUS
<1>3. <<p, s>> # <<>> /\ <<p, s>>[1] = p /\ <<p, s>>[2] = s
  OBVIOUS
<1>4. s \in DOMAIN slots[p]
  BY <1>3 DEF ScheduleInv, OnTable
<1>5. Len(slots[p]) \in 0 .. 3 /\ DOMAIN slots[p] = 1 .. Len(slots[p])
  BY <1>1, PlanShape
<1>6. cursor.s <= Len(slots[Order[cursor.p]])
  BY <1>2, <1>4, <1>5
<1>7. At = <<cursor.p, cursor.s>>
  BY <1>6 DEF At, Locate
<1> QED BY <1>2, <1>4, <1>7 DEF AtSlot

-------------------------------------------------------------------------------
(***************************************************************************)
(* The steps of the schedule.                                              *)
(***************************************************************************)
\* A step rewrites one slot and keeps its action.
RewritesSlot(p, s, r) == slots' = [slots EXCEPT ![p] = [slots[p] EXCEPT ![s] = r]]

\* Rewriting one slot keeps the plans and the other slots.
LEMMA SlotRewritten ==
  ASSUME slots \in [Players -> Seq(SlotRecords)], PlansKept,
         NEW p \in Players, NEW s \in DOMAIN slots[p],
         NEW r \in SlotRecords, r.act = slots[p][s].act, RewritesSlot(p, s, r)
  PROVE  /\ slots' \in [Players -> Seq(SlotRecords)]
         /\ PlansKept'
         /\ \A q \in Players :
              /\ DOMAIN slots'[q] = DOMAIN slots[q]
              /\ Len(slots'[q]) = Len(slots[q])
              /\ \A u \in DOMAIN slots[q] :
                   /\ slots'[q][u] = IF q = p /\ u = s THEN r ELSE slots[q][u]
                   /\ slots'[q][u].act = slots[q][u].act
<1>1. slots' = [slots EXCEPT ![p] = [slots[p] EXCEPT ![s] = r]]
  BY DEF RewritesSlot
<1>2. slots[p] \in Seq(SlotRecords) /\ DOMAIN slots[p] = 1 .. Len(slots[p])
  BY PlanShape
<1>3. /\ [slots[p] EXCEPT ![s] = r] \in Seq(SlotRecords)
      /\ Len([slots[p] EXCEPT ![s] = r]) = Len(slots[p])
      /\ DOMAIN [slots[p] EXCEPT ![s] = r] = DOMAIN slots[p]
  BY <1>2, ExceptSeq
<1>4. slots' \in [Players -> Seq(SlotRecords)]
  BY <1>1, <1>3
<1>5. ASSUME NEW q \in Players
      PROVE  /\ DOMAIN slots'[q] = DOMAIN slots[q]
             /\ Len(slots'[q]) = Len(slots[q])
             /\ \A u \in DOMAIN slots[q] :
                   /\ slots'[q][u] = IF q = p /\ u = s THEN r ELSE slots[q][u]
                   /\ slots'[q][u].act = slots[q][u].act
  <2>1. CASE q = p
    <3>1. slots'[q] = [slots[p] EXCEPT ![s] = r]
      BY <1>1, <2>1
    <3> QED BY <1>3, <2>1, <3>1
  <2>2. CASE q # p
    <3>1. slots'[q] = slots[q]
      BY <1>1, <2>2
    <3> QED BY <2>2, <3>1
  <2> QED BY <2>1, <2>2
<1>6. PlansKept'
  <2> SUFFICES ASSUME NEW q \in Players
               PROVE  [u \in DOMAIN slots'[q] |-> slots'[q][u].act] \in Plans[q]
    BY DEF PlansKept
  <2>1. [u \in DOMAIN slots'[q] |-> slots'[q][u].act] = [u \in DOMAIN slots[q] |-> slots[q][u].act]
    BY <1>5
  <2> QED BY <2>1 DEF PlansKept
<1> QED BY <1>4, <1>5, <1>6

\* Decide, Suspend and AdvanceInline rewrite one slot.
LEMMA RewriteForms ==
  ASSUME slots \in [Players -> Seq(SlotRecords)], PlansKept,
         NEW p \in Players, NEW s \in DOMAIN slots[p], NEW o \in Outcomes
  PROVE  /\ Decide(p, s, o) =>
              \E r \in SlotRecords :
                /\ r.act = slots[p][s].act /\ r.revealed = TRUE /\ r.outcome = o
                /\ RewritesSlot(p, s, r)
         /\ Suspend(p, s) =>
              \E r \in SlotRecords :
                /\ r.act = slots[p][s].act /\ r.revealed = TRUE
                /\ r.outcome = slots[p][s].outcome
                /\ RewritesSlot(p, s, r)
         /\ AdvanceInline(p, s) =>
              \E r \in SlotRecords :
                /\ r.act = slots[p][s].act /\ r.outcome = "RESOLVED"
                /\ r.revealed = slots[p][s].revealed
                /\ RewritesSlot(p, s, r)
<1>1. slots[p][s] \in SlotRecords
  BY PlanShape
<1>2. PICK x \in SlotRecords : x = slots[p][s]
  BY <1>1
<1>3. [x EXCEPT !.revealed = TRUE, !.outcome = o] \in SlotRecords
  BY DEF SlotRecords
<1>4. [x EXCEPT !.revealed = TRUE] \in SlotRecords
  BY DEF SlotRecords
<1>5. [x EXCEPT !.outcome = "RESOLVED"] \in SlotRecords
  <2>1. "RESOLVED" \in Outcomes
    BY DEF Outcomes
  <2> QED BY <2>1 DEF SlotRecords
<1>6. ASSUME Decide(p, s, o)
      PROVE  RewritesSlot(p, s, [x EXCEPT !.revealed = TRUE, !.outcome = o])
  BY <1>2, <1>6 DEF Decide, RewritesSlot
<1>7. ASSUME Suspend(p, s)
      PROVE  RewritesSlot(p, s, [x EXCEPT !.revealed = TRUE])
  BY <1>2, <1>7 DEF Suspend, RewritesSlot
<1>8. ASSUME AdvanceInline(p, s)
      PROVE  RewritesSlot(p, s, [x EXCEPT !.outcome = "RESOLVED"])
  BY <1>2, <1>8 DEF AdvanceInline, RewritesSlot
<1> HIDE DEF RewritesSlot
<1> QED BY <1>2, <1>3, <1>4, <1>5, <1>6, <1>7, <1>8 DEF SlotRecords

\* What is on the table is under the cursor.
LEMMA TableUnderCursor ==
  ASSUME ScheduleInv, current # <<>>
  PROVE  /\ cursor.p \in Seats
         /\ current = <<Order[cursor.p], cursor.s>>
         /\ At = <<cursor.p, cursor.s>>
<1>1. \/ pending # None /\ current = <<pending.p, pending.s>>
      \/ pending = None /\ choice # None /\ choice.s > 0 /\ current = <<choice.p, choice.s>>
  BY DEF ScheduleInv, OnTable
<1>2. cursor.p \in Seats /\ current = <<Order[cursor.p], cursor.s>>
  BY <1>1 DEF ScheduleInv, SuspensionOwnsSlot
<1>3. Order[cursor.p] \in Players
  BY <1>2, SeatsProperties
<1> QED BY <1>2, <1>3, OpenSlot

\* Before a slot under the cursor is decided or shown, the other slots are
\* revealed exactly if they are decided.
LEMMA OthersRevealed ==
  ASSUME ScheduleInv, NEW p \in Players, NEW s \in DOMAIN slots[p], AtSlot(p, s)
  PROVE  \A k \in Seats : \A u \in DOMAIN slots[Order[k]] :
           ~ (Order[k] = p /\ u = s) => (slots[Order[k]][u].revealed <=> Decided(Order[k], u))
<1> SUFFICES ASSUME NEW k \in Seats, NEW u \in DOMAIN slots[Order[k]], ~ (Order[k] = p /\ u = s)
             PROVE  slots[Order[k]][u].revealed <=> Decided(Order[k], u)
  OBVIOUS
<1>1. slots[Order[k]][u].revealed <=> (Decided(Order[k], u) \/ current = <<Order[k], u>>)
  BY DEF ScheduleInv, SlotsInOrder
<1>2. current # <<Order[k], u>>
  <2> SUFFICES ASSUME current = <<Order[k], u>> PROVE FALSE
    OBVIOUS
  <2>1. current # <<>>
    OBVIOUS
  <2>2. current = <<Order[cursor.p], cursor.s>> /\ At = <<cursor.p, cursor.s>>
    BY <2>1, TableUnderCursor
  <2>3. p = Order[cursor.p] /\ s = cursor.s
    BY <2>2 DEF AtSlot
  <2> QED BY <2>2, <2>3
<1> QED BY <1>1, <1>2

\* A slot under the cursor that gets its outcome keeps the invariant.
LEMMA DecidingKeeps ==
  ASSUME ScheduleInv, Deciding
  PROVE  ScheduleInv'
<1>0. PICK p \in Players : \E s \in DOMAIN slots[p] : \E o \in Outcomes \ {"NONE"} :
        AtSlot(p, s) /\ Decide(p, s, o) /\ pending' = None /\ choice' = None
  BY DEF Deciding
<1>1. PICK s \in DOMAIN slots[p], o \in Outcomes \ {"NONE"} :
        AtSlot(p, s) /\ Decide(p, s, o) /\ pending' = None /\ choice' = None
  BY <1>0
<1>2. slots \in [Players -> Seq(SlotRecords)] /\ PlansKept
  BY DEF ScheduleInv
<1>3. PICK r \in SlotRecords :
        /\ r.act = slots[p][s].act /\ r.revealed = TRUE /\ r.outcome = o
        /\ RewritesSlot(p, s, r)
  BY <1>1, <1>2, RewriteForms
<1>4. /\ slots' \in [Players -> Seq(SlotRecords)]
      /\ PlansKept'
      /\ \A q \in Players :
           /\ DOMAIN slots'[q] = DOMAIN slots[q]
           /\ \A u \in DOMAIN slots[q] :
                slots'[q][u] = IF q = p /\ u = s THEN r ELSE slots[q][u]
  BY <1>2, <1>3, SlotRewritten
<1>5. PICK i \in Seats :
        /\ At = <<i, s>> /\ p = Order[i] /\ s \in Nat
        /\ \A k \in Seats : \A u \in DOMAIN slots[Order[k]] :
             Decided(Order[k], u) <=> Precedes(k, u, i, s)
  BY <1>1, SlotUnderCursor
<1>6. i \in 1 .. Len(Order) + 1 /\ s + 1 \in Nat \ {0} /\ i \in Int /\ s \in Int
  BY <1>5, SeatsProperties
<1>7. PICK j \in 1 .. Len(Order) + 1, t \in 1 .. 3 :
        /\ Locate(i, s + 1) = <<j, t>>
        /\ j \in Seats => t \in DOMAIN slots[Order[j]]
        /\ \A k \in Seats : \A u \in DOMAIN slots[Order[k]] :
             Precedes(k, u, i, s + 1) <=> Precedes(k, u, j, t)
  BY <1>2, <1>6, LocateProperties
<1>8. /\ cursor' = [p |-> j, s |-> t, status |-> IF j \in Seats THEN "READY" ELSE "COMPLETE"]
      /\ current' = <<>>
  BY <1>1, <1>5, <1>7 DEF Decide
<1>9. cursor' \in [p : 1 .. Len(Order) + 1, s : 1 .. 4,
                   status : {"READY", "SUSPENDED", "COMPLETE"}] /\ cursor'.status # "SUSPENDED"
  BY <1>8
<1>10. CursorStands'
  <2>1. j \in Seats => t \in DOMAIN slots'[Order[j]]
    BY <1>4, <1>7, SeatsProperties
  <2> QED BY <1>8, <2>1 DEF CursorStands, Seats
<1>11. SlotsInOrder'
  <2> SUFFICES ASSUME NEW k \in Seats, NEW u \in DOMAIN slots'[Order[k]]
               PROVE  /\ slots'[Order[k]][u].outcome # "NONE" <=> Precedes(k, u, j, t)
                      /\ slots'[Order[k]][u].revealed <=> slots'[Order[k]][u].outcome # "NONE"
    <3>1. \A q, u : <<q, u>> # <<>>
      OBVIOUS
    <3> QED BY <1>8, <3>1 DEF SlotsInOrder, Decided, Behind, Precedes, Seats
  <2>1. Order[k] \in Players /\ (Order[k] = p <=> k = i) /\ k \in Nat
    BY <1>5, SeatsProperties
  <2>2. u \in DOMAIN slots[Order[k]]
        /\ slots'[Order[k]][u] = IF k = i /\ u = s THEN r ELSE slots[Order[k]][u]
    BY <1>4, <2>1
  <2>3. u \in Nat
    BY <1>2, <2>1, <2>2, PlanShape
  <2>4. Precedes(k, u, i, s + 1) <=> Precedes(k, u, i, s) \/ (k = i /\ u = s)
    BY <1>6, <2>1, <2>3 DEF Precedes
  <2>5. slots'[Order[k]][u].outcome # "NONE" <=> Precedes(k, u, j, t)
    <3>1. CASE k = i /\ u = s
      <4>1. slots'[Order[k]][u].outcome = o /\ o # "NONE"
        BY <1>3, <2>2, <3>1
      <4> QED BY <1>7, <2>2, <2>4, <3>1, <4>1
    <3>2. CASE ~ (k = i /\ u = s)
      <4>1. slots'[Order[k]][u] = slots[Order[k]][u]
        BY <2>2, <3>2
      <4>2. slots[Order[k]][u].outcome # "NONE" <=> Precedes(k, u, i, s)
        BY <1>5, <2>2 DEF Decided
      <4> QED BY <1>7, <2>2, <2>4, <3>2, <4>1, <4>2
    <3> QED BY <3>1, <3>2
  <2>6. slots'[Order[k]][u].revealed <=> slots'[Order[k]][u].outcome # "NONE"
    <3>1. CASE k = i /\ u = s
      BY <1>3, <2>2, <3>1
    <3>2. CASE ~ (k = i /\ u = s)
      <4>1. slots'[Order[k]][u] = slots[Order[k]][u]
        BY <2>2, <3>2
      <4>2. \A l \in Seats : \A w \in DOMAIN slots[Order[l]] :
              ~ (Order[l] = p /\ w = s) => (slots[Order[l]][w].revealed <=> Decided(Order[l], w))
        BY <1>1, OthersRevealed
      <4>3. slots[Order[k]][u].revealed <=> Decided(Order[k], u)
        BY <2>1, <2>2, <3>2, <4>2
      <4>4. Decided(Order[k], u) <=> slots[Order[k]][u].outcome # "NONE"
        BY DEF Decided
      <4> QED BY <4>1, <4>3, <4>4
    <3> QED BY <3>1, <3>2
  <2> QED BY <2>5, <2>6
<1>12. SuspensionOwnsSlot'
  BY <1>1, <1>9 DEF SuspensionOwnsSlot
<1>13. OnTable' /\ DieBelongs'
  BY <1>1, <1>8 DEF OnTable, DieBelongs, None
<1>14. pending' \in Pendings /\ choice' \in Choices
  BY <1>1 DEF Pendings, Choices
<1> QED BY <1>4, <1>8, <1>9, <1>10, <1>11, <1>12, <1>13, <1>14 DEF ScheduleInv

\* A slot under the cursor that waits for an answer keeps the invariant.
LEMMA AskingKeeps ==
  ASSUME ScheduleInv, Asking
  PROVE  ScheduleInv'
<1>0. PICK p \in Players : \E s \in DOMAIN slots[p] :
        AtSlot(p, s) /\ Suspend(p, s) /\ (AskingPlayer(p, s) \/ AskingRegime(p, s))
  BY DEF Asking
<1>1. PICK s \in DOMAIN slots[p] :
        AtSlot(p, s) /\ Suspend(p, s) /\ (AskingPlayer(p, s) \/ AskingRegime(p, s))
  BY <1>0
<1>2. slots \in [Players -> Seq(SlotRecords)] /\ PlansKept
  BY DEF ScheduleInv
<1>3. PICK r \in SlotRecords :
        /\ r.act = slots[p][s].act /\ r.revealed = TRUE /\ r.outcome = slots[p][s].outcome
        /\ RewritesSlot(p, s, r)
  <2>1. "NONE" \in Outcomes
    BY DEF Outcomes
  <2> QED BY <1>1, <1>2, <2>1, RewriteForms
<1>4. /\ slots' \in [Players -> Seq(SlotRecords)]
      /\ PlansKept'
      /\ \A q \in Players :
           /\ DOMAIN slots'[q] = DOMAIN slots[q]
           /\ \A u \in DOMAIN slots[q] :
                slots'[q][u] = IF q = p /\ u = s THEN r ELSE slots[q][u]
  BY <1>2, <1>3, SlotRewritten
<1>5. PICK i \in Seats :
        /\ At = <<i, s>> /\ p = Order[i] /\ s \in 1 .. 3 /\ ~ Decided(p, s)
        /\ \A k \in Seats : \A u \in DOMAIN slots[Order[k]] :
             Decided(Order[k], u) <=> Precedes(k, u, i, s)
  BY <1>1, SlotUnderCursor
<1>6. i \in 1 .. Len(Order) + 1
  BY <1>5, SeatsProperties
<1>7. cursor' = [p |-> i, s |-> s, status |-> "SUSPENDED"] /\ current' = <<p, s>>
  BY <1>1, <1>5 DEF Suspend
<1>8. /\ cursor' \in [p : 1 .. Len(Order) + 1, s : 1 .. 4,
                      status : {"READY", "SUSPENDED", "COMPLETE"}]
      /\ cursor'.p = i /\ cursor'.s = s /\ cursor'.status = "SUSPENDED"
      /\ current' \in Players \X (1 .. 3)
  BY <1>5, <1>6, <1>7
<1>9. s \in DOMAIN slots'[p] /\ slots'[p][s].outcome = "NONE" /\ slots'[p][s].act = slots[p][s].act
  BY <1>3, <1>4, <1>5 DEF Decided
<1>10. CursorStands'
  BY <1>5, <1>8, <1>9 DEF CursorStands
<1>11. SlotsInOrder'
  <2> SUFFICES ASSUME NEW k \in Seats, NEW u \in DOMAIN slots'[Order[k]]
               PROVE  /\ slots'[Order[k]][u].outcome # "NONE" <=> Precedes(k, u, i, s)
                      /\ slots'[Order[k]][u].revealed <=>
                           (slots'[Order[k]][u].outcome # "NONE" \/ <<p, s>> = <<Order[k], u>>)
    BY <1>7 DEF SlotsInOrder, Decided, Behind, Precedes, Seats
  <2>1. Order[k] \in Players /\ (Order[k] = p <=> k = i)
    BY <1>5, SeatsProperties
  <2>2. u \in DOMAIN slots[Order[k]]
        /\ slots'[Order[k]][u] = IF k = i /\ u = s THEN r ELSE slots[Order[k]][u]
    BY <1>4, <2>1
  <2>3. slots'[Order[k]][u].outcome = slots[Order[k]][u].outcome
    BY <1>3, <1>5, <2>2
  <2>4. slots'[Order[k]][u].outcome # "NONE" <=> Precedes(k, u, i, s)
    BY <1>5, <2>2, <2>3 DEF Decided
  <2>5. CASE k = i /\ u = s
    BY <1>3, <1>5, <2>2, <2>4, <2>5
  <2>6. CASE ~ (k = i /\ u = s)
    <3>1. slots'[Order[k]][u] = slots[Order[k]][u]
      BY <2>2, <2>6
    <3>2. slots[Order[k]][u].revealed <=> slots[Order[k]][u].outcome # "NONE"
      BY <1>1, <2>1, <2>2, <2>6, OthersRevealed DEF Decided
    <3>3. <<p, s>> # <<Order[k], u>>
      BY <2>1, <2>6
    <3> QED BY <2>4, <3>1, <3>2, <3>3
  <2> QED BY <2>5, <2>6
<1>12. CASE AskingPlayer(p, s)
  <2>1. /\ choice' = None /\ choice' \in Choices /\ pending' \in Pendings
        /\ pending' # None /\ pending'.p = p /\ pending'.s = s
        /\ Activates(Act(p, s)) <=> pending'.kind # "REGIME_MANUAL_DIE"
        /\ pending'.kind = "REGIME_MANUAL_DIE" => Act(p, s).type = "REGIME" /\ p \notin regimeUsed'
    BY <1>12 DEF AskingPlayer, Choices
  <2>2. SuspensionOwnsSlot'
    <3>1. /\ cursor'.p \in Seats
          /\ <<pending'.p, pending'.s>> = <<Order[cursor'.p], cursor'.s>>
          /\ current' = <<pending'.p, pending'.s>>
          /\ slots'[pending'.p][pending'.s].outcome = "NONE"
          /\ Activates(slots'[pending'.p][pending'.s].act) <=> pending'.kind # "REGIME_MANUAL_DIE"
      BY <1>5, <1>7, <1>8, <1>9, <2>1 DEF Act, Activates
    <3> QED BY <1>8, <2>1, <3>1 DEF SuspensionOwnsSlot, Decided, Act, Activates, Seats
  <2>3. OnTable'
    BY <1>7, <1>9, <2>1 DEF OnTable
  <2>4. DieBelongs'
    BY <1>9, <2>1 DEF DieBelongs, Act
  <2> QED BY <1>4, <1>8, <1>10, <1>11, <2>1, <2>2, <2>3, <2>4 DEF ScheduleInv
<1>13. CASE AskingRegime(p, s)
  <2>1. /\ pending' = None /\ pending' \in Pendings /\ choice' \in Choices
        /\ choice' # None /\ choice'.p = p /\ choice'.s = s
        /\ Act(p, s).type = "REGIME" /\ p \notin regimeUsed'
    BY <1>13 DEF AskingRegime, Pendings
  <2>2. SuspensionOwnsSlot'
    <3>1. /\ cursor'.p \in Seats
          /\ <<choice'.p, choice'.s>> = <<Order[cursor'.p], cursor'.s>>
          /\ current' = <<choice'.p, choice'.s>>
          /\ slots'[choice'.p][choice'.s].outcome = "NONE"
          /\ slots'[choice'.p][choice'.s].act.type = "REGIME"
      BY <1>5, <1>7, <1>8, <1>9, <2>1 DEF Act
    <3> QED BY <1>8, <2>1, <3>1 DEF SuspensionOwnsSlot, Decided, Act, Seats
  <2>3. OnTable'
    <3>1. choice'.s > 0
      BY <1>5, <2>1
    <3> QED BY <1>7, <1>9, <2>1, <3>1 DEF OnTable
  <2>4. DieBelongs'
    BY <2>1 DEF DieBelongs, None
  <2> QED BY <1>4, <1>8, <1>10, <1>11, <2>1, <2>2, <2>3, <2>4 DEF ScheduleInv
<1> QED BY <1>1, <1>12, <1>13

\* A regime slot that is answered, and moves the cursor itself, keeps the invariant.
LEMMA AnsweredKeeps ==
  ASSUME ScheduleInv, Answered
  PROVE  ScheduleInv'
<1> DEFINE p == choice.p
           s == choice.s
           i == cursor.p
<1>1. /\ choice # None /\ s > 0 /\ AdvanceInline(p, s) /\ pending' = pending /\ choice' = None
      /\ choice \in Choices
  BY DEF Answered, ScheduleInv
<1>2. /\ pending = None /\ i \in Seats /\ <<p, s>> = <<Order[i], cursor.s>> /\ current = <<p, s>>
  BY <1>1 DEF ScheduleInv, SuspensionOwnsSlot
<1>3. p \in Players /\ p = Order[i] /\ s = cursor.s /\ s \in 1 .. 3
  BY <1>1, <1>2, ChoiceShape
<1> HIDE DEF p, s, i
<1>4. s \in DOMAIN slots[p] /\ AtSlot(p, s)
  BY <1>2, <1>3, OpenSlot DEF i
<1>5. slots \in [Players -> Seq(SlotRecords)] /\ PlansKept
  BY DEF ScheduleInv
<1>6. PICK r \in SlotRecords :
        /\ r.act = slots[p][s].act /\ r.outcome = "RESOLVED"
        /\ r.revealed = slots[p][s].revealed
        /\ RewritesSlot(p, s, r)
  <2>1. "NONE" \in Outcomes
    BY DEF Outcomes
  <2> QED BY <1>1, <1>3, <1>4, <1>5, <2>1, RewriteForms
<1>7. /\ slots' \in [Players -> Seq(SlotRecords)]
      /\ PlansKept'
      /\ \A q \in Players :
           /\ DOMAIN slots'[q] = DOMAIN slots[q]
           /\ \A u \in DOMAIN slots[q] :
                slots'[q][u] = IF q = p /\ u = s THEN r ELSE slots[q][u]
  BY <1>3, <1>4, <1>5, <1>6, SlotRewritten
<1>8. \A k \in Seats : \A u \in DOMAIN slots[Order[k]] :
        Decided(Order[k], u) <=> Precedes(k, u, i, s)
  BY <1>3 DEF ScheduleInv, SlotsInOrder, Behind, Precedes, i
<1>9. slots[p][s].revealed
  BY <1>2, <1>3, <1>4 DEF ScheduleInv, SlotsInOrder
<1> DEFINE over == s + 1 > Len(slots[p])
           j == IF over THEN i + 1 ELSE i
           t == IF over THEN 1 ELSE s + 1
<1>10. /\ cursor' = [p |-> j, s |-> t, status |-> IF j \in Seats THEN "READY" ELSE "COMPLETE"]
       /\ current' = <<>>
  BY <1>1 DEF AdvanceInline, i
<1>11. PICK n \in 0 .. 3 : n = Len(slots[p]) /\ DOMAIN slots[p] = 1 .. n
  BY <1>3, <1>5, PlanShape
<1>12. Len(Order) \in Nat /\ i \in Nat /\ i >= 1 /\ i <= Len(Order)
  BY <1>2, SeatsProperties
<1>13. /\ s \in 1 .. n
       /\ over <=> s + 1 > n
       /\ ~ over => s + 1 \in 1 .. n
  BY <1>3, <1>4, <1>11
<1>14. j \in 1 .. Len(Order) + 1 /\ t \in 1 .. 4
  <2>1. \A m \in Nat : i <= m => i + 1 \in 1 .. m + 1 /\ i \in 1 .. m + 1
    BY <1>12
  <2>2. i + 1 \in 1 .. Len(Order) + 1 /\ i \in 1 .. Len(Order) + 1
    BY <1>12, <2>1
  <2>3. 1 \in 1 .. 4 /\ s + 1 \in 1 .. 4
    BY <1>3
  <2> QED BY <2>2, <2>3
<1>15. \A k \in Seats : \A u \in DOMAIN slots[Order[k]] :
         Precedes(k, u, j, t) <=> Precedes(k, u, i, s) \/ (k = i /\ u = s)
  <2> TAKE k \in Seats
  <2> TAKE u \in DOMAIN slots[Order[k]]
  <2>1. k \in Nat /\ Order[k] \in Players
    BY SeatsProperties
  <2>2. u \in 1 .. 3
    BY <1>5, <2>1, PlanShape
  <2>3. k = i => u <= n
    BY <1>3, <1>11
  <2>4. CASE over
    <3>1. j = i + 1 /\ t = 1
      BY <2>4
    <3> HIDE DEF over, j, t
    <3> QED BY <1>3, <1>12, <1>13, <2>1, <2>2, <2>3, <2>4, <3>1 DEF Precedes
  <2>5. CASE ~ over
    <3>1. j = i /\ t = s + 1
      BY <2>5
    <3> HIDE DEF over, j, t
    <3> QED BY <1>3, <1>12, <2>1, <2>2, <3>1 DEF Precedes
  <2> QED BY <2>4, <2>5
<1>16. CursorStands'
  <2>1. cursor'.p = j /\ cursor'.s = t
    BY <1>10
  <2>2. CASE over
    BY <2>1, <2>2 DEF CursorStands
  <2>3. CASE ~ over
    <3>1. j = i /\ t = s + 1 /\ s + 1 \in DOMAIN slots[p]
      BY <1>11, <1>13, <2>3
    <3> HIDE DEF over, j, t
    <3> QED BY <1>3, <1>7, <2>1, <3>1 DEF CursorStands
  <2> QED BY <2>2, <2>3
<1> HIDE DEF j, t, over
<1>17. SlotsInOrder'
  <2> SUFFICES ASSUME NEW k \in Seats, NEW u \in DOMAIN slots'[Order[k]]
               PROVE  /\ slots'[Order[k]][u].outcome # "NONE" <=> Precedes(k, u, j, t)
                      /\ slots'[Order[k]][u].revealed <=> slots'[Order[k]][u].outcome # "NONE"
    <3>1. \A q, v : <<q, v>> # <<>>
      OBVIOUS
    <3> QED BY <1>10, <3>1 DEF SlotsInOrder, Decided, Behind, Precedes, Seats
  <2>1. Order[k] \in Players /\ (Order[k] = p <=> k = i)
    BY <1>2, <1>3, SeatsProperties
  <2>2. u \in DOMAIN slots[Order[k]]
        /\ slots'[Order[k]][u] = IF k = i /\ u = s THEN r ELSE slots[Order[k]][u]
    BY <1>7, <2>1
  <2>3. CASE k = i /\ u = s
    BY <1>6, <1>9, <1>15, <2>2, <2>3
  <2>4. CASE ~ (k = i /\ u = s)
    <3>1. slots'[Order[k]][u] = slots[Order[k]][u]
      BY <2>2, <2>4
    <3>2. slots[Order[k]][u].revealed <=> slots[Order[k]][u].outcome # "NONE"
      BY <1>3, <1>4, <2>1, <2>2, <2>4, OthersRevealed DEF Decided
    <3> QED BY <1>8, <1>15, <2>2, <2>4, <3>1, <3>2 DEF Decided
  <2> QED BY <2>3, <2>4
<1>18. /\ cursor' \in [p : 1 .. Len(Order) + 1, s : 1 .. 4,
                       status : {"READY", "SUSPENDED", "COMPLETE"}]
       /\ cursor'.status # "SUSPENDED"
  BY <1>10, <1>14
<1>19. SuspensionOwnsSlot'
  BY <1>1, <1>2, <1>18 DEF SuspensionOwnsSlot
<1>20. OnTable' /\ DieBelongs'
  BY <1>1, <1>2, <1>10 DEF OnTable, DieBelongs, None
<1>21. pending' \in Pendings /\ choice' \in Choices
  BY <1>1, <1>2 DEF Pendings, Choices
<1> QED BY <1>7, <1>10, <1>16, <1>17, <1>18, <1>19, <1>20, <1>21 DEF ScheduleInv

\* A question to FLUMA between two slots keeps the invariant.
LEMMA TriggeredKeeps ==
  ASSUME ScheduleInv, Triggered
  PROVE  ScheduleInv'
<1>1. /\ pending = None /\ choice = None /\ pending' = None
      /\ choice' \in Choices /\ choice' # None /\ choice'.s = 0
      /\ cursor' = [cursor EXCEPT !.status = "SUSPENDED"]
      /\ slots' = slots /\ current' = current
  BY DEF Triggered
<1>2. /\ cursor' \in [p : 1 .. Len(Order) + 1, s : 1 .. 4,
                      status : {"READY", "SUSPENDED", "COMPLETE"}]
      /\ cursor'.p = cursor.p /\ cursor'.s = cursor.s /\ cursor'.status = "SUSPENDED"
  BY <1>1 DEF ScheduleInv
<1>3. current = <<>>
  BY <1>1 DEF ScheduleInv, OnTable
<1>4. SuspensionOwnsSlot'
  BY <1>1, <1>2 DEF SuspensionOwnsSlot
<1>5. SlotsInOrder' /\ PlansKept' /\ CursorStands'
  BY <1>1, <1>2 DEF ScheduleInv, SlotsInOrder, PlansKept, CursorStands, Decided, Behind
<1>6. OnTable' /\ DieBelongs'
  BY <1>1, <1>3 DEF OnTable, DieBelongs, None
<1> QED BY <1>1, <1>2, <1>3, <1>4, <1>5, <1>6 DEF ScheduleInv

\* The answer to it, which leaves the cursor where it stands, keeps the invariant.
LEMMA CalmedKeeps ==
  ASSUME ScheduleInv, Calmed
  PROVE  ScheduleInv'
<1>1. /\ choice # None /\ choice.s = 0
      /\ pending' = pending /\ choice' = None
      /\ cursor' = [cursor EXCEPT !.status = IF cursor.p \in Seats THEN "READY" ELSE "COMPLETE"]
      /\ slots' = slots /\ current' = current
  BY DEF Calmed
<1>2. /\ cursor' \in [p : 1 .. Len(Order) + 1, s : 1 .. 4,
                      status : {"READY", "SUSPENDED", "COMPLETE"}]
      /\ cursor'.p = cursor.p /\ cursor'.s = cursor.s /\ cursor'.status # "SUSPENDED"
  BY <1>1 DEF ScheduleInv
<1>3. pending = None
  BY <1>1 DEF ScheduleInv, SuspensionOwnsSlot
<1>4. current = <<>>
  BY <1>1, <1>3 DEF ScheduleInv, OnTable
<1>5. SuspensionOwnsSlot'
  BY <1>1, <1>2, <1>3 DEF SuspensionOwnsSlot
<1>6. SlotsInOrder' /\ PlansKept' /\ CursorStands'
  BY <1>1, <1>2 DEF ScheduleInv, SlotsInOrder, PlansKept, CursorStands, Decided, Behind
<1>7. OnTable' /\ DieBelongs'
  BY <1>1, <1>3, <1>4 DEF OnTable, DieBelongs, None
<1>8. choice' \in Choices /\ pending' \in Pendings
  BY <1>1, <1>3 DEF Choices, Pendings
<1> QED BY <1>1, <1>2, <1>4, <1>5, <1>6, <1>7, <1>8 DEF ScheduleInv

\* What is remembered with a question may change.
LEMMA WaitingKeeps ==
  ASSUME ScheduleInv, Waiting
  PROVE  ScheduleInv'
<1>1. /\ slots' = slots /\ cursor' = cursor /\ current' = current
      /\ choice' = choice /\ regimeUsed' = regimeUsed
      /\ pending' \in Pendings /\ pending \in Pendings
      /\ pending'.kind = pending.kind
      /\ pending # None => pending'.p = pending.p /\ pending'.s = pending.s
  BY DEF Waiting, ScheduleInv, schedule
<1>2. pending' # None <=> pending # None
  BY <1>1, PendingShape
<1>3. SuspensionOwnsSlot'
  <2>1. CASE pending = None
    BY <1>1, <1>2, <2>1 DEF ScheduleInv, SuspensionOwnsSlot, Decided, Act
  <2>2. CASE pending # None
    BY <1>1, <1>2, <2>2 DEF ScheduleInv, SuspensionOwnsSlot, Decided, Act
  <2> QED BY <2>1, <2>2
<1>4. SlotsInOrder' /\ PlansKept' /\ CursorStands'
  BY <1>1 DEF ScheduleInv, SlotsInOrder, PlansKept, CursorStands, Decided, Behind
<1>5. OnTable'
  BY <1>1, <1>2 DEF ScheduleInv, OnTable
<1>6. DieBelongs'
  BY <1>1, <1>2, PendingShape DEF ScheduleInv, DieBelongs, Act, None
<1> QED BY <1>1, <1>3, <1>4, <1>5, <1>6 DEF ScheduleInv

\* Every step of the schedule keeps its invariant.
LEMMA ScheduleKept ==
  ASSUME ScheduleInv, StepOfSchedule
  PROVE  ScheduleInv'
BY DecidingKeeps, AskingKeeps, AnsweredKeeps, TriggeredKeeps, CalmedKeeps, WaitingKeeps
   DEF StepOfSchedule

-------------------------------------------------------------------------------
(***************************************************************************)
(* The data.                                                               *)
(***************************************************************************)
Entries == [by : Players, delta : Int, reason : Reasons]

Campaigns == {NoCampaign} \cup [kit : Kits, row : {"I", "II"}, count : Nat]

CardRecords == [zone : {"HAND", "CAMPAIGN", "DISCARD"}, ctrl : Players]

PurseTypes ==
  /\ resources \in [Players -> Nat]
  /\ ledger \in Seq(Entries)
  /\ coreUsed \subseteq Players

MatTypes ==
  /\ campaign \in [Players -> Campaigns]
  /\ narrated \subseteq Players
  /\ cards \in [Cards -> CardRecords]
  /\ boost \in [Players -> 0 .. 3]

Stacks == [Types -> [Players -> Nat]]

BoardTypes ==
  /\ influence \in [PDs -> Stacks]
  /\ legitimacy \in [PDs -> Players \cup {NoHolder}]
  /\ vp \in [Players -> Nat]

AbilityTypes ==
  /\ regimeUsed \subseteq Players
  /\ vetoed \subseteq Players
  /\ fluma \in [active : BOOLEAN, processed : SUBSET (1 .. Len(ledger))]

TableTypes ==
  /\ paused \in BOOLEAN
  /\ setup \in Openings
  /\ meddled \in 0 .. MaxMeddling

DataInv == PurseTypes /\ MatTypes /\ BoardTypes /\ AbilityTypes /\ TableTypes

\* The two parts of the invariant say all that the type invariant says.
LEMMA TypesOfInvariant ==
  ASSUME ScheduleInv, DataInv
  PROVE  TypeOK
BY DEF ScheduleInv, DataInv, PurseTypes, MatTypes, BoardTypes, AbilityTypes, TableTypes,
       TypeOK, Entries, Campaigns, CardRecords, Stacks, SlotRecords

\* A slot has the fields of its type.
LEMMA ActShape ==
  ASSUME NEW a \in SlotActions
  PROVE  /\ Activates(a) => a.pd \in PDs /\ a.of \in Players /\ a.core \in BOOLEAN
         /\ a.type = "BOOST" => a.seq \in 1 .. 3 /\ a.of \in Players
         /\ a.type = "CONSTRUCT" => a.kit \in Kits
BY DEF SlotActions, Activates

\* Campaigns have a kit, and its worth is known.
LEMMA KitShape ==
  ASSUME campaign \in [Players -> Campaigns], NEW p \in Players, campaign[p] # NoCampaign
  PROVE  /\ campaign[p] \in [kit : Kits, row : {"I", "II"}, count : Nat]
         /\ KitIn(p) \in [alignment : Types, cv : Nat, pair : {0, 2}, extra : Nat,
                          coalition : BOOLEAN, reach : SUBSET PDs]
BY KitAssumption DEF Campaigns, KitIn

\* A total of natural numbers is one.
LEMMA TotalNat ==
  ASSUME NEW S, IsFiniteSet(S), NEW f \in [S -> Nat]
  PROVE  Total(f) \in Nat /\ Total(f) = SumOver(f, S)
<1>1. Total(f) = SumOver(f, S)
  <2>1. DOMAIN f = S
    OBVIOUS
  <2> QED BY <2>1 DEF Total, FoldFunction, SumOver
<1>2. \A x \in S : f[x] \in Nat
  OBVIOUS
<1> QED BY <1>1, <1>2, SumNat

\* resolveTwoToOne takes no more than half of what is generated.
LEMMA RemovedBounds ==
  ASSUME NEW g \in Nat, NEW o \in Nat
  PROVE  Removed(g, o) \in Nat /\ 2 * Removed(g, o) <= g /\ Removed(g, o) <= o
         /\ Placed(g, o) \in Nat
<1>1. g \div 2 \in Nat /\ 2 * (g \div 2) <= g
  OBVIOUS
<1>2. PICK h \in Nat : h = g \div 2
  BY <1>1
<1>3. Removed(g, o) = (IF h < o THEN h ELSE o) /\ 2 * h <= g
  BY <1>1, <1>2 DEF Removed
<1> QED BY <1>3 DEF Placed

\* A campaign costs one to three, plus its components and the core modifier.
LEMMA BaseCostPositive ==
  ASSUME NEW cv \in Nat
  PROVE  BaseCost(cv) \in 1 .. 3
<1>1. Tier(cv) \in {"LOW", "MEDIUM", "HIGH"}
  BY DEF Tier
<1> QED BY <1>1 DEF BaseCost

\* A price and its parts are natural numbers, and the base cost is positive.
LEMMA PriceNat ==
  ASSUME campaign \in [Players -> Campaigns], NEW p \in Players, campaign[p] # NoCampaign,
         NEW act
  PROVE  /\ Price(p, act) \in Nat
         /\ CoreCost(act) \in Nat
         /\ BaseCost(KitIn(p).cv) \in 1 .. 3
         /\ KitIn(p).extra \in Nat
<1>1. KitIn(p).cv \in Nat /\ KitIn(p).extra \in Nat
  BY KitShape
<1>2. BaseCost(KitIn(p).cv) \in 1 .. 3
  BY <1>1, BaseCostPositive
<1>3. CoreCost(act) \in Nat
  BY DEF CoreCost
<1> QED BY <1>1, <1>2, <1>3 DEF Price

\* The effect resolution table has a whole number in every cell.
LEMMA ErtInt ==
  ASSUME NEW tier \in {"LOW", "MEDIUM", "HIGH"}, NEW t \in Types, NEW modified \in Int
  PROVE  Ert(tier, t, modified) \in Int
<1>1. PICK r \in 1 .. 10 : r = ErtRoll(modified)
  BY DEF ErtRoll
<1>2. ErtTable[t][tier] \in [1 .. 10 -> Int]
  <2>1. ErtTable["MALIGN"].LOW \in [1 .. 10 -> Int]
    <3>1. <<-2, -1, -1, 0, 0, 1, 1, 1, 2, 2>> \in [1 .. 10 -> Int]
      OBVIOUS
    <3> QED BY <3>1 DEF ErtTable
  <2>2. ErtTable["MALIGN"].MEDIUM \in [1 .. 10 -> Int]
    <3>1. <<-2, -1, -1, 0, 1, 1, 2, 2, 3, 3>> \in [1 .. 10 -> Int]
      OBVIOUS
    <3> QED BY <3>1 DEF ErtTable
  <2>3. ErtTable["MALIGN"].HIGH \in [1 .. 10 -> Int]
    <3>1. <<-2, -1,  0, 1, 1, 2, 3, 3, 4, 4>> \in [1 .. 10 -> Int]
      OBVIOUS
    <3> QED BY <3>1 DEF ErtTable
  <2>4. ErtTable["RESILIENCY"].LOW \in [1 .. 10 -> Int]
    <3>1. <<-1, -1, 0, 0, 0, 1, 1, 1, 2, 2>> \in [1 .. 10 -> Int]
      OBVIOUS
    <3> QED BY <3>1 DEF ErtTable
  <2>5. ErtTable["RESILIENCY"].MEDIUM \in [1 .. 10 -> Int]
    <3>1. <<-1,  0, 0, 0, 1, 1, 2, 2, 3, 3>> \in [1 .. 10 -> Int]
      OBVIOUS
    <3> QED BY <3>1 DEF ErtTable
  <2>6. ErtTable["RESILIENCY"].HIGH \in [1 .. 10 -> Int]
    <3>1. <<-1,  0, 0, 1, 1, 2, 3, 3, 4, 4>> \in [1 .. 10 -> Int]
      OBVIOUS
    <3> QED BY <3>1 DEF ErtTable
  <2> QED BY <2>1, <2>2, <2>3, <2>4, <2>5, <2>6 DEF Types
<1>3. ErtTable[t][tier][r] \in Int
  BY <1>2
<1> QED BY <1>1, <1>3 DEF Ert

-------------------------------------------------------------------------------
(***************************************************************************)
(* An activation.                                                          *)
(***************************************************************************)
\* A ledger grows and what is in it stays.
Extends(new, old) ==
  /\ new \in Seq(Entries)
  /\ Len(new) >= Len(old)
  /\ \A i \in DOMAIN old : i \in DOMAIN new /\ new[i] = old[i]

\* A charge is at most one entry more.
LEMMA ChargeExtends ==
  ASSUME NEW old \in Seq(Entries), NEW p \in Players, NEW amount \in Int, NEW reason \in Reasons
  PROVE  Extends(Charge(old, p, amount, reason), old)
<1>1. CASE amount = 0
  BY <1>1 DEF Charge, Extends
<1>2. CASE amount # 0
  <2> DEFINE e == [by |-> p, delta |-> -amount, reason |-> reason]
  <2>1. e \in Entries
    BY DEF Entries
  <2>2. Charge(old, p, amount, reason) = Append(old, e)
    BY <1>2 DEF Charge
  <2> HIDE DEF e
  <2>3. /\ Append(old, e) \in Seq(Entries)
        /\ Len(Append(old, e)) = Len(old) + 1
        /\ \A i \in 1 .. Len(old) : Append(old, e)[i] = old[i]
        /\ Len(old) \in Nat /\ DOMAIN old = 1 .. Len(old)
    BY <2>1, AppendProperties, LenProperties
  <2>4. DOMAIN Append(old, e) = 1 .. Len(old) + 1
    BY <2>3, LenProperties
  <2>5. Len(old) + 1 >= Len(old)
    BY <2>3
  <2>6. \A i \in 1 .. Len(old) : i \in 1 .. Len(old) + 1
    BY <2>3
  <2> QED BY <2>2, <2>3, <2>4, <2>5, <2>6 DEF Extends
<1> QED BY <1>1, <1>2

\* A ledger that has grown twice has grown.
LEMMA ExtendsTwice ==
  ASSUME NEW a \in Seq(Entries), NEW b, NEW c, Extends(b, a), Extends(c, b)
  PROVE  Extends(c, a)
<1>1. Len(a) \in Nat /\ Len(b) \in Nat /\ Len(c) \in Nat
  BY LenProperties DEF Extends
<1> QED BY <1>1 DEF Extends

\* Cubes are taken from those who have them.
LEMMA CutsShape ==
  ASSUME BoardTypes, NEW pd \in PDs, NEW t \in Types, NEW n \in Nat, NEW cut \in Cuts(pd, t, n)
  PROVE  /\ cut \in [Players -> Nat]
         /\ \A q \in Players : cut[q] <= influence[pd][t][q]
         /\ Total(cut) = n
BY DEF Cuts

\* Cubes that are cut and placed leave natural numbers of cubes.
LEMMA ShiftedType ==
  ASSUME NEW stacks \in Stacks, NEW t \in Types, NEW p \in Players, NEW placed \in Nat,
         NEW cut \in [Players -> Nat], \A q \in Players : cut[q] <= stacks[Opposite(t)][q]
  PROVE  Shifted(stacks, t, p, placed, cut) \in Stacks
<1>1. ASSUME NEW u \in Types
      PROVE  (IF u = t THEN [stacks[u] EXCEPT ![p] = @ + placed]
              ELSE [q \in Players |-> stacks[u][q] - cut[q]]) \in [Players -> Nat]
  <2>1. stacks[u] \in [Players -> Nat]
    BY DEF Stacks
  <2>2. CASE u = t
    BY <2>1, <2>2
  <2>3. CASE u # t
    <3>1. u = Opposite(t)
      BY <2>3 DEF Opposite, Types
    <3>2. \A q \in Players : stacks[u][q] - cut[q] \in Nat
      BY <2>1, <3>1
    <3> QED BY <2>3, <3>2
  <2> QED BY <2>2, <2>3
<1> QED BY <1>1 DEF Shifted, Stacks

\* The opposing cubes of a demographic are counted.
LEMMA OpposingNat ==
  ASSUME BoardTypes, NEW pd \in PDs, NEW t \in Types
  PROVE  Opposing(pd, t) \in Nat
<1>1. Opposite(t) \in Types
  BY DEF Opposite, Types
<1>2. influence[pd][Opposite(t)] \in [Players -> Nat]
  BY <1>1 DEF BoardTypes, Stacks
<1> QED BY <1>2, PlayersFinite, TotalNat DEF Opposing

\* The end of an activation changes the board as the rules say.
LEMMA CompleteTypes ==
  ASSUME BoardTypes, campaign \in [Players -> Campaigns],
         NEW p \in Players, NEW s, campaign[p] # NoCampaign, Act(p, s).pd \in PDs,
         NEW generated \in Types, NEW count \in Nat, NEW result \in Int,
         NEW before, NEW n \in Nat,
         NEW cut \in Cuts(Act(p, s).pd, Opposite(generated), n),
         Complete(p, s, generated, count, result, before, cut)
  PROVE  /\ BoardTypes'
         /\ campaign' \in [Players -> Campaigns]
         /\ campaign' = [campaign EXCEPT ![p].count = @ + 1]
         /\ Decide(p, s, "RESOLVED")
<1> DEFINE pd == Act(p, s).pd
           placed == count - 2 * Total(cut)
<1>1. Opposite(generated) \in Types /\ Opposing(pd, generated) \in Nat
  BY OpposingNat DEF Opposite, Types
<1>2. /\ cut \in [Players -> Nat]
      /\ \A q \in Players : cut[q] <= influence[pd][Opposite(generated)][q]
  BY <1>1, CutsShape
<1>3. Total(cut) = Removed(count, Opposing(pd, generated))
  BY DEF Complete
<1>4. Total(cut) \in Nat /\ placed \in Nat
  <2>1. PICK r \in Nat : r = Removed(count, Opposing(pd, generated)) /\ 2 * r <= count
    BY <1>1, RemovedBounds
  <2>2. Total(cut) = r
    BY <1>3, <2>1
  <2>3. count - 2 * r \in Nat
    BY <2>1
  <2> QED BY <2>1, <2>2, <2>3
<1>5. /\ influence' = [influence EXCEPT ![pd] = Shifted(@, generated, p, placed, cut)]
      /\ \/ legitimacy' = legitimacy
         \/ legitimacy' = [legitimacy EXCEPT ![pd] = p]
         \/ legitimacy' = [legitimacy EXCEPT ![pd] = NoHolder]
      /\ \E c \in {0, 1} :
         vp' = [vp EXCEPT ![p] =
                  CASE result > 0 -> @ + placed + c
                    [] result < 0 -> IF @ < placed THEN 0 ELSE @ - placed
                    [] OTHER -> @]
      /\ campaign' = [campaign EXCEPT ![p].count = @ + 1]
      /\ Decide(p, s, "RESOLVED")
  BY DEF Complete
<1> HIDE DEF pd, placed
<1>6. influence' \in [PDs -> Stacks]
  <2>1. influence[pd] \in Stacks
    BY DEF BoardTypes, pd
  <2>2. Shifted(influence[pd], generated, p, placed, cut) \in Stacks
    BY <1>2, <1>4, <2>1, ShiftedType
  <2> QED BY <1>5, <2>2 DEF BoardTypes
<1>7. legitimacy' \in [PDs -> Players \cup {NoHolder}]
  BY <1>5 DEF BoardTypes
<1>8. vp' \in [Players -> Nat]
  <2>1. vp \in [Players -> Nat]
    BY DEF BoardTypes
  <2>2. PICK c \in {0, 1} :
         vp' = [vp EXCEPT ![p] =
                  CASE result > 0 -> vp[p] + placed + c
                    [] result < 0 -> IF vp[p] < placed THEN 0 ELSE vp[p] - placed
                    [] OTHER -> vp[p]]
    BY <1>5
  <2>3. \A x \in Nat : (CASE result > 0 -> x + placed + c
                          [] result < 0 -> IF x < placed THEN 0 ELSE x - placed
                          [] OTHER -> x) \in Nat
    BY <1>4
  <2>4. (CASE result > 0 -> vp[p] + placed + c
           [] result < 0 -> IF vp[p] < placed THEN 0 ELSE vp[p] - placed
           [] OTHER -> vp[p]) \in Nat
    BY <2>1, <2>3
  <2> QED BY <2>1, <2>2, <2>4
<1>9. campaign' \in [Players -> Campaigns]
  <2>1. PICK r \in [kit : Kits, row : {"I", "II"}, count : Nat] : r = campaign[p]
    BY KitShape
  <2>2. [r EXCEPT !.count = @ + 1] \in Campaigns
    BY DEF Campaigns
  <2>3. campaign' = [campaign EXCEPT ![p] = [r EXCEPT !.count = @ + 1]]
    BY <1>5, <2>1
  <2> QED BY <2>2, <2>3
<1> QED BY <1>5, <1>6, <1>7, <1>8, <1>9 DEF BoardTypes

\* What is known when the die of an activation is rolled or asked for.
Activation(p, s) ==
  /\ p \in Players
  /\ s \in DOMAIN slots[p]
  /\ Activates(Act(p, s))
  /\ campaign[p] # NoCampaign

\* The payment of a campaign, of its components and of the core modifier.
Payment(p, act, led) ==
  Charge(Charge(Charge(led, p, BaseCost(KitIn(p).cv), "CAMPAIGN_ACTIVATION_COST"),
                p, KitIn(p).extra, "CAMPAIGN_COMPONENT_COST"),
         p, CoreCost(act), "CORE_ROLL_MODIFIER")

\* The slot and the campaign of an activation have the fields the roll reads.
LEMMA ActivationShape ==
  ASSUME ScheduleInv, MatTypes, NEW p, NEW s, Activation(p, s)
  PROVE  /\ Act(p, s) \in SlotActions
         /\ Act(p, s).pd \in PDs /\ Act(p, s).of \in Players /\ Act(p, s).core \in BOOLEAN
         /\ s \in 1 .. 3
         /\ KitIn(p) \in [alignment : Types, cv : Nat, pair : {0, 2}, extra : Nat,
                          coalition : BOOLEAN, reach : SUBSET PDs]
         /\ Price(p, Act(p, s)) \in Nat
<1>1. slots \in [Players -> Seq(SlotRecords)] /\ PlansKept /\ p \in Players /\ s \in DOMAIN slots[p]
  BY DEF ScheduleInv, Activation
<1>2. s \in 1 .. 3 /\ slots[p][s] \in SlotRecords
  BY <1>1, PlanShape
<1>3. Act(p, s) \in SlotActions
  BY <1>2 DEF Act, SlotRecords
<1>4. Act(p, s).pd \in PDs /\ Act(p, s).of \in Players /\ Act(p, s).core \in BOOLEAN
  BY <1>3, ActShape DEF Activation
<1>5. campaign \in [Players -> Campaigns] /\ campaign[p] # NoCampaign
  BY DEF MatTypes, Activation
<1> QED BY <1>1, <1>2, <1>3, <1>4, <1>5, KitShape, PriceNat

\* The three entries of a payment only add to the ledger.
LEMMA PaymentExtends ==
  ASSUME MatTypes, NEW p \in Players, campaign[p] # NoCampaign, NEW act,
         NEW led \in Seq(Entries)
  PROVE  Extends(Payment(p, act, led), led)
<1>1. /\ BaseCost(KitIn(p).cv) \in Int /\ KitIn(p).extra \in Int /\ CoreCost(act) \in Int
  BY PriceNat DEF MatTypes
<1>2. /\ "CAMPAIGN_ACTIVATION_COST" \in Reasons /\ "CAMPAIGN_COMPONENT_COST" \in Reasons
      /\ "CORE_ROLL_MODIFIER" \in Reasons
  BY DEF Reasons
<1> DEFINE a == Charge(led, p, BaseCost(KitIn(p).cv), "CAMPAIGN_ACTIVATION_COST")
           b == Charge(a, p, KitIn(p).extra, "CAMPAIGN_COMPONENT_COST")
           c == Charge(b, p, CoreCost(act), "CORE_ROLL_MODIFIER")
<1>3. Extends(a, led) /\ a \in Seq(Entries)
  BY <1>1, <1>2, ChargeExtends DEF Extends
<1> HIDE DEF a
<1>4. Extends(b, a) /\ b \in Seq(Entries)
  BY <1>1, <1>2, <1>3, ChargeExtends DEF Extends
<1> HIDE DEF b
<1>5. Extends(c, b)
  BY <1>1, <1>2, <1>4, ChargeExtends
<1> HIDE DEF c
<1>6. Extends(b, led)
  BY <1>3, <1>4, ExtendsTwice
<1>7. Extends(c, led)
  BY <1>5, <1>6, ExtendsTwice
<1> QED BY <1>7 DEF a, b, c, Payment

\* What the roll of a die may do.
LEMMA PayAndRollDoes ==
  ASSUME ScheduleInv, MatTypes, BoardTypes, coreUsed \subseteq Players,
         NEW p, NEW s, Activation(p, s),
         NEW bonus \in Nat, NEW roll \in Int,
         NEW res \in [Players -> Nat], NEW led \in Seq(Entries),
         PayAndRoll(p, s, bonus, roll, res, led)
  PROVE  /\ resources' = [res EXCEPT ![p] = @ - Price(p, Act(p, s))]
         /\ resources' \in [Players -> Nat]
         /\ ledger' = Payment(p, Act(p, s), led)
         /\ Extends(ledger', led)
         /\ coreUsed' \subseteq Players
         /\ cards' \in [Cards -> CardRecords]
         /\ boost' \in [Players -> 0 .. 3]
         /\ BoardTypes'
         /\ campaign' \in [Players -> Campaigns]
         /\ \/ /\ Suspend(p, s)
               /\ pending' \in Pendings
               /\ pending'.kind = "CHOICE" /\ pending'.p = p /\ pending'.s = s
               /\ campaign' = campaign
            \/ /\ Decide(p, s, "RESOLVED")
               /\ pending' = None
               /\ campaign' = [campaign EXCEPT ![p].count = @ + 1]
<1> DEFINE act == Act(p, s)
           kit == KitIn(p)
           modified == roll + (IF legitimacy[act.pd] = p THEN 1 ELSE 0)
                            + (IF boost[p] = s THEN 1 ELSE 0) + (IF act.core THEN 1 ELSE 0)
           result == Ert(Tier(kit.cv + kit.pair + bonus), kit.alignment, modified)
           generated == IF result >= 0 THEN kit.alignment ELSE Opposite(kit.alignment)
           count == IF result >= 0 THEN result ELSE -result
           removals == Removed(count, Opposing(act.pd, generated))
           options == {q \in Players : influence[act.pd][Opposite(generated)][q] > 0}
<1>1. /\ act.core => p \notin coreUsed
      /\ res[p] >= Price(p, act)
      /\ resources' = [res EXCEPT ![p] = @ - Price(p, act)]
      /\ ledger' = Payment(p, act, led)
      /\ coreUsed' = coreUsed \cup {q \in {p} : act.core}
      /\ cards' = (IF boost[p] = s THEN [cards EXCEPT ![<<p, "boost">>].zone = "DISCARD"] ELSE cards)
      /\ boost' = (IF boost[p] = s THEN [boost EXCEPT ![p] = 0] ELSE boost)
  BY DEF PayAndRoll, Payment
<1>2. \/ /\ pending' = [kind |-> "CHOICE", p |-> p, s |-> s,
                        generated |-> generated, count |-> count,
                        result |-> result, removals |-> removals,
                        options |-> options, before |-> legitimacy[act.pd]]
         /\ Suspend(p, s)
         /\ UNCHANGED <<campaign, board>>
      \/ /\ pending' = None
         /\ \E cut \in Cuts(act.pd, Opposite(generated), removals) :
              Complete(p, s, generated, count, result, legitimacy[act.pd], cut)
  BY DEF PayAndRoll
<1>3. /\ act.pd \in PDs /\ act.core \in BOOLEAN /\ p \in Players /\ s \in 1 .. 3
      /\ kit \in [alignment : Types, cv : Nat, pair : {0, 2}, extra : Nat,
                  coalition : BOOLEAN, reach : SUBSET PDs]
      /\ Price(p, act) \in Nat /\ campaign[p] # NoCampaign
  BY ActivationShape DEF Activation
<1>4. result \in Int
  <2>1. modified \in Int
    OBVIOUS
  <2>2. Tier(kit.cv + kit.pair + bonus) \in {"LOW", "MEDIUM", "HIGH"}
    BY DEF Tier
  <2>3. kit.alignment \in Types
    BY <1>3
  <2> HIDE DEF modified, kit
  <2> QED BY <2>1, <2>2, <2>3, ErtInt
<1> HIDE DEF modified, result
<1>5. generated \in Types /\ count \in Nat
  BY <1>3, <1>4 DEF Opposite, Types
<1> HIDE DEF generated, count
<1>6. removals \in Nat /\ options \in SUBSET Players
  BY <1>3, <1>5, OpposingNat, RemovedBounds
<1> HIDE DEF removals, options, act, kit
<1>7. resources' \in [Players -> Nat]
  <2>1. res[p] - Price(p, act) \in Nat
    BY <1>1, <1>3
  <2> QED BY <1>1, <2>1
<1>8. Extends(ledger', led)
  BY <1>1, <1>3, PaymentExtends
<1>9. coreUsed' \subseteq Players
  BY <1>1, <1>3
<1>10. cards' \in [Cards -> CardRecords]
  BY <1>1 DEF MatTypes, CardRecords
<1>11. boost' \in [Players -> 0 .. 3]
  <2>1. boost \in [Players -> 0 .. 3] /\ 0 \in 0 .. 3
    BY DEF MatTypes
  <2>2. CASE boost[p] = s
    BY <1>1, <2>1, <2>2
  <2>3. CASE boost[p] # s
    BY <1>1, <2>1, <2>3
  <2> QED BY <2>2, <2>3
<1>12. CASE /\ pending' = [kind |-> "CHOICE", p |-> p, s |-> s,
                           generated |-> generated, count |-> count,
                           result |-> result, removals |-> removals,
                           options |-> options, before |-> legitimacy[act.pd]]
            /\ Suspend(p, s)
            /\ UNCHANGED <<campaign, board>>
  <2>1. legitimacy[act.pd] \in Players \cup {NoHolder}
    BY <1>3 DEF BoardTypes
  <2>2. pending' \in [kind : {"CHOICE"}, p : Players, s : 1 .. 3, generated : Types, count : Nat,
                      result : Int, removals : Nat, options : SUBSET Players,
                      before : Players \cup {NoHolder}]
    BY <1>3, <1>4, <1>5, <1>6, <1>12, <2>1
  <2>3. pending' \in Pendings
    BY <2>2 DEF Pendings
  <2>4. pending'.kind = "CHOICE" /\ pending'.p = p /\ pending'.s = s
    BY <1>12
  <2>5. campaign' \in [Players -> Campaigns] /\ BoardTypes' /\ campaign' = campaign
    BY <1>12 DEF MatTypes, BoardTypes, board
  <2> QED BY <1>1, <1>7, <1>8, <1>9, <1>10, <1>11, <1>12, <2>3, <2>4, <2>5 DEF act
<1>13. CASE /\ pending' = None
            /\ \E cut \in Cuts(act.pd, Opposite(generated), removals) :
                 Complete(p, s, generated, count, result, legitimacy[act.pd], cut)
  <2>1. PICK cut \in Cuts(act.pd, Opposite(generated), removals) :
           Complete(p, s, generated, count, result, legitimacy[act.pd], cut)
    BY <1>13
  <2>2. campaign \in [Players -> Campaigns]
    BY DEF MatTypes
  <2>3. /\ BoardTypes'
        /\ campaign' \in [Players -> Campaigns]
        /\ campaign' = [campaign EXCEPT ![p].count = @ + 1]
        /\ Decide(p, s, "RESOLVED")
    BY <1>3, <1>4, <1>5, <1>6, <2>1, <2>2, CompleteTypes DEF act
  <2> QED BY <1>1, <1>7, <1>8, <1>9, <1>10, <1>11, <1>13, <2>3 DEF act
<1> QED BY <1>2, <1>12, <1>13

\* How an activation goes on: somebody is asked, or it has its outcome.
Continues(p, s) ==
  \/ /\ Suspend(p, s)
     /\ pending' \in Pendings
     /\ pending'.kind \in {"NARRATIVE", "COALITION", "MANUAL_DIE", "CHOICE"}
     /\ pending'.p = p /\ pending'.s = s
  \/ \E o \in {"RESOLVED", "FAILED_COST", "NOT_EXECUTED"} :
       Decide(p, s, o) /\ pending' = None

\* An activation that goes on is a step of the schedule.
LEMMA ContinuesSchedule ==
  ASSUME ScheduleInv, NEW p \in Players, NEW s \in DOMAIN slots[p], AtSlot(p, s),
         Activates(Act(p, s)), Continues(p, s), choice' = None
  PROVE  StepOfSchedule
<1>1. ASSUME Suspend(p, s), pending' \in Pendings, pending'.p = p, pending'.s = s,
             pending'.kind \in {"NARRATIVE", "COALITION", "MANUAL_DIE", "CHOICE"}
      PROVE  Asking
  <2>1. pending' # None /\ pending'.kind # "REGIME_MANUAL_DIE"
    BY <1>1 DEF None
  <2>2. AskingPlayer(p, s)
    BY <1>1, <2>1 DEF AskingPlayer
  <2> QED BY <1>1, <2>2 DEF Asking
<1>2. ASSUME NEW o \in {"RESOLVED", "FAILED_COST", "NOT_EXECUTED"},
             Decide(p, s, o), pending' = None
      PROVE  Deciding
  <2>1. o \in Outcomes \ {"NONE"}
    BY <1>2 DEF Outcomes
  <2> QED BY <1>2, <2>1 DEF Deciding
<1> QED BY <1>1, <1>2 DEF Continues, StepOfSchedule

\* What a die that is rolled or asked for may do.
LEMMA RollOrAskDoes ==
  ASSUME ScheduleInv, MatTypes, BoardTypes, coreUsed \subseteq Players,
         NEW p, NEW s, Activation(p, s), NEW bonus \in Nat,
         NEW res \in [Players -> Nat], NEW led \in Seq(Entries),
         RollOrAsk(p, s, bonus, res, led), narrated' \subseteq Players
  PROVE  PurseTypes' /\ MatTypes' /\ BoardTypes' /\ Extends(ledger', led) /\ Continues(p, s)
<1>1. CASE /\ pending' = [kind |-> "MANUAL_DIE", p |-> p, s |-> s, bonus |-> bonus]
           /\ Suspend(p, s)
           /\ resources' = res
           /\ ledger' = led
           /\ UNCHANGED <<coreUsed, campaign, cards, boost, board>>
  <2>1. p \in Players /\ s \in 1 .. 3
    BY ActivationShape DEF Activation
  <2>2. pending' \in [kind : {"MANUAL_DIE"}, p : Players, s : 1 .. 3, bonus : Nat]
    BY <1>1, <2>1
  <2>3. Continues(p, s)
    BY <1>1, <2>2 DEF Continues, Pendings
  <2>4. PurseTypes' /\ MatTypes' /\ BoardTypes'
    BY <1>1 DEF PurseTypes, MatTypes, BoardTypes, board
  <2>5. Extends(ledger', led)
    <3>1. Len(led) \in Nat
      BY LenProperties
    <3> QED BY <1>1, <3>1 DEF Extends
  <2> QED BY <2>3, <2>4, <2>5
<1>2. ASSUME NEW roll \in Rolls, PayAndRoll(p, s, bonus, roll, res, led)
      PROVE  PurseTypes' /\ MatTypes' /\ BoardTypes' /\ Extends(ledger', led) /\ Continues(p, s)
  <2>1. roll \in Int
    BY RollAssumption
  <2>2. /\ resources' \in [Players -> Nat]
        /\ Extends(ledger', led)
        /\ coreUsed' \subseteq Players
        /\ cards' \in [Cards -> CardRecords]
        /\ boost' \in [Players -> 0 .. 3]
        /\ BoardTypes'
        /\ campaign' \in [Players -> Campaigns]
        /\ \/ /\ Suspend(p, s)
              /\ pending' \in Pendings
              /\ pending'.kind = "CHOICE" /\ pending'.p = p /\ pending'.s = s
           \/ Decide(p, s, "RESOLVED") /\ pending' = None
    BY <1>2, <2>1, PayAndRollDoes
  <2> QED BY <2>2 DEF PurseTypes, MatTypes, Continues, Extends
<1> QED BY <1>1, <1>2 DEF RollOrAsk

\* What the beginning of an activation may do.
LEMMA ResolveActivationDoes ==
  ASSUME ScheduleInv, DataInv, NEW p, NEW s, NEW repeat \in BOOLEAN,
         p \in Players, s \in DOMAIN slots[p], Activates(Act(p, s)), pending = None, choice = None,
         AtSlot(p, s),
         NEW res \in [Players -> Nat], NEW led \in Seq(Entries), Extends(led, ledger),
         NEW hand \in [Cards -> CardRecords],
         ResolveActivation(p, s, repeat, res, led, hand)
  PROVE  StepOfSchedule /\ DataInv'
<1>1. \/ Decide(p, s, "FAILED_COST") /\ UNCHANGED pending
      \/ /\ Suspend(p, s)
         /\ pending' = [kind |-> "NARRATIVE", p |-> p, s |-> s]
  BY DEF ResolveActivation
<1>2. /\ resources' = res /\ ledger' = led /\ cards' = hand
      /\ choice' = choice /\ coreUsed' = coreUsed /\ campaign' = campaign /\ narrated' = narrated
      /\ boost' = boost /\ board' = board /\ abilities' = abilities /\ table' = table
  BY DEF ResolveActivation
<1>3. s \in 1 .. 3
  BY PlanShape DEF ScheduleInv
<1>4. Continues(p, s)
  <2>1. CASE Decide(p, s, "FAILED_COST") /\ UNCHANGED pending
    BY <2>1 DEF Continues
  <2>2. CASE Suspend(p, s) /\ pending' = [kind |-> "NARRATIVE", p |-> p, s |-> s]
    <3>1. pending' \in [kind : {"NARRATIVE", "REGIME_MANUAL_DIE"}, p : Players, s : 1 .. 3]
      BY <1>3, <2>2
    <3> QED BY <2>2, <3>1 DEF Continues, Pendings
  <2> QED BY <1>1, <2>1, <2>2
<1>5. StepOfSchedule
  BY <1>2, <1>4, ContinuesSchedule
<1>6. Len(ledger) \in Nat /\ Len(led) \in Nat /\ Len(ledger) <= Len(led)
  BY LenProperties DEF DataInv, PurseTypes, Extends
<1>7. PurseTypes' /\ MatTypes' /\ BoardTypes' /\ TableTypes'
  BY <1>2 DEF DataInv, PurseTypes, MatTypes, BoardTypes, TableTypes, board, table
<1>8. AbilityTypes'
  BY <1>2, <1>6 DEF DataInv, AbilityTypes, abilities
<1> QED BY <1>5, <1>7, <1>8 DEF DataInv

-------------------------------------------------------------------------------
(***************************************************************************)
(* The actions of the scheduler.                                           *)
(***************************************************************************)
\* A slot under the cursor that is decided at once.
LEMMA DecidedAtOnce ==
  ASSUME pending = None, choice = None, NEW p \in Players, NEW s \in DOMAIN slots[p],
         AtSlot(p, s), NEW o \in {"RESOLVED", "FAILED_COST", "NOT_EXECUTED"},
         Decide(p, s, o), UNCHANGED <<pending, choice>>
  PROVE  StepOfSchedule
BY DEF StepOfSchedule, Deciding, Outcomes

\* The purse, the board and the abilities are as they were.
LEMMA RestKept ==
  ASSUME DataInv, MatTypes', UNCHANGED <<purse, board, abilities, table>>
  PROVE  DataInv'
BY DEF DataInv, PurseTypes, BoardTypes, AbilityTypes, TableTypes, purse, board, abilities, table

\* A slot that is ready is under the cursor and nothing is open.
LEMMA ReadyShape ==
  ASSUME ScheduleInv, NEW p \in Players, NEW s \in DOMAIN slots[p], NEW type, Ready(p, s, type)
  PROVE  /\ pending = None /\ choice = None /\ AtSlot(p, s) /\ Act(p, s).type = type
         /\ Act(p, s) \in SlotActions /\ s \in 1 .. 3
<1>1. slots[p][s] \in SlotRecords /\ s \in 1 .. 3
  BY PlanShape DEF ScheduleInv
<1> QED BY <1>1 DEF Ready, Idle, Act, SlotRecords

\* constructCampaign decides its slot and puts the kit on the mat.
LEMMA ConstructStep ==
  ASSUME ScheduleInv, DataInv, NEW p \in Players, NEW s \in DOMAIN slots[p], ConstructCampaign(p, s)
  PROVE  StepOfSchedule /\ DataInv'
<1> DEFINE kit == Act(p, s).kit
<1>1. /\ Ready(p, s, "CONSTRUCT")
      /\ campaign' = [campaign EXCEPT ![p] = [kit |-> kit, row |-> "I", count |-> 0]]
      /\ cards' = [cards EXCEPT ![<<p, kit>>].zone = "CAMPAIGN"]
      /\ Decide(p, s, "RESOLVED")
      /\ UNCHANGED <<pending, choice, purse, narrated, boost, board, abilities, table>>
  BY DEF ConstructCampaign
<1>2. pending = None /\ choice = None /\ AtSlot(p, s) /\ kit \in Kits
  BY <1>1, ReadyShape, ActShape
<1> HIDE DEF kit
<1>3. StepOfSchedule
  BY <1>1, <1>2, DecidedAtOnce
<1>4. [kit |-> kit, row |-> "I", count |-> 0] \in Campaigns
  BY <1>2 DEF Campaigns
<1>5. campaign' \in [Players -> Campaigns]
  BY <1>1, <1>4 DEF DataInv, MatTypes
<1>6. cards' \in [Cards -> CardRecords]
  BY <1>1 DEF DataInv, MatTypes, CardRecords
<1>7. MatTypes'
  BY <1>1, <1>5, <1>6 DEF DataInv, MatTypes
<1> QED BY <1>1, <1>3, <1>7, RestKept

\* A boost decides its slot and is planned.
LEMMA PlayBoostStep ==
  ASSUME ScheduleInv, DataInv, NEW p \in Players, NEW s \in DOMAIN slots[p], PlayBoost(p, s)
  PROVE  StepOfSchedule /\ DataInv'
<1>1. /\ Ready(p, s, "BOOST")
      /\ boost' = [boost EXCEPT ![p] = Act(p, s).seq]
      /\ Decide(p, s, "RESOLVED")
      /\ UNCHANGED <<pending, choice, purse, campaign, narrated, cards>>
      /\ UNCHANGED <<board, abilities, table>>
  BY DEF PlayBoost
<1>2. pending = None /\ choice = None /\ AtSlot(p, s) /\ Act(p, s).seq \in 1 .. 3
  BY <1>1, ReadyShape, ActShape
<1>3. StepOfSchedule
  BY <1>1, <1>2, DecidedAtOnce
<1>4. boost' \in [Players -> 0 .. 3]
  <2>1. PICK n \in 0 .. 3 : n = Act(p, s).seq
    BY <1>2
  <2> QED BY <1>1, <2>1 DEF DataInv, MatTypes
<1>5. MatTypes'
  BY <1>1, <1>4 DEF DataInv, MatTypes
<1> QED BY <1>1, <1>3, <1>5, RestKept

\* A vetoed activation decides its slot and discards the boost.
LEMMA NegateStep ==
  ASSUME ScheduleInv, DataInv, NEW p \in Players, NEW s \in DOMAIN slots[p], NegateActivation(p, s)
  PROVE  StepOfSchedule /\ DataInv'
<1>1. /\ Ready(p, s, "ACTIVATE")
      /\ cards' = [cards EXCEPT ![<<p, "boost">>].zone = "DISCARD"]
      /\ boost' = [boost EXCEPT ![p] = 0]
      /\ Decide(p, s, "NOT_EXECUTED")
      /\ UNCHANGED <<pending, choice, purse, campaign, narrated, board, abilities, table>>
  BY DEF NegateActivation
<1>2. pending = None /\ choice = None /\ AtSlot(p, s)
  BY <1>1, ReadyShape
<1>3. StepOfSchedule
  BY <1>1, <1>2, DecidedAtOnce
<1>4. boost' \in [Players -> 0 .. 3]
  <2>1. 0 \in 0 .. 3
    OBVIOUS
  <2> QED BY <1>1, <2>1 DEF DataInv, MatTypes
<1>5. cards' \in [Cards -> CardRecords]
  BY <1>1 DEF DataInv, MatTypes, CardRecords
<1>6. MatTypes'
  BY <1>1, <1>4, <1>5 DEF DataInv, MatTypes
<1> QED BY <1>1, <1>3, <1>6, RestKept

\* An activation begins from the purse and the cards as they are.
LEMMA ActivateStep ==
  ASSUME ScheduleInv, DataInv, NEW p \in Players, NEW s \in DOMAIN slots[p], ActivateCampaign(p, s)
  PROVE  StepOfSchedule /\ DataInv'
<1>1. Ready(p, s, "ACTIVATE") /\ ResolveActivation(p, s, FALSE, resources, ledger, cards)
  BY DEF ActivateCampaign
<1>2. pending = None /\ choice = None /\ AtSlot(p, s) /\ Activates(Act(p, s))
  BY <1>1, ReadyShape DEF Activates
<1>3. /\ resources \in [Players -> Nat] /\ ledger \in Seq(Entries)
      /\ cards \in [Cards -> CardRecords]
  BY DEF DataInv, PurseTypes, MatTypes
<1>4. Extends(ledger, ledger)
  BY <1>3, LenProperties DEF Extends
<1> QED BY <1>1, <1>2, <1>3, <1>4, ResolveActivationDoes

\* A double action fails for want of a resource or begins with one less.
LEMMA DoubleStep ==
  ASSUME ScheduleInv, DataInv, NEW p \in Players, NEW s \in DOMAIN slots[p], PlayDoubleAction(p, s)
  PROVE  StepOfSchedule /\ DataInv'
<1> DEFINE hand == [cards EXCEPT ![<<p, "double">>].zone = "DISCARD"]
           res == [resources EXCEPT ![p] = @ - 1]
           led == Charge(ledger, p, 1, "CARD_COST")
<1>1. /\ Ready(p, s, "DOUBLE")
      /\ \/ /\ cards' = hand
            /\ Decide(p, s, "FAILED_COST")
            /\ UNCHANGED <<pending, choice, purse, campaign, narrated, boost>>
            /\ UNCHANGED <<board, abilities, table>>
         \/ /\ resources[p] >= 1
            /\ ResolveActivation(p, s, TRUE, res, led, hand)
  BY DEF PlayDoubleAction
<1>2. pending = None /\ choice = None /\ AtSlot(p, s) /\ Activates(Act(p, s))
  BY <1>1, ReadyShape DEF Activates
<1>3. /\ resources \in [Players -> Nat] /\ ledger \in Seq(Entries)
      /\ hand \in [Cards -> CardRecords]
  BY DEF DataInv, PurseTypes, MatTypes, CardRecords
<1>4. "CARD_COST" \in Reasons
  BY DEF Reasons
<1>5. Extends(led, ledger) /\ led \in Seq(Entries)
  <2>1. PICK one \in Int : one = 1
    OBVIOUS
  <2>2. Extends(Charge(ledger, p, one, "CARD_COST"), ledger)
    BY <1>3, <1>4, ChargeExtends
  <2> QED BY <2>1, <2>2 DEF Extends
<1>6. resources[p] >= 1 => res \in [Players -> Nat]
  BY <1>3
<1> HIDE DEF hand, res, led
<1>7. CASE /\ cards' = hand
           /\ Decide(p, s, "FAILED_COST")
           /\ UNCHANGED <<pending, choice, purse, campaign, narrated, boost>>
           /\ UNCHANGED <<board, abilities, table>>
  <2>1. StepOfSchedule
    BY <1>2, <1>7, DecidedAtOnce
  <2>2. MatTypes'
    BY <1>3, <1>7 DEF DataInv, MatTypes
  <2> QED BY <1>7, <2>1, <2>2, RestKept
<1>8. CASE resources[p] >= 1 /\ ResolveActivation(p, s, TRUE, res, led, hand)
  BY <1>2, <1>3, <1>5, <1>6, <1>8, ResolveActivationDoes
<1> QED BY <1>1, <1>7, <1>8

\* The spends of others are finitely many and add up to a number of units.
LEMMA UnitsNat ==
  ASSUME PurseTypes, NEW reasons
  PROVE  /\ Spends(reasons) \subseteq 1 .. Len(ledger)
         /\ IsFiniteSet(Spends(reasons))
         /\ Units(Spends(reasons)) \in Nat
<1>1. Len(ledger) \in Nat /\ DOMAIN ledger = 1 .. Len(ledger)
      /\ \A i \in 1 .. Len(ledger) : ledger[i] \in Entries
  BY LenProperties, ElementOfSeq DEF PurseTypes
<1>2. IsFiniteSet(1 .. Len(ledger))
  BY <1>1, FS_Interval
<1>3. Spends(reasons) \subseteq 1 .. Len(ledger)
  BY <1>1 DEF Spends
<1>4. IsFiniteSet(Spends(reasons))
  BY <1>2, <1>3, FS_Subset
<1>5. \A i \in Spends(reasons) : -ledger[i].delta \in Nat
  BY <1>1 DEF Spends, Entries
<1>6. [i \in Spends(reasons) |-> -ledger[i].delta] \in [Spends(reasons) -> Nat]
  BY <1>5
<1>7. Units(Spends(reasons)) \in Nat
  BY <1>4, <1>6, TotalNat DEF Units
<1> QED BY <1>3, <1>4, <1>7

\* A regime ability that has no effect, or asks for a decision.
LEMMA RegimeFizzlesStep ==
  ASSUME ScheduleInv, NEW p \in Players, NEW s \in DOMAIN slots[p], AtSlot(p, s),
         choice = None, pending' = None, RegimeFizzles(p, s), regimeUsed \subseteq Players
  PROVE  StepOfSchedule /\ regimeUsed' \subseteq Players
<1>1. "RESOLVED" \in Outcomes \ {"NONE"}
  BY DEF Outcomes
<1> QED BY <1>1 DEF RegimeFizzles, StepOfSchedule, Deciding

\* A regime ability asks its player about the slot.
LEMMA AskRegimeStep ==
  ASSUME ScheduleInv, NEW p \in Players, NEW s \in DOMAIN slots[p], AtSlot(p, s),
         Act(p, s).type = "REGIME", p \notin regimeUsed, pending' = None,
         NEW request \in Choices, request # None, request.p = p, request.s = s,
         AskRegime(p, s, request), regimeUsed \subseteq Players
  PROVE  StepOfSchedule /\ regimeUsed' \subseteq Players
<1>1. choice' = request /\ Suspend(p, s) /\ regimeUsed' = regimeUsed
  BY DEF AskRegime
<1>2. AskingRegime(p, s)
  BY <1>1 DEF AskingRegime
<1> QED BY <1>1, <1>2 DEF StepOfSchedule, Asking

\* The die of ARDEN uses the ability up or asks its player.
LEMMA RollRegimeStep ==
  ASSUME ScheduleInv, NEW p \in Players, NEW s \in DOMAIN slots[p], AtSlot(p, s),
         Act(p, s).type = "REGIME", p \notin regimeUsed, pending' = None, choice = None,
         NEW roll, RollRegime(p, s, roll), regimeUsed \subseteq Players
  PROVE  StepOfSchedule /\ regimeUsed' \subseteq Players
<1> DEFINE request == [kind |-> "ARDEN", p |-> p, s |-> s, stacks |-> MalignAtHome]
<1>1. CASE RegimeFizzles(p, s)
  BY <1>1, RegimeFizzlesStep
<1>2. CASE AskRegime(p, s, request)
  <2>1. s \in 1 .. 3
    BY PlanShape DEF ScheduleInv
  <2>2. MalignAtHome \in SUBSET (PDs \X Players)
    BY DEF MalignAtHome, ArdenPDs
  <2>3. request \in [kind : {"ARDEN"}, p : Players, s : 1 .. 3, stacks : SUBSET (PDs \X Players)]
    BY <2>1, <2>2
  <2>4. request \in Choices /\ request # None /\ request.p = p /\ request.s = s
    BY <2>3 DEF Choices, None
  <2> HIDE DEF request
  <2> QED BY <1>2, <2>4, AskRegimeStep
<1> QED BY <1>1, <1>2 DEF RollRegime

\* USE_REGIME_ABILITY, for each of the regimes.
LEMMA UseRegimeStep ==
  ASSUME ScheduleInv, DataInv, NEW p \in Players, NEW s \in DOMAIN slots[p], UseRegime(p, s)
  PROVE  StepOfSchedule /\ DataInv'
<1>1. /\ Ready(p, s, "REGIME") /\ p \notin regimeUsed
      /\ UNCHANGED <<purse, mat, board, vetoed, fluma, table>>
  BY DEF UseRegime
<1>2. pending = None /\ choice = None /\ AtSlot(p, s) /\ Act(p, s).type = "REGIME" /\ s \in 1 .. 3
  BY <1>1, ReadyShape
<1>3. regimeUsed \subseteq Players
  BY DEF DataInv, AbilityTypes
<1>4. ASSUME regimeUsed' \subseteq Players
      PROVE  DataInv'
  BY <1>1, <1>4 DEF DataInv, PurseTypes, MatTypes, BoardTypes, AbilityTypes, TableTypes,
                    purse, mat, board, table
<1>5. StepOfSchedule /\ regimeUsed' \subseteq Players
  <2>1. CASE /\ pending' = [kind |-> "REGIME_MANUAL_DIE", p |-> p, s |-> s]
             /\ Suspend(p, s)
             /\ UNCHANGED <<choice, regimeUsed>>
    <3>1. pending' \in [kind : {"NARRATIVE", "REGIME_MANUAL_DIE"}, p : Players, s : 1 .. 3]
      BY <1>2, <2>1
    <3>2. pending' \in Pendings /\ pending' # None /\ pending'.kind = "REGIME_MANUAL_DIE"
          /\ pending'.p = p /\ pending'.s = s
      BY <2>1, <3>1 DEF Pendings, None
    <3>3. AskingPlayer(p, s)
      BY <1>1, <1>2, <2>1, <3>2 DEF AskingPlayer, Activates
    <3> QED BY <1>2, <1>3, <2>1, <3>3 DEF StepOfSchedule, Asking
  <2>2. CASE \E roll \in Rolls : RollRegime(p, s, roll) /\ UNCHANGED pending
    BY <1>1, <1>2, <1>3, <2>2, RollRegimeStep
  <2>3. CASE RegimeFizzles(p, s) /\ UNCHANGED pending
    BY <1>2, <1>3, <2>3, RegimeFizzlesStep
  <2>4. CASE AskRegime(p, s, [kind |-> "DINESIA", p |-> p, s |-> s]) /\ UNCHANGED pending
    <3> DEFINE request == [kind |-> "DINESIA", p |-> p, s |-> s]
    <3>1. request \in [kind : {"DINESIA"}, p : Players, s : 1 .. 3]
      BY <1>2
    <3>2. request \in Choices /\ request # None /\ request.p = p /\ request.s = s
      BY <3>1 DEF Choices, None
    <3>3. AskRegime(p, s, request)
      BY <2>4
    <3> HIDE DEF request
    <3> QED BY <1>1, <1>2, <1>3, <2>4, <3>2, <3>3, AskRegimeStep
  <2>5. CASE /\ AskRegime(p, s, [kind |-> "FLUMA", p |-> p, s |-> s,
                                 units |-> Units(Spends(TriggerReasons))])
             /\ UNCHANGED pending
    <3>1. PICK u \in Nat : u = Units(Spends(TriggerReasons))
      BY UnitsNat DEF DataInv
    <3> DEFINE request == [kind |-> "FLUMA", p |-> p, s |-> s, units |-> u]
    <3>2. request \in [kind : {"FLUMA"}, p : Players, s : 0 .. 3, units : Nat]
      BY <1>2
    <3>3. request \in Choices /\ request # None /\ request.p = p /\ request.s = s
      BY <3>2 DEF Choices, None
    <3>4. AskRegime(p, s, request)
      BY <2>5, <3>1
    <3> HIDE DEF request
    <3> QED BY <1>1, <1>2, <1>3, <2>5, <3>3, <3>4, AskRegimeStep
  <2> QED BY <2>1, <2>2, <2>3, <2>4, <2>5 DEF UseRegime
<1> QED BY <1>4, <1>5

\* Every action of the scheduler is a step of the schedule and keeps the types.
LEMMA RunNextStep ==
  ASSUME ScheduleInv, DataInv, RunNext
  PROVE  StepOfSchedule /\ DataInv'
BY ConstructStep, PlayBoostStep, DoubleStep, UseRegimeStep, NegateStep, ActivateStep DEF RunNext

\* The interruption by FLUMA is a step of the schedule and keeps the types.
LEMMA FlumaTriggerStep ==
  ASSUME ScheduleInv, DataInv, FlumaTrigger
  PROVE  StepOfSchedule /\ DataInv'
<1>1. PICK p \in Players :
        choice' = [kind |-> "FLUMA", p |-> p, s |-> 0, units |-> Units(Spends(TriggerReasons))]
  BY DEF FlumaTrigger
<1>2. /\ pending = None /\ choice = None
      /\ cursor' = [cursor EXCEPT !.status = "SUSPENDED"]
      /\ UNCHANGED <<slots, current, pending, purse, mat, board, abilities, table>>
  BY DEF FlumaTrigger, Idle
<1>3. PICK u \in Nat : u = Units(Spends(TriggerReasons))
  BY UnitsNat DEF DataInv
<1>4. choice' \in [kind : {"FLUMA"}, p : Players, s : 0 .. 3, units : Nat]
  BY <1>1, <1>3
<1>5. choice' \in Choices /\ choice' # None /\ choice'.s = 0
  BY <1>1, <1>4 DEF Choices, None
<1>6. StepOfSchedule
  BY <1>2, <1>5 DEF StepOfSchedule, Triggered
<1>7. MatTypes'
  BY <1>2 DEF DataInv, MatTypes, mat
<1> QED BY <1>2, <1>6, <1>7, RestKept

-------------------------------------------------------------------------------
(***************************************************************************)
(* The answers.                                                            *)
(***************************************************************************)
\* Who is asked, and about which slot.
LEMMA WhoIsAsked ==
  ASSUME ScheduleInv, pending # None
  PROVE  /\ pending.p \in Players /\ pending.s \in DOMAIN slots[pending.p]
         /\ pending.s \in 1 .. 3
         /\ AtSlot(pending.p, pending.s)
         /\ choice = None
         /\ Activates(Act(pending.p, pending.s)) <=> pending.kind # "REGIME_MANUAL_DIE"
<1>1. /\ cursor.p \in Seats
      /\ <<pending.p, pending.s>> = <<Order[cursor.p], cursor.s>>
      /\ current = <<pending.p, pending.s>>
      /\ choice = None
      /\ Activates(Act(pending.p, pending.s)) <=> pending.kind # "REGIME_MANUAL_DIE"
  BY DEF ScheduleInv, SuspensionOwnsSlot
<1>2. pending.p \in Players /\ pending.s \in 1 .. 3
  BY PendingShape DEF ScheduleInv
<1> QED BY <1>1, <1>2, OpenSlot

\* Whoever has a choice for a slot is asked about the slot under the cursor.
LEMMA WhoChooses ==
  ASSUME ScheduleInv, choice # None, choice.s > 0
  PROVE  /\ choice.p \in Players /\ choice.s \in DOMAIN slots[choice.p]
         /\ pending = None
         /\ Act(choice.p, choice.s).type = "REGIME"
<1>1. /\ cursor.p \in Seats
      /\ <<choice.p, choice.s>> = <<Order[cursor.p], cursor.s>>
      /\ current = <<choice.p, choice.s>>
      /\ pending = None
      /\ Act(choice.p, choice.s).type = "REGIME"
  BY DEF ScheduleInv, SuspensionOwnsSlot
<1>2. choice.p \in Players
  BY ChoiceShape DEF ScheduleInv
<1> QED BY <1>1, <1>2, OpenSlot

\* The abilities stay as they are while the ledger grows.
LEMMA AbilitiesKept ==
  ASSUME DataInv, UNCHANGED abilities, NEW led, Extends(led, ledger), ledger' = led
  PROVE  AbilityTypes'
<1>1. Len(ledger) \in Nat /\ Len(led) \in Nat /\ Len(ledger) <= Len(led)
  BY LenProperties DEF DataInv, PurseTypes, Extends
<1> QED BY <1>1 DEF DataInv, AbilityTypes, abilities

\* The scheduler goes on with the activation that somebody was asked about.
LEMMA GoesOn ==
  ASSUME ScheduleInv, DataInv, pending # None, pending.kind # "REGIME_MANUAL_DIE",
         Continues(pending.p, pending.s), UNCHANGED <<choice, abilities, table>>,
         PurseTypes', MatTypes', BoardTypes', Extends(ledger', ledger)
  PROVE  StepOfSchedule /\ DataInv'
<1>1. /\ pending.p \in Players /\ pending.s \in DOMAIN slots[pending.p]
      /\ AtSlot(pending.p, pending.s)
      /\ choice = None
      /\ Activates(Act(pending.p, pending.s))
  BY WhoIsAsked
<1>2. StepOfSchedule
  BY <1>1, ContinuesSchedule
<1>3. AbilityTypes'
  BY AbilitiesKept
<1>4. TableTypes'
  BY DEF DataInv, TableTypes, table
<1> QED BY <1>2, <1>3, <1>4 DEF DataInv

\* A narrative invites a coalition or goes on to the die.
LEMMA NarrativeStep ==
  ASSUME ScheduleInv, DataInv, SubmitNarrative
  PROVE  StepOfSchedule /\ DataInv'
<1> DEFINE p == pending.p
           s == pending.s
<1>1. /\ pending.kind = "NARRATIVE" /\ campaign[p] # NoCampaign
      /\ narrated' = narrated \cup {p}
      /\ UNCHANGED <<choice, abilities, table>>
  BY DEF SubmitNarrative, Asked
<1>2. pending # None /\ pending.kind # "REGIME_MANUAL_DIE"
  BY <1>1 DEF None
<1>3. /\ p \in Players /\ s \in DOMAIN slots[p] /\ s \in 1 .. 3 /\ Activates(Act(p, s))
  BY <1>2, WhoIsAsked
<1>4. Activation(p, s)
  BY <1>1, <1>3 DEF Activation
<1>5. narrated' \subseteq Players
  BY <1>1, <1>3 DEF DataInv, MatTypes
<1>6. CASE /\ pending' = [kind |-> "COALITION", p |-> p, s |-> s, decided |-> {}, gave |-> {}]
           /\ Suspend(p, s)
           /\ UNCHANGED <<purse, campaign, cards, boost, board>>
  <2>1. pending' \in [kind : {"COALITION"}, p : Players, s : 1 .. 3,
                      decided : SUBSET Players, gave : SUBSET Players]
    BY <1>3, <1>6
  <2>2. Continues(p, s)
    BY <1>6, <2>1 DEF Continues, Pendings
  <2>3. PurseTypes' /\ MatTypes' /\ BoardTypes'
    BY <1>5, <1>6 DEF DataInv, PurseTypes, MatTypes, BoardTypes, board, purse
  <2>4. Extends(ledger', ledger)
    BY <1>6, LenProperties DEF DataInv, PurseTypes, purse, Extends
  <2> QED BY <1>1, <1>2, <2>2, <2>3, <2>4, GoesOn
<1>7. CASE RollOrAsk(p, s, 0, resources, ledger)
  <2>1. PurseTypes' /\ MatTypes' /\ BoardTypes' /\ Extends(ledger', ledger) /\ Continues(p, s)
    <3>1. PICK zero \in Nat : zero = 0
      OBVIOUS
    <3>2. /\ MatTypes /\ BoardTypes /\ coreUsed \subseteq Players
          /\ resources \in [Players -> Nat] /\ ledger \in Seq(Entries)
      BY DEF DataInv, PurseTypes
    <3>3. RollOrAsk(p, s, zero, resources, ledger)
      BY <1>7, <3>1
    <3> HIDE DEF p, s
    <3> QED BY <1>4, <1>5, <3>2, <3>3, RollOrAskDoes
  <2> QED BY <1>1, <1>2, <2>1, GoesOn
<1> QED BY <1>6, <1>7 DEF SubmitNarrative

\* A contribution waits for the others or goes on to the die.
LEMMA CoalitionStep ==
  ASSUME ScheduleInv, DataInv, NEW q \in Players, NEW gives \in BOOLEAN, SubmitCoalition(q, gives)
  PROVE  StepOfSchedule /\ DataInv'
<1> DEFINE p == pending.p
           s == pending.s
           decided == pending.decided \cup {q}
           gave == pending.gave \cup {x \in {q} : gives}
           res == IF gives THEN [resources EXCEPT ![q] = @ - 1] ELSE resources
           led == IF gives THEN Charge(ledger, q, 1, "COALITION_CONTRIBUTION") ELSE ledger
<1>1. /\ pending.kind = "COALITION"
      /\ gives => resources[q] >= 1
      /\ UNCHANGED <<choice, narrated, abilities, table>>
      /\ \/ /\ pending' = [pending EXCEPT !.decided = decided, !.gave = gave]
            /\ resources' = res
            /\ ledger' = led
            /\ UNCHANGED <<schedule, coreUsed, campaign, cards, boost, board>>
         \/ /\ campaign[p] # NoCampaign
            /\ RollOrAsk(p, s, Cardinality(gave), res, led)
  BY DEF SubmitCoalition, Asked
<1>2. pending # None /\ pending.kind # "REGIME_MANUAL_DIE"
  BY <1>1 DEF None
<1>3. /\ p \in Players /\ s \in DOMAIN slots[p] /\ s \in 1 .. 3 /\ Activates(Act(p, s))
  BY <1>2, WhoIsAsked
<1>4. pending \in [kind : {"COALITION"}, p : Players, s : 1 .. 3,
                   decided : SUBSET Players, gave : SUBSET Players]
  BY <1>1 DEF ScheduleInv, Pendings, None
<1>5. decided \in SUBSET Players /\ gave \in SUBSET Players
  BY <1>4
<1>6. res \in [Players -> Nat]
  <2>1. resources \in [Players -> Nat]
    BY DEF DataInv, PurseTypes
  <2>2. CASE gives
    BY <1>1, <2>1, <2>2
  <2>3. CASE ~ gives
    BY <2>1, <2>3
  <2> QED BY <2>2, <2>3
<1>7. Extends(led, ledger) /\ led \in Seq(Entries)
  <2>1. ledger \in Seq(Entries) /\ "COALITION_CONTRIBUTION" \in Reasons
    BY DEF DataInv, PurseTypes, Reasons
  <2>2. PICK one \in Int : one = 1
    OBVIOUS
  <2>3. Extends(Charge(ledger, q, one, "COALITION_CONTRIBUTION"), ledger)
    BY <2>1, ChargeExtends
  <2>4. Extends(ledger, ledger)
    BY <2>1, LenProperties DEF Extends
  <2> QED BY <2>2, <2>3, <2>4 DEF Extends
<1> HIDE DEF decided, gave, res, led
<1>8. CASE /\ pending' = [pending EXCEPT !.decided = decided, !.gave = gave]
           /\ resources' = res
           /\ ledger' = led
           /\ UNCHANGED <<schedule, coreUsed, campaign, cards, boost, board>>
  <2>1. pending' \in [kind : {"COALITION"}, p : Players, s : 1 .. 3,
                      decided : SUBSET Players, gave : SUBSET Players]
        /\ pending'.kind = pending.kind /\ pending'.p = pending.p /\ pending'.s = pending.s
    BY <1>4, <1>5, <1>8
  <2>2. StepOfSchedule
    BY <1>1, <1>8, <2>1 DEF StepOfSchedule, Waiting, Pendings, abilities
  <2>3. PurseTypes' /\ MatTypes' /\ BoardTypes' /\ TableTypes'
    BY <1>1, <1>6, <1>7, <1>8
       DEF DataInv, PurseTypes, MatTypes, BoardTypes, TableTypes, board, table
  <2>4. AbilityTypes'
    BY <1>1, <1>7, <1>8, AbilitiesKept
  <2> QED BY <2>2, <2>3, <2>4 DEF DataInv
<1>9. CASE campaign[p] # NoCampaign /\ RollOrAsk(p, s, Cardinality(gave), res, led)
  <2>1. Cardinality(gave) \in Nat
    BY <1>5, PlayersFinite, FS_Subset, FS_CardinalityType
  <2>2. Activation(p, s)
    BY <1>3, <1>9 DEF Activation
  <2>3. MatTypes /\ BoardTypes /\ coreUsed \subseteq Players /\ narrated' \subseteq Players
    BY <1>1 DEF DataInv, PurseTypes, MatTypes
  <2>4. PurseTypes' /\ MatTypes' /\ BoardTypes' /\ Extends(ledger', led) /\ Continues(p, s)
    <3> HIDE DEF p, s
    <3> QED BY <1>6, <1>7, <1>9, <2>1, <2>2, <2>3, RollOrAskDoes
  <2>5. Extends(ledger', ledger)
    BY <1>7, <2>4, ExtendsTwice DEF DataInv, PurseTypes
  <2> QED BY <1>1, <1>2, <2>4, <2>5, GoesOn
<1> QED BY <1>1, <1>8, <1>9

\* A die that a person rolled is paid for and resolved.
LEMMA ManualDieStep ==
  ASSUME ScheduleInv, DataInv, NEW roll \in Rolls, SubmitManualDie(roll)
  PROVE  StepOfSchedule /\ DataInv'
<1> DEFINE p == pending.p
           s == pending.s
<1>1. /\ pending.kind = "MANUAL_DIE" /\ campaign[p] # NoCampaign
      /\ PayAndRoll(p, s, pending.bonus, roll, resources, ledger)
      /\ UNCHANGED <<choice, narrated, abilities, table>>
  BY DEF SubmitManualDie, Asked
<1>2. pending # None /\ pending.kind # "REGIME_MANUAL_DIE"
  BY <1>1 DEF None
<1>3. /\ p \in Players /\ s \in DOMAIN slots[p] /\ Activates(Act(p, s))
  BY <1>2, WhoIsAsked
<1>4. pending.bonus \in Nat
  BY <1>1 DEF ScheduleInv, Pendings, None
<1>5. Activation(p, s)
  BY <1>1, <1>3 DEF Activation
<1>6. /\ MatTypes /\ BoardTypes /\ coreUsed \subseteq Players
      /\ resources \in [Players -> Nat] /\ ledger \in Seq(Entries) /\ roll \in Int
  BY RollAssumption DEF DataInv, PurseTypes
<1>7. /\ resources' \in [Players -> Nat]
      /\ Extends(ledger', ledger)
      /\ coreUsed' \subseteq Players
      /\ cards' \in [Cards -> CardRecords]
      /\ boost' \in [Players -> 0 .. 3]
      /\ BoardTypes'
      /\ campaign' \in [Players -> Campaigns]
      /\ \/ /\ Suspend(p, s)
            /\ pending' \in Pendings
            /\ pending'.kind = "CHOICE" /\ pending'.p = p /\ pending'.s = s
         \/ Decide(p, s, "RESOLVED") /\ pending' = None
  <2> HIDE DEF p, s
  <2> QED BY <1>1, <1>4, <1>5, <1>6, PayAndRollDoes
<1>8. PurseTypes' /\ MatTypes' /\ Continues(p, s)
  BY <1>1, <1>7 DEF DataInv, PurseTypes, MatTypes, Continues, Extends
<1> QED BY <1>1, <1>2, <1>7, <1>8, GoesOn

\* The die of a regime ability that a person rolled.
LEMMA RegimeDieStep ==
  ASSUME ScheduleInv, DataInv, NEW roll \in Rolls, SubmitRegimeDie(roll)
  PROVE  StepOfSchedule /\ DataInv'
<1> DEFINE p == pending.p
           s == pending.s
<1>1. /\ pending.kind = "REGIME_MANUAL_DIE"
      /\ pending' = None
      /\ RollRegime(p, s, roll)
      /\ UNCHANGED <<purse, mat, board, vetoed, fluma, table>>
  BY DEF SubmitRegimeDie, Asked
<1>2. pending # None
  BY <1>1 DEF None
<1>3. /\ p \in Players /\ s \in DOMAIN slots[p] /\ AtSlot(p, s) /\ choice = None
  BY <1>2, WhoIsAsked
<1>4. p \notin regimeUsed /\ Act(p, s).type = "REGIME"
  BY <1>1 DEF ScheduleInv, DieBelongs
<1>5. regimeUsed \subseteq Players
  BY DEF DataInv, AbilityTypes
<1>6. StepOfSchedule /\ regimeUsed' \subseteq Players
  <2> HIDE DEF p, s
  <2> QED BY <1>1, <1>3, <1>4, <1>5, RollRegimeStep
<1> QED BY <1>1, <1>6 DEF DataInv, PurseTypes, MatTypes, BoardTypes, AbilityTypes, TableTypes,
                          purse, mat, board, table

\* The attribution of cubes completes the activation.
LEMMA ChoiceStep ==
  ASSUME ScheduleInv, DataInv, SubmitChoice
  PROVE  StepOfSchedule /\ DataInv'
<1> DEFINE p == pending.p
           s == pending.s
<1>1. /\ pending.kind = "CHOICE" /\ campaign[p] # NoCampaign
      /\ pending' = None
      /\ UNCHANGED <<choice, purse, narrated, cards, boost, abilities, table>>
  BY DEF SubmitChoice, Asked
<1>2. pending # None /\ pending.kind # "REGIME_MANUAL_DIE"
  BY <1>1 DEF None
<1>3. /\ p \in Players /\ s \in DOMAIN slots[p] /\ Activates(Act(p, s))
  BY <1>2, WhoIsAsked
<1>4. /\ pending.generated \in Types /\ pending.count \in Nat /\ pending.result \in Int
      /\ pending.removals \in Nat
  BY <1>1 DEF ScheduleInv, Pendings, None
<1>5. PICK cut \in Cuts(Act(p, s).pd, Opposite(pending.generated), pending.removals) :
        Complete(p, s, pending.generated, pending.count, pending.result, pending.before, cut)
  BY DEF SubmitChoice
<1>6. Act(p, s).pd \in PDs /\ Activation(p, s)
  <2>1. Activation(p, s) /\ MatTypes
    BY <1>1, <1>3 DEF Activation, DataInv
  <2> HIDE DEF p, s
  <2> QED BY <2>1, ActivationShape
<1>7. BoardTypes /\ campaign \in [Players -> Campaigns]
  BY DEF DataInv, MatTypes
<1>8. BoardTypes' /\ campaign' \in [Players -> Campaigns] /\ Decide(p, s, "RESOLVED")
  <2> HIDE DEF p, s
  <2> QED BY <1>1, <1>3, <1>4, <1>5, <1>6, <1>7, CompleteTypes
<1>9. Continues(p, s)
  BY <1>1, <1>8 DEF Continues
<1>10. PurseTypes' /\ MatTypes'
  BY <1>1, <1>8 DEF DataInv, PurseTypes, MatTypes, purse
<1>11. Extends(ledger', ledger)
  BY <1>1, LenProperties DEF DataInv, PurseTypes, purse, Extends
<1> QED BY <1>1, <1>2, <1>8, <1>9, <1>10, <1>11, GoesOn

\* A regime choice is settled: the ability is used up and the slot is closed.
LEMMA ArdenStep ==
  ASSUME ScheduleInv, DataInv, SubmitArdenChoice
  PROVE  StepOfSchedule /\ DataInv'
<1>1. /\ choice.kind = "ARDEN"
      /\ ChoiceDone
      /\ AdvanceInline(choice.p, choice.s)
      /\ UNCHANGED <<pending, purse, mat, legitimacy, vp, vetoed, fluma, table>>
  BY DEF SubmitArdenChoice, Chosen
<1>2. /\ choice \in [kind : {"ARDEN"}, p : Players, s : 1 .. 3, stacks : SUBSET (PDs \X Players)]
      /\ choice # None
  BY <1>1 DEF ScheduleInv, Choices, None
<1>3. choice.s > 0 /\ choice.p \in Players
  BY <1>2
<1>4. StepOfSchedule
  BY <1>1, <1>2, <1>3 DEF ChoiceDone, StepOfSchedule, Answered
<1>5. PICK st \in choice.stacks :
        /\ influence[st[1]]["MALIGN"][st[2]] > 0
        /\ influence' = [influence EXCEPT ![st[1]]["MALIGN"][st[2]] = @ - 1]
  BY DEF SubmitArdenChoice
<1>6. influence' \in [PDs -> Stacks]
  <2>1. st[1] \in PDs /\ st[2] \in Players
    BY <1>2
  <2>2. PICK pd \in PDs, q \in Players : pd = st[1] /\ q = st[2]
    BY <2>1
  <2>3. influence \in [PDs -> [Types -> [Players -> Nat]]] /\ "MALIGN" \in Types
    BY DEF DataInv, BoardTypes, Stacks, Types
  <2>4. PICK n \in Nat : n = influence[pd]["MALIGN"][q] - 1
    BY <1>5, <2>2, <2>3
  <2>5. influence' = [influence EXCEPT ![pd]["MALIGN"][q] = n]
    BY <1>5, <2>2, <2>4
  <2>6. [influence[pd]["MALIGN"] EXCEPT ![q] = n] \in [Players -> Nat]
    BY <2>3
  <2>7. PICK f \in [Players -> Nat] : f = [influence[pd]["MALIGN"] EXCEPT ![q] = n]
    BY <2>6
  <2>8. influence' = [influence EXCEPT ![pd]["MALIGN"] = f]
    BY <2>5, <2>7
  <2>9. [influence[pd] EXCEPT !["MALIGN"] = f] \in Stacks
    BY <2>3 DEF Stacks
  <2> QED BY <2>3, <2>8, <2>9 DEF Stacks
<1>7. BoardTypes' /\ regimeUsed' \subseteq Players
  BY <1>1, <1>3, <1>6 DEF DataInv, BoardTypes, AbilityTypes, ChoiceDone
<1> QED BY <1>1, <1>4, <1>7 DEF DataInv, PurseTypes, MatTypes, AbilityTypes, TableTypes,
                                purse, mat, table

\* DINESIA pays two and places a cube.
LEMMA DinesiaStep ==
  ASSUME ScheduleInv, DataInv, SubmitDinesiaChoice
  PROVE  StepOfSchedule /\ DataInv'
<1>1. /\ choice.kind = "DINESIA"
      /\ resources[choice.p] >= 2
      /\ resources' = [resources EXCEPT ![choice.p] = @ - 2]
      /\ ledger' = Charge(ledger, choice.p, 2, "REGIME_ABILITY_COST")
      /\ ChoiceDone
      /\ AdvanceInline(choice.p, choice.s)
      /\ UNCHANGED <<pending, coreUsed, mat, legitimacy, vp, vetoed, fluma, table>>
  BY DEF SubmitDinesiaChoice, Chosen
<1>2. choice \in [kind : {"DINESIA"}, p : Players, s : 1 .. 3] /\ choice # None
  BY <1>1 DEF ScheduleInv, Choices, None
<1>3. choice.s > 0
  BY <1>2
<1>4. StepOfSchedule
  BY <1>1, <1>2, <1>3 DEF ChoiceDone, StepOfSchedule, Answered
<1>5. PICK p \in Players : p = choice.p
  BY <1>2
<1>6. PICK pd \in PDs : influence' = [influence EXCEPT ![pd]["RESILIENCY"][p] = @ + 1]
  BY <1>5 DEF SubmitDinesiaChoice
<1>7. influence' \in [PDs -> Stacks]
  <2>1. influence \in [PDs -> [Types -> [Players -> Nat]]] /\ "RESILIENCY" \in Types
    BY DEF DataInv, BoardTypes, Stacks, Types
  <2>2. PICK n \in Nat : n = influence[pd]["RESILIENCY"][p] + 1
    BY <2>1
  <2>3. influence' = [influence EXCEPT ![pd]["RESILIENCY"][p] = n]
    BY <1>6, <2>2
  <2>4. [influence[pd]["RESILIENCY"] EXCEPT ![p] = n] \in [Players -> Nat]
    BY <2>1
  <2>5. PICK f \in [Players -> Nat] : f = [influence[pd]["RESILIENCY"] EXCEPT ![p] = n]
    BY <2>4
  <2>6. influence' = [influence EXCEPT ![pd]["RESILIENCY"] = f]
    BY <2>3, <2>5
  <2>7. [influence[pd] EXCEPT !["RESILIENCY"] = f] \in Stacks
    BY <2>1 DEF Stacks
  <2> QED BY <2>1, <2>6, <2>7 DEF Stacks
<1>8. resources' \in [Players -> Nat]
  BY <1>1, <1>5 DEF DataInv, PurseTypes
<1>9. Extends(ledger', ledger)
  <2>1. PICK two \in Int : two = 2
    OBVIOUS
  <2>2. ledger \in Seq(Entries) /\ "REGIME_ABILITY_COST" \in Reasons
    BY DEF DataInv, PurseTypes, Reasons
  <2> QED BY <1>1, <1>5, <2>1, <2>2, ChargeExtends
<1>10. fluma' \in [active : BOOLEAN, processed : SUBSET (1 .. Len(ledger'))]
  <2>1. Len(ledger) \in Nat /\ Len(ledger') \in Nat /\ Len(ledger) <= Len(ledger')
    BY <1>9, LenProperties DEF DataInv, PurseTypes, Extends
  <2>2. fluma' = fluma
    BY <1>1
  <2> QED BY <2>1, <2>2 DEF DataInv, AbilityTypes
<1>11. BoardTypes' /\ PurseTypes'
  BY <1>1, <1>7, <1>8, <1>9 DEF DataInv, BoardTypes, PurseTypes, Extends
<1>12. AbilityTypes'
  BY <1>1, <1>5, <1>10 DEF DataInv, AbilityTypes, ChoiceDone
<1> QED BY <1>1, <1>4, <1>11, <1>12 DEF DataInv, MatTypes, TableTypes, mat, table

\* FLUMA answers the spends of the others, for a slot or between two slots.
LEMMA FlumaStep ==
  ASSUME ScheduleInv, DataInv, SubmitFlumaChoice
  PROVE  StepOfSchedule /\ DataInv'
<1> DEFINE spends == Spends(SpendReasons)
<1>1. /\ choice.kind = "FLUMA"
      /\ fluma' = [active |-> TRUE, processed |-> fluma.processed \cup spends]
      /\ ChoiceDone
      /\ \/ /\ choice.s > 0
            /\ AdvanceInline(choice.p, choice.s)
         \/ /\ choice.s = 0
            /\ cursor' = [cursor EXCEPT !.status =
                            IF cursor.p \in Seats THEN "READY" ELSE "COMPLETE"]
            /\ UNCHANGED <<slots, current>>
      /\ UNCHANGED <<pending, purse, mat, legitimacy, vp, vetoed, table>>
  BY DEF SubmitFlumaChoice, Chosen
<1>2. /\ choice \in [kind : {"FLUMA"}, p : Players, s : 0 .. 3, units : Nat]
      /\ choice # None
  BY <1>1 DEF ScheduleInv, Choices, None
<1>3. StepOfSchedule
  BY <1>1, <1>2 DEF ChoiceDone, StepOfSchedule, Answered, Calmed
<1>4. spends \subseteq 1 .. Len(ledger)
  BY UnitsNat DEF DataInv
<1>5. AbilityTypes'
  BY <1>1, <1>2, <1>4 DEF DataInv, AbilityTypes, ChoiceDone, purse
<1>6. influence' \in [PDs -> Stacks]
  <2>1. PICK target \in [1 .. choice.units -> ArdenPDs] :
          LET units(pd) == Cardinality({i \in 1 .. choice.units : target[i] = pd})
              removed(pd) == Removed(2 * units(pd), Opposing(pd, "MALIGN"))
          IN  \E cuts \in [ArdenPDs -> [Players -> 0 .. choice.units]] :
                /\ \A pd \in ArdenPDs : cuts[pd] \in Cuts(pd, "RESILIENCY", removed(pd))
                /\ influence' =
                     [pd \in PDs |->
                        IF pd \notin ArdenPDs THEN influence[pd]
                        ELSE Shifted(influence[pd], "MALIGN", choice.p,
                                     Placed(2 * units(pd), Opposing(pd, "MALIGN")),
                                     cuts[pd])]
    BY DEF SubmitFlumaChoice
  <2> DEFINE units(pd) == Cardinality({i \in 1 .. choice.units : target[i] = pd})
             removed(pd) == Removed(2 * units(pd), Opposing(pd, "MALIGN"))
             placed(pd) == Placed(2 * units(pd), Opposing(pd, "MALIGN"))
  <2>2. PICK cuts \in [ArdenPDs -> [Players -> 0 .. choice.units]] :
          /\ \A pd \in ArdenPDs : cuts[pd] \in Cuts(pd, "RESILIENCY", removed(pd))
          /\ influence' =
               [pd \in PDs |->
                  IF pd \notin ArdenPDs THEN influence[pd]
                  ELSE Shifted(influence[pd], "MALIGN", choice.p, placed(pd), cuts[pd])]
    BY <2>1
  <2>3. ASSUME NEW pd \in ArdenPDs
        PROVE  Shifted(influence[pd], "MALIGN", choice.p, placed(pd), cuts[pd]) \in Stacks
    <3>1. pd \in PDs /\ BoardTypes /\ influence[pd] \in Stacks
      BY DEF DataInv, BoardTypes, ArdenPDs
    <3>2. "MALIGN" \in Types /\ "RESILIENCY" \in Types /\ Opposite("MALIGN") = "RESILIENCY"
      BY DEF Types, Opposite
    <3>3. units(pd) \in Nat
      <4>1. PICK n \in Nat : n = choice.units
        BY <1>2
      <4>2. IsFiniteSet(1 .. n)
        BY <4>1, FS_Interval
      <4>3. IsFiniteSet({i \in 1 .. choice.units : target[i] = pd})
        BY <4>1, <4>2, FS_Subset
      <4> QED BY <4>3, FS_CardinalityType
    <3>4. Opposing(pd, "MALIGN") \in Nat
      BY <3>1, <3>2, OpposingNat
    <3> HIDE DEF units
    <3>5. PICK m \in Nat : m = 2 * units(pd)
      BY <3>3
    <3>6. placed(pd) \in Nat /\ removed(pd) \in Nat
      BY <3>4, <3>5, RemovedBounds
    <3> HIDE DEF placed, removed
    <3>7. /\ cuts[pd] \in [Players -> Nat]
          /\ \A q \in Players : cuts[pd][q] <= influence[pd]["RESILIENCY"][q]
      BY <2>2, <3>1, <3>2, <3>6, CutsShape
    <3> QED BY <1>2, <3>1, <3>2, <3>6, <3>7, ShiftedType
  <2> HIDE DEF placed
  <2> QED BY <2>2, <2>3 DEF DataInv, BoardTypes
<1>7. BoardTypes'
  BY <1>1, <1>6 DEF DataInv, BoardTypes
<1> QED BY <1>1, <1>3, <1>5, <1>7 DEF DataInv, PurseTypes, MatTypes, TableTypes,
                                      purse, mat, table

\* Every answer is a step of the schedule and keeps the types.
LEMMA AnswerStep ==
  ASSUME ScheduleInv, DataInv, Answer
  PROVE  StepOfSchedule /\ DataInv'
BY NarrativeStep, CoalitionStep, ManualDieStep, RegimeDieStep, ChoiceStep, ArdenStep,
   DinesiaStep, FlumaStep DEF Answer

-------------------------------------------------------------------------------
(***************************************************************************)
(* The interruptions.                                                      *)
(***************************************************************************)
\* An interruption leaves the schedule alone.
LEMMA LeftAlone ==
  ASSUME ScheduleInv, UNCHANGED <<schedule, pending, choice, regimeUsed>>
  PROVE  StepOfSchedule
BY DEF ScheduleInv, StepOfSchedule, Waiting

\* There are at most MaxMeddling of them.
LEMMA Counted ==
  ASSUME DataInv, NEW call, Meddle(call)
  PROVE  meddled' \in 0 .. MaxMeddling
<1>1. meddled \in 0 .. MaxMeddling /\ meddled < MaxMeddling /\ meddled' = meddled + 1
  BY DEF DataInv, TableTypes, Meddle
<1> QED BY <1>1, MeddlingAssumption

\* Sanctions take at most two from the one and give them to the other.
LEMMA SanctionsStep ==
  ASSUME ScheduleInv, DataInv, NEW p \in Players, NEW q \in Players, PlaySanctions(p, q)
  PROVE  StepOfSchedule /\ DataInv'
<1> DEFINE amount == IF resources[q] < 2 THEN resources[q] ELSE 2
           loss == Charge(ledger, q, amount, "CARD_COST")
<1>1. /\ Meddle("SANCTIONS")
      /\ p # q
      /\ cards' = [cards EXCEPT ![<<p, "sanctions">>].zone = "DISCARD"]
      /\ resources' = [resources EXCEPT ![p] = @ + amount, ![q] = @ - amount]
      /\ ledger' = Charge(loss, p, -amount, "CARD_EFFECT")
      /\ UNCHANGED <<schedule, pending, choice, coreUsed, campaign, narrated, boost>>
      /\ UNCHANGED <<board, abilities, paused, setup>>
  BY DEF PlaySanctions
<1>2. /\ resources \in [Players -> Nat] /\ ledger \in Seq(Entries)
      /\ cards \in [Cards -> CardRecords]
  BY DEF DataInv, PurseTypes, MatTypes
<1>3. amount \in Nat /\ resources[q] - amount \in Nat /\ -amount \in Int
  BY <1>2
<1>4. "CARD_COST" \in Reasons /\ "CARD_EFFECT" \in Reasons
  BY DEF Reasons
<1> HIDE DEF amount
<1>5. Extends(loss, ledger)
  BY <1>2, <1>3, <1>4, ChargeExtends
<1> HIDE DEF loss
<1>6. Extends(ledger', loss)
  BY <1>1, <1>3, <1>4, <1>5, ChargeExtends DEF Extends
<1>7. Extends(ledger', ledger)
  BY <1>2, <1>5, <1>6, ExtendsTwice
<1>8. resources' \in [Players -> Nat]
  BY <1>1, <1>2, <1>3
<1>9. cards' \in [Cards -> CardRecords]
  BY <1>1, <1>2 DEF CardRecords
<1>10. StepOfSchedule
  BY <1>1, LeftAlone DEF abilities
<1>11. AbilityTypes'
  BY <1>1, <1>7, AbilitiesKept
<1>12. TableTypes'
  BY <1>1, Counted DEF DataInv, TableTypes
<1> QED BY <1>1, <1>7, <1>8, <1>9, <1>10, <1>11, <1>12
        DEF DataInv, PurseTypes, MatTypes, BoardTypes, board, Extends

\* A stolen card stays where it is and changes hands.
LEMMA StealStep ==
  ASSUME ScheduleInv, DataInv, NEW p \in Players, NEW q \in Players, StealCard(p, q)
  PROVE  StepOfSchedule /\ DataInv'
<1>1. /\ Meddle("STEAL_BLIND_CARD")
      /\ UNCHANGED <<schedule, pending, choice, purse, campaign, narrated, boost>>
      /\ UNCHANGED <<board, abilities, paused, setup>>
  BY DEF StealCard
<1>2. PICK c \in Cards : cards' = [cards EXCEPT ![c].ctrl = p]
  BY DEF StealCard
<1>3. cards' \in [Cards -> CardRecords]
  BY <1>2 DEF DataInv, MatTypes, CardRecords
<1>4. StepOfSchedule
  BY <1>1, LeftAlone DEF abilities
<1>5. TableTypes'
  BY <1>1, Counted DEF DataInv, TableTypes
<1> QED BY <1>1, <1>3, <1>4, <1>5 DEF DataInv, PurseTypes, MatTypes, BoardTypes, AbilityTypes,
                                      purse, board, abilities

\* A campaign that is discarded takes its cards along.
LEMMA ScrapTypes ==
  ASSUME DataInv, NEW p \in Players, Scrap(p), UNCHANGED <<narrated, boost>>
  PROVE  MatTypes'
<1>1. /\ campaign' = [campaign EXCEPT ![p] = NoCampaign]
      /\ cards' = [cards EXCEPT ![<<p, campaign[p].kit>>].zone = "DISCARD"]
  BY DEF Scrap
<1>2. cards' \in [Cards -> CardRecords]
  BY <1>1 DEF DataInv, MatTypes, CardRecords
<1>3. campaign' \in [Players -> Campaigns]
  BY <1>1 DEF DataInv, MatTypes, Campaigns
<1> QED BY <1>2, <1>3 DEF DataInv, MatTypes

\* A campaign discarded by an effect.
LEMMA DiscardStep ==
  ASSUME ScheduleInv, DataInv, NEW p \in Players, DiscardCampaign(p)
  PROVE  StepOfSchedule /\ DataInv'
<1>1. /\ Meddle("DISCARD_CAMPAIGN") /\ Scrap(p)
      /\ UNCHANGED <<schedule, pending, choice, purse, narrated, boost>>
      /\ UNCHANGED <<board, abilities, paused, setup>>
  BY DEF DiscardCampaign
<1>2. MatTypes'
  BY <1>1, ScrapTypes
<1>3. StepOfSchedule
  BY <1>1, LeftAlone DEF abilities
<1>4. TableTypes'
  BY <1>1, Counted DEF DataInv, TableTypes
<1> QED BY <1>1, <1>2, <1>3, <1>4 DEF DataInv, PurseTypes, BoardTypes, AbilityTypes,
                                      purse, board, abilities

\* A campaign rejected by the table.
LEMMA VetoStep ==
  ASSUME ScheduleInv, DataInv, NEW p \in Players, VetoCampaign(p)
  PROVE  StepOfSchedule /\ DataInv'
<1>1. /\ Meddle("VETO") /\ Scrap(p)
      /\ vetoed' = vetoed \cup {p}
      /\ UNCHANGED <<schedule, pending, choice, purse, narrated, boost>>
      /\ UNCHANGED <<board, regimeUsed, fluma, paused, setup>>
  BY DEF VetoCampaign
<1>2. MatTypes'
  BY <1>1, ScrapTypes
<1>3. StepOfSchedule
  BY <1>1, LeftAlone
<1>4. TableTypes'
  BY <1>1, Counted DEF DataInv, TableTypes
<1> QED BY <1>1, <1>2, <1>3, <1>4 DEF DataInv, PurseTypes, BoardTypes, AbilityTypes, purse, board

\* Legitimacy given by an effect.
LEMMA EstablishStep ==
  ASSUME ScheduleInv, DataInv, NEW p \in Players, NEW pd \in PDs, Establish(p, pd)
  PROVE  StepOfSchedule /\ DataInv'
<1>1. /\ Meddle("ESTABLISH_LEGITIMACY")
      /\ \/ legitimacy' = [legitimacy EXCEPT ![pd] = p]
         \/ \E old \in PDs : legitimacy' = [legitimacy EXCEPT ![old] = NoHolder, ![pd] = p]
      /\ vp' = [vp EXCEPT ![p] = @ + 1]
      /\ UNCHANGED <<schedule, pending, choice, purse, mat>>
      /\ UNCHANGED <<influence, abilities, paused, setup>>
  BY DEF Establish
<1>2. BoardTypes'
  BY <1>1 DEF DataInv, BoardTypes
<1>3. StepOfSchedule
  BY <1>1, LeftAlone DEF abilities
<1>4. TableTypes'
  BY <1>1, Counted DEF DataInv, TableTypes
<1> QED BY <1>1, <1>2, <1>3, <1>4 DEF DataInv, PurseTypes, MatTypes, AbilityTypes,
                                      purse, mat, abilities

\* A backlash takes malign cubes and places resilient ones.
LEMMA BacklashStep ==
  ASSUME ScheduleInv, DataInv, NEW p \in Players, NEW pd \in PDs, NEW amount \in Nat,
         ApplyBacklash(p, pd, amount)
  PROVE  StepOfSchedule /\ DataInv'
<1> DEFINE placed == Placed(amount, Opposing(pd, "RESILIENCY"))
           removed == Removed(amount, Opposing(pd, "RESILIENCY"))
<1>1. /\ Meddle("APPLY_BACKLASH")
      /\ vp' = [vp EXCEPT ![p] = IF @ < placed THEN 0 ELSE @ - placed]
      /\ UNCHANGED <<schedule, pending, choice, purse, mat>>
      /\ UNCHANGED <<legitimacy, abilities, paused, setup>>
  BY DEF ApplyBacklash
<1>2. PICK cut \in Cuts(pd, "MALIGN", removed) :
        influence' = [influence EXCEPT ![pd] = Shifted(@, "RESILIENCY", p, placed, cut)]
  BY DEF ApplyBacklash
<1>3. /\ BoardTypes /\ influence[pd] \in Stacks
      /\ "MALIGN" \in Types /\ "RESILIENCY" \in Types /\ Opposite("RESILIENCY") = "MALIGN"
  BY DEF DataInv, BoardTypes, Types, Opposite
<1>4. placed \in Nat /\ removed \in Nat
  BY <1>3, OpposingNat, RemovedBounds
<1> HIDE DEF placed, removed
<1>5. /\ cut \in [Players -> Nat]
      /\ \A q \in Players : cut[q] <= influence[pd]["MALIGN"][q]
  BY <1>3, <1>4, CutsShape
<1>6. Shifted(influence[pd], "RESILIENCY", p, placed, cut) \in Stacks
  BY <1>3, <1>4, <1>5, ShiftedType
<1>7. influence' \in [PDs -> Stacks]
  BY <1>2, <1>6 DEF DataInv, BoardTypes
<1>8. vp' \in [Players -> Nat]
  BY <1>1, <1>4 DEF DataInv, BoardTypes
<1>9. StepOfSchedule
  BY <1>1, LeftAlone DEF abilities
<1>10. TableTypes'
  BY <1>1, Counted DEF DataInv, TableTypes
<1> QED BY <1>1, <1>7, <1>8, <1>9, <1>10
        DEF DataInv, PurseTypes, MatTypes, BoardTypes, AbilityTypes, purse, mat, abilities

\* A pause and its end.
LEMMA PauseStep ==
  ASSUME ScheduleInv, DataInv, Pause \/ Resume
  PROVE  StepOfSchedule /\ DataInv'
<1>1. /\ UNCHANGED <<schedule, pending, choice, purse, mat, board, abilities, setup>>
      /\ paused' \in BOOLEAN
      /\ meddled' \in 0 .. MaxMeddling
  <2>1. CASE Pause
    BY <2>1, Counted DEF Pause
  <2>2. CASE Resume
    BY <2>2 DEF Resume, DataInv, TableTypes
  <2> QED BY <2>1, <2>2
<1>2. StepOfSchedule
  BY <1>1, LeftAlone DEF abilities
<1> QED BY <1>1, <1>2 DEF DataInv, PurseTypes, MatTypes, BoardTypes, AbilityTypes, TableTypes,
                          purse, mat, board, abilities

\* Every interruption is a step of the schedule and keeps the types.
LEMMA InterruptStep ==
  ASSUME ScheduleInv, DataInv, Interrupt \/ Resume
  PROVE  StepOfSchedule /\ DataInv'
<1>1. BacklashCubes \in Nat
  BY DEF BacklashCubes
<1> HIDE DEF BacklashCubes
<1> QED BY <1>1, SanctionsStep, StealStep, DiscardStep, VetoStep, EstablishStep, BacklashStep,
           PauseStep DEF Interrupt

-------------------------------------------------------------------------------
(***************************************************************************)
(* The invariant.                                                          *)
(***************************************************************************)
\* Every step keeps it.
LEMMA InvariantKept ==
  ASSUME ScheduleInv, DataInv, [Next]_vars
  PROVE  ScheduleInv' /\ DataInv'
<1>1. CASE Next
  <2>1. StepOfSchedule /\ DataInv'
    BY <1>1, RunNextStep, FlumaTriggerStep, AnswerStep, InterruptStep DEF Next
  <2> QED BY <2>1, ScheduleKept
<1>2. CASE UNCHANGED vars
  <2>1. UNCHANGED <<schedule, pending, choice, purse, mat, board, abilities, table>>
    BY <1>2 DEF vars
  <2>2. StepOfSchedule
    BY <2>1, LeftAlone DEF abilities
  <2>3. DataInv'
    BY <2>1 DEF DataInv, PurseTypes, MatTypes, BoardTypes, AbilityTypes, TableTypes,
                purse, mat, board, abilities, table
  <2> QED BY <2>2, <2>3, ScheduleKept
<1> QED BY <1>1, <1>2

\* And it holds when the stage begins.
LEMMA InvariantBegins ==
  ASSUME Init
  PROVE  ScheduleInv /\ DataInv
<1>1. PICK plans \in [Players -> UNION {Plans[p] : p \in Players}] :
       /\ \A p \in Players : plans[p] \in Plans[p]
       /\ slots = [p \in Players |->
                     [s \in DOMAIN plans[p] |->
                        [act |-> plans[p][s], revealed |-> FALSE, outcome |-> "NONE"]]]
  BY DEF Init
<1>2. /\ cursor = [p |-> 1, s |-> 1, status |-> "READY"]
      /\ current = <<>> /\ pending = None /\ choice = None
      /\ setup \in Openings
  BY DEF Init
<1>3. ASSUME NEW p \in Players
      PROVE  /\ plans[p] \in Seq(SlotActions)
             /\ slots[p] \in Seq(SlotRecords)
             /\ DOMAIN slots[p] = DOMAIN plans[p]
             /\ \A s \in DOMAIN slots[p] :
                  slots[p][s] = [act |-> plans[p][s], revealed |-> FALSE, outcome |-> "NONE"]
             /\ [s \in DOMAIN slots[p] |-> slots[p][s].act] = plans[p]
  <2>1. plans[p] \in Seq(SlotActions)
    BY <1>1, PlanAssumption
  <2>2. PICK n \in Nat : n = Len(plans[p]) /\ DOMAIN plans[p] = 1 .. n
                         /\ plans[p] \in [1 .. n -> SlotActions]
    BY <2>1, LenProperties
  <2>3. slots[p] = [s \in 1 .. n |-> [act |-> plans[p][s], revealed |-> FALSE, outcome |-> "NONE"]]
    BY <1>1, <2>2
  <2>4. \A s \in 1 .. n :
          [act |-> plans[p][s], revealed |-> FALSE, outcome |-> "NONE"] \in SlotRecords
    BY <2>2 DEF SlotRecords, Outcomes
  <2>5. slots[p] \in [1 .. n -> SlotRecords]
    BY <2>3, <2>4
  <2>6. slots[p] \in Seq(SlotRecords)
    BY <2>5, SeqDef
  <2>7. [s \in DOMAIN slots[p] |-> slots[p][s].act] = plans[p]
    BY <2>2, <2>3
  <2> QED BY <2>1, <2>2, <2>3, <2>6, <2>7
<1>4. slots \in [Players -> Seq(SlotRecords)]
  BY <1>1, <1>3
<1>5. PlansKept
  <2>1. ASSUME NEW p \in Players
        PROVE  [s \in DOMAIN slots[p] |-> slots[p][s].act] \in Plans[p]
    <3>1. plans[p] \in Plans[p]
      BY <1>1
    <3>2. [s \in DOMAIN slots[p] |-> slots[p][s].act] = plans[p]
      BY <1>3
    <3> QED BY <3>1, <3>2
  <2> QED BY <2>1 DEF PlansKept
<1>6. SlotsInOrder
  <2> SUFFICES ASSUME NEW i \in Seats, NEW s \in DOMAIN slots[Order[i]]
               PROVE  /\ Decided(Order[i], s) <=> Behind(i, s)
                      /\ slots[Order[i]][s].revealed
                           <=> (Decided(Order[i], s) \/ current = <<Order[i], s>>)
    BY DEF SlotsInOrder
  <2>1. Order[i] \in Players /\ i \in Nat /\ i >= 1
    BY SeatsProperties
  <2>2. slots[Order[i]][s].revealed = FALSE /\ slots[Order[i]][s].outcome = "NONE"
    <3>1. PICK p \in Players : p = Order[i]
      BY <2>1
    <3>2. slots[p][s] = [act |-> plans[p][s], revealed |-> FALSE, outcome |-> "NONE"]
      BY <1>3, <3>1
    <3> QED BY <3>1, <3>2
  <2>3. s \in Nat /\ s >= 1
    BY <1>3, <1>4, <1>5, <2>1, PlanShape
  <2>4. ~ Behind(i, s)
    BY <1>2, <2>1, <2>3 DEF Behind
  <2> QED BY <1>2, <2>2, <2>4 DEF Decided
<1>7. SuspensionOwnsSlot /\ CursorStands /\ OnTable /\ DieBelongs
  BY <1>2 DEF SuspensionOwnsSlot, CursorStands, OnTable, DieBelongs, None
<1>8. cursor \in [p : 1 .. Len(Order) + 1, s : 1 .. 4, status : {"READY", "SUSPENDED", "COMPLETE"}]
  <2>1. 1 \in 1 .. Len(Order) + 1
    BY SeatsProperties
  <2> QED BY <1>2, <2>1
<1>9. current \in {<<>>} \cup (Players \X (1 .. 3)) /\ pending \in Pendings /\ choice \in Choices
  BY <1>2 DEF Pendings, Choices
<1>10. ScheduleInv
  BY <1>4, <1>5, <1>6, <1>7, <1>8, <1>9 DEF ScheduleInv
<1>11. /\ setup.resources \in [Players -> Nat]
       /\ setup.influence \in [PDs -> Stacks]
       /\ setup.legitimacy \in [PDs -> Players \cup {NoHolder}]
       /\ setup.aged \in [Players -> Kits \cup {"NONE"}]
  BY <1>2, OpeningAssumption DEF Stacks
<1>12. PurseTypes
  <2>1. resources = setup.resources /\ ledger = <<>> /\ coreUsed = {}
    BY DEF Init
  <2>2. ledger \in Seq(Entries)
    BY <2>1
  <2> QED BY <1>11, <2>1, <2>2 DEF PurseTypes
<1>13. MatTypes
  <2>1. campaign \in [Players -> Campaigns]
    <3>1. campaign = [p \in Players |->
                   IF setup.aged[p] = "NONE" THEN NoCampaign
                   ELSE [kit |-> setup.aged[p], row |-> "II", count |-> 0]]
      BY DEF Init
    <3>2. \A p \in Players : setup.aged[p] # "NONE" =>
            [kit |-> setup.aged[p], row |-> "II", count |-> 0] \in
              [kit : Kits, row : {"I", "II"}, count : Nat]
      BY <1>11
    <3> QED BY <3>1, <3>2 DEF Campaigns
  <2>2. cards \in [Cards -> CardRecords]
    <3> DEFINE hand(c) == {"sanctions"} \cup
                          {CardFor(slots[c[1]][s].act) : s \in DOMAIN slots[c[1]]}
               zone(c) == IF c[2] = setup.aged[c[1]] THEN "CAMPAIGN"
                          ELSE IF c[2] \in hand(c) THEN "HAND" ELSE "DISCARD"
    <3>1. cards = [c \in Cards |-> [zone |-> zone(c), ctrl |-> c[1]]]
      BY DEF Init
    <3>2. \A c \in Cards : zone(c) \in {"HAND", "CAMPAIGN", "DISCARD"} /\ c[1] \in Players
      BY DEF Cards
    <3> HIDE DEF zone
    <3> QED BY <3>1, <3>2 DEF CardRecords
  <2>3. narrated = {} /\ boost = [p \in Players |-> 0]
    BY DEF Init
  <2> QED BY <2>1, <2>2, <2>3 DEF MatTypes
<1>14. BoardTypes
  BY <1>11 DEF Init, BoardTypes
<1>15. AbilityTypes
  BY DEF Init, AbilityTypes
<1>16. TableTypes
  <2>1. paused = FALSE /\ meddled = 0
    BY DEF Init
  <2>2. 0 \in 0 .. MaxMeddling
    BY MeddlingAssumption
  <2> QED BY <1>2, <2>1, <2>2 DEF TableTypes
<1> QED BY <1>10, <1>12, <1>13, <1>14, <1>15, <1>16 DEF DataInv

\* The state has its type: in particular no resource, influence or victory
\* point becomes negative, and a question is about a slot that exists.
THEOREM TypeCorrect == Spec => []TypeOK
<1>1. Init => ScheduleInv /\ DataInv
  BY InvariantBegins
<1>2. ScheduleInv /\ DataInv /\ [Next]_vars => ScheduleInv' /\ DataInv'
  BY InvariantKept
<1>3. ScheduleInv /\ DataInv => TypeOK
  BY TypesOfInvariant
<1> QED BY <1>1, <1>2, <1>3, PTL DEF Spec

\* Slots are decided in initiative order, whatever suspends the scheduler.
THEOREM InitiativeOrder == Spec => []SlotsInOrder
<1>1. Init => ScheduleInv /\ DataInv
  BY InvariantBegins
<1>2. ScheduleInv /\ DataInv /\ [Next]_vars => ScheduleInv' /\ DataInv'
  BY InvariantKept
<1>3. ScheduleInv => SlotsInOrder
  BY DEF ScheduleInv
<1> QED BY <1>1, <1>2, <1>3, PTL DEF Spec

\* What is open belongs to the slot under the cursor.
THEOREM SuspensionOwned == Spec => []SuspensionOwnsSlot
<1>1. Init => ScheduleInv /\ DataInv
  BY InvariantBegins
<1>2. ScheduleInv /\ DataInv /\ [Next]_vars => ScheduleInv' /\ DataInv'
  BY InvariantKept
<1>3. ScheduleInv => SuspensionOwnsSlot
  BY DEF ScheduleInv
<1> QED BY <1>1, <1>2, <1>3, PTL DEF Spec

-------------------------------------------------------------------------------
(***************************************************************************)
(* FLUMA comes before the next slot.                                       *)
(***************************************************************************)
\* No slot is turned over.
NothingRevealed ==
  \A p \in Players : \A s \in DOMAIN slots[p] : slots'[p][s].revealed => slots[p][s].revealed

\* What a step does to a slot that is on the table reveals nothing.
LEMMA OnlyTheTable ==
  ASSUME ScheduleInv, NEW p \in Players, NEW s \in DOMAIN slots[p], slots[p][s].revealed,
         \/ \E o \in Outcomes : Decide(p, s, o)
         \/ Suspend(p, s)
         \/ AdvanceInline(p, s)
  PROVE  NothingRevealed
<1>1. slots \in [Players -> Seq(SlotRecords)] /\ PlansKept
  BY DEF ScheduleInv
<1>2. "NONE" \in Outcomes
  BY DEF Outcomes
<1>3. PICK r \in SlotRecords : r.act = slots[p][s].act /\ RewritesSlot(p, s, r)
  BY <1>1, <1>2, RewriteForms
<1>4. \A q \in Players : \A u \in DOMAIN slots[q] :
        slots'[q][u] = IF q = p /\ u = s THEN r ELSE slots[q][u]
  BY <1>1, <1>3, SlotRewritten
<1> QED BY <1>4 DEF NothingRevealed

\* The slot that somebody is asked about has been revealed.
LEMMA AskedIsRevealed ==
  ASSUME ScheduleInv
  PROVE  /\ pending # None => slots[pending.p][pending.s].revealed
         /\ choice # None /\ choice.s > 0 => slots[choice.p][choice.s].revealed
<1>1. ASSUME NEW p \in Players, NEW s, cursor.p \in Seats,
             <<p, s>> = <<Order[cursor.p], cursor.s>>, current = <<p, s>>
      PROVE  slots[p][s].revealed
  <2>1. s \in DOMAIN slots[p] /\ p = Order[cursor.p] /\ s = cursor.s
    BY <1>1, OpenSlot
  <2> QED BY <1>1, <2>1 DEF ScheduleInv, SlotsInOrder
<1>2. pending # None => slots[pending.p][pending.s].revealed
  BY <1>1, PendingShape DEF ScheduleInv, SuspensionOwnsSlot
<1>3. choice # None /\ choice.s > 0 => slots[choice.p][choice.s].revealed
  BY <1>1, ChoiceShape DEF ScheduleInv, SuspensionOwnsSlot
<1> QED BY <1>2, <1>3

\* An activation that goes on decides its slot or suspends it.
LEMMA RollOrAskForms ==
  ASSUME NEW p, NEW s, NEW bonus, NEW res, NEW led
  PROVE  /\ RollOrAsk(p, s, bonus, res, led) => Suspend(p, s) \/ Decide(p, s, "RESOLVED")
         /\ \A roll \in Rolls : PayAndRoll(p, s, bonus, roll, res, led)
                                  => Suspend(p, s) \/ Decide(p, s, "RESOLVED")
<1>1. ASSUME NEW roll \in Rolls, PayAndRoll(p, s, bonus, roll, res, led)
      PROVE  Suspend(p, s) \/ Decide(p, s, "RESOLVED")
  <2>1. \/ Suspend(p, s)
        \/ \E generated, count, result, before, cut :
             Complete(p, s, generated, count, result, before, cut)
    BY <1>1 DEF PayAndRoll
  <2> QED BY <2>1 DEF Complete
<1>2. RollOrAsk(p, s, bonus, res, led) =>
        Suspend(p, s) \/ \E roll \in Rolls : PayAndRoll(p, s, bonus, roll, res, led)
  BY DEF RollOrAsk
<1> QED BY <1>1, <1>2

\* An answer concerns what is on the table.
LEMMA AnswerReveals ==
  ASSUME ScheduleInv, Answer
  PROVE  NothingRevealed
<1>1. "RESOLVED" \in Outcomes
  BY DEF Outcomes
<1>2. ASSUME pending # None,
             Suspend(pending.p, pending.s) \/ Decide(pending.p, pending.s, "RESOLVED")
      PROVE  NothingRevealed
  BY <1>1, <1>2, WhoIsAsked, AskedIsRevealed, OnlyTheTable
<1>3. ASSUME choice # None, choice.s > 0, AdvanceInline(choice.p, choice.s)
      PROVE  NothingRevealed
  BY <1>3, WhoChooses, AskedIsRevealed, OnlyTheTable
<1>4. ASSUME slots' = slots
      PROVE  NothingRevealed
  BY <1>4 DEF NothingRevealed
<1>5. CASE SubmitNarrative
  <2>1. pending # None
    BY <1>5 DEF SubmitNarrative, Asked, None
  <2>2. Suspend(pending.p, pending.s) \/ Decide(pending.p, pending.s, "RESOLVED")
    BY <1>5, RollOrAskForms DEF SubmitNarrative
  <2> QED BY <1>2, <2>1, <2>2
<1>6. ASSUME NEW q \in Players, NEW gives \in BOOLEAN, SubmitCoalition(q, gives)
      PROVE  NothingRevealed
  <2>1. pending # None
    BY <1>6 DEF SubmitCoalition, Asked, None
  <2>2. \/ slots' = slots
        \/ Suspend(pending.p, pending.s) \/ Decide(pending.p, pending.s, "RESOLVED")
    BY <1>6, RollOrAskForms DEF SubmitCoalition, schedule
  <2> QED BY <1>2, <1>4, <2>1, <2>2
<1>7. ASSUME NEW roll \in Rolls, SubmitManualDie(roll)
      PROVE  NothingRevealed
  <2>1. pending # None
    BY <1>7 DEF SubmitManualDie, Asked, None
  <2>2. Suspend(pending.p, pending.s) \/ Decide(pending.p, pending.s, "RESOLVED")
    BY <1>7, RollOrAskForms DEF SubmitManualDie
  <2> QED BY <1>2, <2>1, <2>2
<1>8. ASSUME NEW roll \in Rolls, SubmitRegimeDie(roll)
      PROVE  NothingRevealed
  <2>1. pending # None
    BY <1>8 DEF SubmitRegimeDie, Asked, None
  <2>2. Suspend(pending.p, pending.s) \/ Decide(pending.p, pending.s, "RESOLVED")
    BY <1>8 DEF SubmitRegimeDie, RollRegime, RegimeFizzles, AskRegime
  <2> QED BY <1>2, <2>1, <2>2
<1>9. CASE SubmitChoice
  <2>1. pending # None
    BY <1>9 DEF SubmitChoice, Asked, None
  <2>2. Decide(pending.p, pending.s, "RESOLVED")
    BY <1>9 DEF SubmitChoice, Complete
  <2> QED BY <1>2, <2>1, <2>2
<1>10. CASE SubmitArdenChoice \/ SubmitDinesiaChoice
  <2>1. /\ choice.kind \in {"ARDEN", "DINESIA"}
        /\ AdvanceInline(choice.p, choice.s)
    BY <1>10 DEF SubmitArdenChoice, SubmitDinesiaChoice, Chosen
  <2>2. choice \in Choices /\ choice # None
    BY <2>1 DEF ScheduleInv, None
  <2>3. choice.s \in 1 .. 3
    BY <2>1, <2>2, ChoiceShape
  <2>4. choice.s > 0
    BY <2>3
  <2> QED BY <1>3, <2>1, <2>2, <2>4
<1>11. CASE SubmitFlumaChoice
  <2>1. choice # None
    BY <1>11 DEF SubmitFlumaChoice, Chosen, None
  <2>2. (choice.s > 0 /\ AdvanceInline(choice.p, choice.s)) \/ slots' = slots
    BY <1>11 DEF SubmitFlumaChoice
  <2> QED BY <1>3, <1>4, <2>1, <2>2
<1> QED BY <1>5, <1>6, <1>7, <1>8, <1>9, <1>10, <1>11 DEF Answer

\* While the spends of others wait for FLUMA no slot is revealed.
LEMMA FlumaFirst ==
  ASSUME ScheduleInv, [Next]_vars, FlumaDue
  PROVE  NothingRevealed
<1>1. ~ RunNext
  BY DEF RunNext, ConstructCampaign, PlayBoost, PlayDoubleAction, UseRegime, NegateActivation,
         ActivateCampaign, Ready
<1>2. ASSUME slots' = slots
      PROVE  NothingRevealed
  BY <1>2 DEF NothingRevealed
<1>3. FlumaTrigger \/ Interrupt \/ Resume \/ UNCHANGED vars => slots' = slots
  BY DEF FlumaTrigger, Interrupt, Resume, PlaySanctions, StealCard, DiscardCampaign,
         VetoCampaign, Establish, ApplyBacklash, Pause, vars, schedule
<1> QED BY <1>1, <1>2, <1>3, AnswerReveals DEF Next

\* An active FLUMA regime answers the spends of the others before the next slot
\* is revealed, whatever is open and whoever interrupts.
THEOREM FlumaPrecedes == Spec => FlumaBeforeNextSlot
<1>1. Init => ScheduleInv /\ DataInv
  BY InvariantBegins
<1>2. ScheduleInv /\ DataInv /\ [Next]_vars => ScheduleInv' /\ DataInv'
  BY InvariantKept
<1>3. ScheduleInv /\ [Next]_vars =>
        [FlumaDue => \A p \in Players : \A s \in DOMAIN slots[p] :
                       slots'[p][s].revealed => slots[p][s].revealed]_vars
  BY FlumaFirst DEF NothingRevealed
<1> QED BY <1>1, <1>2, <1>3, PTL DEF Spec, FlumaBeforeNextSlot

-------------------------------------------------------------------------------
(***************************************************************************)
(* The cards of the campaigns and the planned boosts.                      *)
(***************************************************************************)
KitsOnMat ==
  \A p \in Players : \A k \in Kits : cards[<<p, k>>].zone = "CAMPAIGN" <=> campaign[p].kit = k

\* A boost is planned by the slot that names it, once, and its card goes to the
\* discard pile when it is no longer planned.
BoostPlanned ==
  \A p \in Players : \A s \in DOMAIN slots[p] : Act(p, s).type = "BOOST" =>
    /\ slots[p][s].outcome # "RESOLVED" => boost[p] = 0
    /\ slots[p][s].outcome = "RESOLVED" =>
         \/ boost[p] = Act(p, s).seq
         \/ boost[p] = 0 /\ cards[<<p, "boost">>].zone = "DISCARD"

\* While a boost is planned the die of its activation has not been rolled.
BoostUnspent ==
  \A p \in Players : boost[p] # 0 =>
    /\ boost[p] \in DOMAIN slots[p]
    /\ Act(p, boost[p]).type = "ACTIVATE"
    /\ slots[p][boost[p]].outcome \in {"NONE", "FAILED_COST"}
    /\ ~ (pending.kind = "CHOICE" /\ pending.p = p /\ pending.s = boost[p])

BoostInv == BoostPlanned /\ BoostUnspent

\* The slots keep their number and their actions.
ActsStay ==
  \A q \in Players : /\ DOMAIN slots'[q] = DOMAIN slots[q]
                     /\ \A u \in DOMAIN slots[q] : slots'[q][u].act = slots[q][u].act

\* A slot keeps the action of its plan in every step.
LEMMA ScheduleKeepsActs ==
  ASSUME ScheduleInv, StepOfSchedule
  PROVE  ActsStay
<1>1. slots \in [Players -> Seq(SlotRecords)] /\ PlansKept
  BY DEF ScheduleInv
<1>2. ASSUME NEW p \in Players, NEW s \in DOMAIN slots[p],
             \/ \E o \in Outcomes : Decide(p, s, o)
             \/ Suspend(p, s)
             \/ AdvanceInline(p, s)
      PROVE  ActsStay
  <2>1. "NONE" \in Outcomes
    BY DEF Outcomes
  <2>2. PICK r \in SlotRecords : r.act = slots[p][s].act /\ RewritesSlot(p, s, r)
    BY <1>1, <1>2, <2>1, RewriteForms
  <2>3. /\ r \in SlotRecords /\ r.act = slots[p][s].act /\ RewritesSlot(p, s, r)
        /\ p \in Players /\ s \in DOMAIN slots[p]
    BY <2>2
  <2>4. \A q \in Players :
          /\ DOMAIN slots'[q] = DOMAIN slots[q]
          /\ Len(slots'[q]) = Len(slots[q])
          /\ \A u \in DOMAIN slots[q] :
               /\ slots'[q][u] = IF q = p /\ u = s THEN r ELSE slots[q][u]
               /\ slots'[q][u].act = slots[q][u].act
    BY ONLY <1>1, <2>3, SlotRewritten
  <2> QED BY <2>4 DEF ActsStay
<1>3. CASE Deciding
  BY <1>2, <1>3 DEF Deciding
<1>4. CASE Asking
  BY <1>2, <1>4 DEF Asking
<1>5. CASE Answered
  BY <1>2, <1>5, WhoChooses DEF Answered
<1>6. CASE Triggered \/ Calmed \/ Waiting
  BY <1>6 DEF Triggered, Calmed, Waiting, schedule, ActsStay
<1> QED BY <1>3, <1>4, <1>5, <1>6 DEF StepOfSchedule

\* What the ways to change a slot do to the outcomes.
LEMMA OutcomesOf ==
  ASSUME ScheduleInv, NEW p \in Players, NEW s \in DOMAIN slots[p]
  PROVE  /\ \A o \in Outcomes : Decide(p, s, o) =>
              \A q \in Players : \A u \in DOMAIN slots[q] :
                slots'[q][u].outcome = IF q = p /\ u = s THEN o ELSE slots[q][u].outcome
         /\ Suspend(p, s) =>
              \A q \in Players : \A u \in DOMAIN slots[q] :
                slots'[q][u].outcome = slots[q][u].outcome
         /\ AdvanceInline(p, s) =>
              \A q \in Players : \A u \in DOMAIN slots[q] :
                slots'[q][u].outcome = IF q = p /\ u = s THEN "RESOLVED"
                                       ELSE slots[q][u].outcome
<1>1. slots \in [Players -> Seq(SlotRecords)] /\ PlansKept
  BY DEF ScheduleInv
<1>2. ASSUME NEW r \in SlotRecords, r.act = slots[p][s].act, RewritesSlot(p, s, r)
      PROVE  \A q \in Players : \A u \in DOMAIN slots[q] :
               slots'[q][u].outcome = IF q = p /\ u = s THEN r.outcome ELSE slots[q][u].outcome
  <2>1. \A q \in Players : \A u \in DOMAIN slots[q] :
          slots'[q][u] = IF q = p /\ u = s THEN r ELSE slots[q][u]
    BY <1>1, <1>2, SlotRewritten
  <2> QED BY <2>1
<1>3. ASSUME NEW o \in Outcomes, Decide(p, s, o)
      PROVE  \A q \in Players : \A u \in DOMAIN slots[q] :
               slots'[q][u].outcome = IF q = p /\ u = s THEN o ELSE slots[q][u].outcome
  <2>1. PICK r \in SlotRecords : r.act = slots[p][s].act /\ r.outcome = o /\ RewritesSlot(p, s, r)
    BY <1>1, <1>3, RewriteForms
  <2> QED BY <1>2, <2>1
<1>4. "NONE" \in Outcomes
  BY DEF Outcomes
<1>5. ASSUME Suspend(p, s)
      PROVE  \A q \in Players : \A u \in DOMAIN slots[q] :
               slots'[q][u].outcome = slots[q][u].outcome
  <2>1. PICK r \in SlotRecords :
          r.act = slots[p][s].act /\ r.outcome = slots[p][s].outcome /\ RewritesSlot(p, s, r)
    BY <1>1, <1>4, <1>5, RewriteForms
  <2> QED BY <1>2, <2>1
<1>6. ASSUME AdvanceInline(p, s)
      PROVE  \A q \in Players : \A u \in DOMAIN slots[q] :
               slots'[q][u].outcome = IF q = p /\ u = s THEN "RESOLVED" ELSE slots[q][u].outcome
  <2>1. PICK r \in SlotRecords :
          r.act = slots[p][s].act /\ r.outcome = "RESOLVED" /\ RewritesSlot(p, s, r)
    BY <1>1, <1>4, <1>6, RewriteForms
  <2> QED BY <1>2, <2>1
<1> QED BY <1>3, <1>5, <1>6

(***************************************************************************)
(* The ways in which the planned boosts change.                            *)
(***************************************************************************)
\* No die is rolled and no boost is played.
Undisturbed ==
  /\ boost' = boost
  /\ \A p \in Players : cards'[<<p, "boost">>].zone = cards[<<p, "boost">>].zone
  /\ pending'.kind = "CHOICE" => pending' = pending
  /\ \A p \in Players : \A s \in DOMAIN slots[p] :
       \/ slots'[p][s].outcome = slots[p][s].outcome
       \/ Act(p, s).type \notin {"ACTIVATE", "BOOST"}
       \/ /\ Act(p, s).type = "ACTIVATE"
          /\ \/ slots'[p][s].outcome = "FAILED_COST"
             \/ pending.kind = "CHOICE" /\ p = pending.p /\ s = pending.s

\* The die of the activation in the slot has been rolled, or the table has
\* negated it.
Spent(p, s) ==
  /\ boost' = (IF boost[p] = s THEN [boost EXCEPT ![p] = 0] ELSE boost)
  /\ cards' = (IF boost[p] = s THEN [cards EXCEPT ![<<p, "boost">>].zone = "DISCARD"] ELSE cards)
  /\ pending'.kind = "CHOICE" => pending'.p = p /\ pending'.s = s
  /\ \A q \in Players : \A u \in DOMAIN slots[q] :
       ~ (q = p /\ u = s) => slots'[q][u].outcome = slots[q][u].outcome

\* Nothing happens to the boosts.
LEMMA UndisturbedKeeps ==
  ASSUME ActsStay, BoostInv, Undisturbed
  PROVE  BoostInv'
<1>1. BoostPlanned'
  <2> SUFFICES ASSUME NEW p \in Players, NEW s \in DOMAIN slots'[p], Act(p, s)'.type = "BOOST"
               PROVE  /\ slots'[p][s].outcome # "RESOLVED" => boost'[p] = 0
                      /\ slots'[p][s].outcome = "RESOLVED" =>
                           \/ boost'[p] = Act(p, s)'.seq
                           \/ boost'[p] = 0 /\ cards'[<<p, "boost">>].zone = "DISCARD"
    BY DEF BoostPlanned
  <2>1. s \in DOMAIN slots[p] /\ Act(p, s)' = Act(p, s) /\ Act(p, s).type = "BOOST"
    BY DEF ActsStay, Act
  <2>2. slots'[p][s].outcome = slots[p][s].outcome
    BY <2>1 DEF Undisturbed
  <2>3. boost'[p] = boost[p] /\ cards'[<<p, "boost">>].zone = cards[<<p, "boost">>].zone
    BY DEF Undisturbed
  <2> QED BY <2>1, <2>2, <2>3 DEF BoostInv, BoostPlanned
<1>2. BoostUnspent'
  <2> SUFFICES ASSUME NEW p \in Players, boost'[p] # 0
               PROVE  /\ boost'[p] \in DOMAIN slots'[p]
                      /\ slots'[p][boost'[p]].act.type = "ACTIVATE"
                      /\ slots'[p][boost'[p]].outcome \in {"NONE", "FAILED_COST"}
                      /\ ~ (pending'.kind = "CHOICE" /\ pending'.p = p /\ pending'.s = boost'[p])
    BY DEF BoostUnspent, Act
  <2>1. PICK s \in DOMAIN slots[p] :
          /\ s = boost[p] /\ s = boost'[p]
          /\ Act(p, s).type = "ACTIVATE"
          /\ slots[p][s].outcome \in {"NONE", "FAILED_COST"}
          /\ ~ (pending.kind = "CHOICE" /\ pending.p = p /\ pending.s = s)
    BY DEF Undisturbed, BoostInv, BoostUnspent
  <2>2. s \in DOMAIN slots'[p] /\ slots'[p][s].act = slots[p][s].act
    BY DEF ActsStay
  <2>3. slots'[p][s].outcome \in {"NONE", "FAILED_COST"}
    BY <2>1 DEF Undisturbed
  <2>4. ~ (pending'.kind = "CHOICE" /\ pending'.p = p /\ pending'.s = s)
    BY <2>1 DEF Undisturbed
  <2> QED BY <2>1, <2>2, <2>3, <2>4 DEF Act
<1> QED BY <1>1, <1>2 DEF BoostInv

\* The boost of an activation goes when its die is rolled.
LEMMA SpentKeeps ==
  ASSUME ActsStay, BoostInv, MatTypes, NEW p \in Players, NEW s \in DOMAIN slots[p], s # 0,
         Activates(Act(p, s)), Spent(p, s)
  PROVE  BoostInv'
<1>1. /\ boost' \in [Players -> 0 .. 3]
      /\ \A q \in Players : boost'[q] = IF q = p /\ boost[p] = s THEN 0 ELSE boost[q]
  <2>1. boost \in [Players -> 0 .. 3]
    BY DEF MatTypes
  <2>2. boost' = (IF boost[p] = s THEN [boost EXCEPT ![p] = 0] ELSE boost)
    BY DEF Spent
  <2>3. CASE boost[p] = s
    BY <2>1, <2>2, <2>3
  <2>4. CASE boost[p] # s
    BY <2>1, <2>2, <2>4
  <2> QED BY <2>3, <2>4
<1>2. \A q \in Players : cards'[<<q, "boost">>].zone =
                           IF q = p /\ boost[p] = s THEN "DISCARD" ELSE cards[<<q, "boost">>].zone
  <2>1. cards \in [Cards -> CardRecords] /\ \A q \in Players : <<q, "boost">> \in Cards
    BY DEF MatTypes, Cards
  <2>2. cards' = (IF boost[p] = s THEN [cards EXCEPT ![<<p, "boost">>].zone = "DISCARD"]
                  ELSE cards)
    BY DEF Spent
  <2>3. CASE boost[p] = s
    <3> TAKE q \in Players
    <3>1. <<q, "boost">> = <<p, "boost">> <=> q = p
      OBVIOUS
    <3> QED BY <2>1, <2>2, <2>3, <3>1 DEF CardRecords
  <2>4. CASE boost[p] # s
    BY <2>2, <2>4
  <2> QED BY <2>3, <2>4
<1>3. BoostPlanned'
  <2> SUFFICES ASSUME NEW q \in Players, NEW u \in DOMAIN slots'[q], Act(q, u)'.type = "BOOST"
               PROVE  /\ slots'[q][u].outcome # "RESOLVED" => boost'[q] = 0
                      /\ slots'[q][u].outcome = "RESOLVED" =>
                           \/ boost'[q] = Act(q, u)'.seq
                           \/ boost'[q] = 0 /\ cards'[<<q, "boost">>].zone = "DISCARD"
    BY DEF BoostPlanned
  <2>1. u \in DOMAIN slots[q] /\ Act(q, u)' = Act(q, u) /\ Act(q, u).type = "BOOST"
    BY DEF ActsStay, Act
  <2>2. ~ (q = p /\ u = s)
    BY <2>1 DEF Activates
  <2>3. slots'[q][u].outcome = slots[q][u].outcome
    BY <2>1, <2>2 DEF Spent
  <2>4. /\ slots[q][u].outcome # "RESOLVED" => boost[q] = 0
        /\ slots[q][u].outcome = "RESOLVED" =>
             \/ boost[q] = Act(q, u).seq
             \/ boost[q] = 0 /\ cards[<<q, "boost">>].zone = "DISCARD"
    BY <2>1 DEF BoostInv, BoostPlanned
  <2> QED BY <1>1, <1>2, <2>1, <2>3, <2>4
<1>4. BoostUnspent'
  <2> SUFFICES ASSUME NEW q \in Players, boost'[q] # 0
               PROVE  /\ boost'[q] \in DOMAIN slots'[q]
                      /\ slots'[q][boost'[q]].act.type = "ACTIVATE"
                      /\ slots'[q][boost'[q]].outcome \in {"NONE", "FAILED_COST"}
                      /\ ~ (pending'.kind = "CHOICE" /\ pending'.p = q /\ pending'.s = boost'[q])
    BY DEF BoostUnspent, Act
  <2>1. boost'[q] = boost[q] /\ ~ (q = p /\ boost[q] = s)
    BY <1>1
  <2>2. PICK u \in DOMAIN slots[q] :
          /\ u = boost[q]
          /\ Act(q, u).type = "ACTIVATE"
          /\ slots[q][u].outcome \in {"NONE", "FAILED_COST"}
    BY <2>1 DEF BoostInv, BoostUnspent
  <2>3. u \in DOMAIN slots'[q] /\ slots'[q][u].act = slots[q][u].act
    BY DEF ActsStay
  <2>4. slots'[q][u].outcome = slots[q][u].outcome
    BY <2>1, <2>2 DEF Spent
  <2>5. ~ (pending'.kind = "CHOICE" /\ pending'.p = q /\ pending'.s = u)
    BY <2>1, <2>2 DEF Spent
  <2> QED BY <2>1, <2>2, <2>3, <2>4, <2>5 DEF Act
<1> QED BY <1>3, <1>4 DEF BoostInv

\* A set with at most one element.
LEMMA AtMostOne ==
  ASSUME NEW S, IsFiniteSet(S), Cardinality(S) <= 1, NEW x \in S, NEW y \in S
  PROVE  x = y
<1>1. Cardinality(S) \in Nat /\ Cardinality(S) # 0
  BY FS_CardinalityType, FS_EmptySet
<1>2. Cardinality(S) = 1
  BY <1>1
<1>3. \E z : S = {z}
  BY <1>2, FS_Singleton
<1> QED BY <1>3

\* The slot that plays a boost: the only one of the plan, and before the
\* activation it names.
LEMMA BoostSlot ==
  ASSUME ScheduleInv, NEW p \in Players, NEW s \in DOMAIN slots[p], Act(p, s).type = "BOOST"
  PROVE  /\ Act(p, s).seq \in DOMAIN slots[p]
         /\ Act(p, s).seq \in 1 .. 3
         /\ Act(p, s).seq > s
         /\ Act(p, Act(p, s).seq).type = "ACTIVATE"
         /\ \A t \in DOMAIN slots[p] : Act(p, t).type = "BOOST" => t = s
<1> DEFINE plan == [u \in DOMAIN slots[p] |-> slots[p][u].act]
           slotsOf(t) == {u \in DOMAIN plan : plan[u].type = t}
<1>1. plan \in Seq(SlotActions) /\ ValidPlan(plan)
  BY PlanAssumption DEF ScheduleInv, PlansKept
<1>2. DOMAIN plan = DOMAIN slots[p] /\ \A u \in DOMAIN slots[p] : plan[u] = Act(p, u)
  BY DEF Act
<1>3. \A u \in DOMAIN slots[p] : u \in 1 .. 3
  BY PlanShape DEF ScheduleInv
<1> HIDE DEF plan
<1>4. /\ Cardinality(slotsOf("BOOST")) <= 1
      /\ \A u \in slotsOf("BOOST") : plan[u].seq \in slotsOf("ACTIVATE") /\ plan[u].seq > u
  BY <1>1 DEF ValidPlan
<1>5. IsFiniteSet(slotsOf("BOOST"))
  <2>1. PICK n \in Nat : n = 3
    OBVIOUS
  <2>2. slotsOf("BOOST") \in SUBSET Nat /\ \A u \in slotsOf("BOOST") : u <= n
    BY <1>2, <1>3, <2>1
  <2> HIDE DEF slotsOf
  <2> QED BY <2>2, FS_BoundedSetOfNaturals
<1>6. s \in slotsOf("BOOST")
  BY <1>2
<1>7. \A t \in DOMAIN slots[p] : Act(p, t).type = "BOOST" => t \in slotsOf("BOOST")
  BY <1>2
<1>8. Act(p, s).seq \in slotsOf("ACTIVATE") /\ Act(p, s).seq > s
  BY <1>2, <1>4, <1>6
<1>9. Act(p, s).seq \in DOMAIN slots[p] /\ Act(p, Act(p, s).seq).type = "ACTIVATE"
  BY <1>2, <1>8
<1> HIDE DEF slotsOf
<1> QED BY <1>3, <1>4, <1>5, <1>6, <1>7, <1>8, <1>9, AtMostOne

\* A boost is played before the activation it is for.
LEMMA PlannedKeeps ==
  ASSUME ScheduleInv, MatTypes, ActsStay, BoostInv,
         NEW p \in Players, NEW s \in DOMAIN slots[p], PlayBoost(p, s)
  PROVE  BoostInv'
<1> DEFINE seq == Act(p, s).seq
<1>1. /\ Ready(p, s, "BOOST")
      /\ boost[p] = 0
      /\ boost' = [boost EXCEPT ![p] = seq]
      /\ Decide(p, s, "RESOLVED")
      /\ cards' = cards /\ pending' = pending
  BY DEF PlayBoost
<1>2. pending = None /\ AtSlot(p, s) /\ Act(p, s).type = "BOOST" /\ s \in 1 .. 3
  BY <1>1, ReadyShape
<1>3. /\ seq \in DOMAIN slots[p] /\ seq \in 1 .. 3 /\ seq > s /\ Act(p, seq).type = "ACTIVATE"
      /\ \A t \in DOMAIN slots[p] : Act(p, t).type = "BOOST" => t = s
  BY <1>2, BoostSlot
<1>4. ~ Decided(p, seq)
  <2>1. PICK i \in Seats : p = Order[i] /\ \A u \in DOMAIN slots[Order[i]] :
                             Decided(Order[i], u) <=> Precedes(i, u, i, s)
    BY <1>2, SlotUnderCursor
  <2>2. i \in Nat
    BY SeatsProperties
  <2>3. ~ Precedes(i, seq, i, s)
    BY <1>2, <1>3, <2>2 DEF Precedes
  <2> QED BY <1>3, <2>1, <2>3
<1> HIDE DEF seq
<1>5. \A q \in Players : \A u \in DOMAIN slots[q] :
        slots'[q][u].outcome = IF q = p /\ u = s THEN "RESOLVED" ELSE slots[q][u].outcome
  <2>1. "RESOLVED" \in Outcomes
    BY DEF Outcomes
  <2> QED BY <1>1, <2>1, OutcomesOf
<1>6. \A q \in Players : boost'[q] = IF q = p THEN seq ELSE boost[q]
  BY <1>1 DEF MatTypes
<1>7. BoostPlanned'
  <2> SUFFICES ASSUME NEW q \in Players, NEW u \in DOMAIN slots'[q], Act(q, u)'.type = "BOOST"
               PROVE  /\ slots'[q][u].outcome # "RESOLVED" => boost'[q] = 0
                      /\ slots'[q][u].outcome = "RESOLVED" =>
                           \/ boost'[q] = Act(q, u)'.seq
                           \/ boost'[q] = 0 /\ cards'[<<q, "boost">>].zone = "DISCARD"
    BY DEF BoostPlanned
  <2>1. u \in DOMAIN slots[q] /\ Act(q, u)' = Act(q, u) /\ Act(q, u).type = "BOOST"
    BY DEF ActsStay, Act
  <2>2. CASE q = p
    <3>1. u = s
      BY <1>3, <2>1, <2>2
    <3> QED BY <1>5, <1>6, <2>1, <2>2, <3>1 DEF seq
  <2>3. CASE q # p
    BY <1>1, <1>5, <1>6, <2>1, <2>3 DEF BoostInv, BoostPlanned
  <2> QED BY <2>2, <2>3
<1>8. BoostUnspent'
  <2> SUFFICES ASSUME NEW q \in Players, boost'[q] # 0
               PROVE  /\ boost'[q] \in DOMAIN slots'[q]
                      /\ slots'[q][boost'[q]].act.type = "ACTIVATE"
                      /\ slots'[q][boost'[q]].outcome \in {"NONE", "FAILED_COST"}
                      /\ ~ (pending'.kind = "CHOICE" /\ pending'.p = q /\ pending'.s = boost'[q])
    BY DEF BoostUnspent, Act
  <2>1. pending'.kind # "CHOICE"
    BY <1>1, <1>2 DEF None
  <2>2. CASE q = p
    <3>1. seq \in DOMAIN slots'[q] /\ slots'[q][seq].act = Act(q, seq)
      BY <1>3, <2>2 DEF ActsStay, Act
    <3>2. slots'[q][seq].outcome = "NONE"
      BY <1>3, <1>4, <1>5, <2>2 DEF Decided
    <3> QED BY <1>3, <1>6, <2>1, <2>2, <3>1, <3>2
  <2>3. CASE q # p
    <3>1. PICK u \in DOMAIN slots[q] :
            /\ u = boost[q] /\ u = boost'[q]
            /\ Act(q, u).type = "ACTIVATE"
            /\ slots[q][u].outcome \in {"NONE", "FAILED_COST"}
      BY <1>6, <2>3 DEF BoostInv, BoostUnspent
    <3>2. u \in DOMAIN slots'[q] /\ slots'[q][u].act = Act(q, u)
      BY DEF ActsStay, Act
    <3>3. slots'[q][u].outcome = slots[q][u].outcome
      BY <1>5, <2>3
    <3> QED BY <2>1, <3>1, <3>2, <3>3
  <2> QED BY <2>2, <2>3
<1> QED BY <1>7, <1>8 DEF BoostInv

(***************************************************************************)
(* Every action is one of them, and keeps the kits where they belong.      *)
(***************************************************************************)
BoostStep ==
  \/ Undisturbed
  \/ \E p \in Players : \E s \in DOMAIN slots[p] : Activates(Act(p, s)) /\ Spent(p, s)
  \/ \E p \in Players : \E s \in DOMAIN slots[p] : PlayBoost(p, s)

\* The cards that belong to no kit.
LEMMA Singles ==
  /\ \A c \in {"boost", "double", "sanctions"} : c \notin Kits
  /\ "NONE" \notin Kits
BY KitAssumption

\* The campaigns keep their kits and a card that belongs to none is moved.
LEMMA KitsAside ==
  ASSUME KitsOnMat, MatTypes, NEW p \in Players, NEW c \in {"boost", "double", "sanctions"},
         NEW z, \/ cards' = cards
                \/ cards' = [cards EXCEPT ![<<p, c>>].zone = z],
         \A q \in Players : campaign'[q].kit = campaign[q].kit
  PROVE  KitsOnMat'
<1> SUFFICES ASSUME NEW q \in Players, NEW k \in Kits
             PROVE  cards'[<<q, k>>].zone = "CAMPAIGN" <=> campaign'[q].kit = k
  BY DEF KitsOnMat
<1>1. <<q, k>> # <<p, c>> /\ <<q, k>> \in Cards
  BY Singles DEF Cards
<1>2. cards'[<<q, k>>] = cards[<<q, k>>]
  <2>1. CASE cards' = cards
    BY <2>1
  <2>2. CASE cards' = [cards EXCEPT ![<<p, c>>].zone = z]
    BY <1>1, <2>2 DEF MatTypes
  <2> QED BY <2>1, <2>2
<1> QED BY <1>2 DEF KitsOnMat

\* A card that is not a boost is moved.
LEMMA BoostsAside ==
  ASSUME MatTypes, NEW c \in Cards, c[2] # "boost", NEW z,
         cards' = [cards EXCEPT ![c].zone = z]
  PROVE  \A q \in Players : cards'[<<q, "boost">>].zone = cards[<<q, "boost">>].zone
<1> TAKE q \in Players
<1>1. <<q, "boost">> # c /\ <<q, "boost">> \in Cards
  BY DEF Cards
<1> QED BY <1>1 DEF MatTypes

\* A slot gets an outcome that is of no concern to a boost.
LEMMA DecidedAside ==
  ASSUME ScheduleInv, NEW p \in Players, NEW s \in DOMAIN slots[p],
         NEW o \in Outcomes, Decide(p, s, o),
         \/ Act(p, s).type \notin {"ACTIVATE", "BOOST"}
         \/ Act(p, s).type = "ACTIVATE" /\ o = "FAILED_COST",
         boost' = boost, pending'.kind # "CHOICE",
         \A q \in Players : cards'[<<q, "boost">>].zone = cards[<<q, "boost">>].zone
  PROVE  Undisturbed
<1>1. \A q \in Players : \A u \in DOMAIN slots[q] :
        slots'[q][u].outcome = IF q = p /\ u = s THEN o ELSE slots[q][u].outcome
  BY OutcomesOf
<1> QED BY <1>1 DEF Undisturbed

\* Somebody is asked, and not about the attribution of cubes.
LEMMA SuspendedAside ==
  ASSUME ScheduleInv, NEW p \in Players, NEW s \in DOMAIN slots[p], Suspend(p, s),
         boost' = boost, pending'.kind # "CHOICE",
         \A q \in Players : cards'[<<q, "boost">>].zone = cards[<<q, "boost">>].zone
  PROVE  Undisturbed
<1>1. \A q \in Players : \A u \in DOMAIN slots[q] : slots'[q][u].outcome = slots[q][u].outcome
  BY OutcomesOf
<1> QED BY <1>1 DEF Undisturbed

\* The schedule is left alone.
LEMMA LeftAside ==
  ASSUME slots' = slots, boost' = boost, pending' = pending \/ pending'.kind # "CHOICE",
         \A q \in Players : cards'[<<q, "boost">>].zone = cards[<<q, "boost">>].zone
  PROVE  Undisturbed
BY DEF Undisturbed

\* The mat is left alone.
LEMMA MatAside ==
  ASSUME KitsOnMat, campaign' = campaign, cards' = cards
  PROVE  /\ KitsOnMat'
         /\ \A q \in Players : cards'[<<q, "boost">>].zone = cards[<<q, "boost">>].zone
BY DEF KitsOnMat

\* A roll spends the boost of its slot.
LEMMA RollSpends ==
  ASSUME ScheduleInv, MatTypes, KitsOnMat, NEW p \in Players, NEW s \in DOMAIN slots[p],
         NEW bonus, NEW roll, NEW res, NEW led, PayAndRoll(p, s, bonus, roll, res, led)
  PROVE  Spent(p, s) /\ KitsOnMat'
<1>1. /\ cards' = (IF boost[p] = s THEN [cards EXCEPT ![<<p, "boost">>].zone = "DISCARD"] ELSE cards)
      /\ boost' = (IF boost[p] = s THEN [boost EXCEPT ![p] = 0] ELSE boost)
      /\ \/ /\ pending'.p = p /\ pending'.s = s
            /\ Suspend(p, s)
            /\ campaign' = campaign
         \/ /\ pending' = None
            /\ \E generated, count, result, before, cut :
                 Complete(p, s, generated, count, result, before, cut)
  <2> DEFINE act == Act(p, s)
             kit == KitIn(p)
             modified == roll + (IF legitimacy[act.pd] = p THEN 1 ELSE 0)
                              + (IF boost[p] = s THEN 1 ELSE 0) + (IF act.core THEN 1 ELSE 0)
             result == Ert(Tier(kit.cv + kit.pair + bonus), kit.alignment, modified)
             generated == IF result >= 0 THEN kit.alignment ELSE Opposite(kit.alignment)
             count == IF result >= 0 THEN result ELSE -result
             removals == Removed(count, Opposing(act.pd, generated))
             options == {q \in Players : influence[act.pd][Opposite(generated)][q] > 0}
  <2>1. /\ cards' = (IF boost[p] = s THEN [cards EXCEPT ![<<p, "boost">>].zone = "DISCARD"]
                     ELSE cards)
        /\ boost' = (IF boost[p] = s THEN [boost EXCEPT ![p] = 0] ELSE boost)
    BY DEF PayAndRoll
  <2>2. \/ /\ pending' = [kind |-> "CHOICE", p |-> p, s |-> s,
                          generated |-> generated, count |-> count,
                          result |-> result, removals |-> removals,
                          options |-> options, before |-> legitimacy[act.pd]]
           /\ Suspend(p, s)
           /\ campaign' = campaign
        \/ /\ pending' = None
           /\ \E cut \in Cuts(act.pd, Opposite(generated), removals) :
                Complete(p, s, generated, count, result, legitimacy[act.pd], cut)
    BY DEF PayAndRoll
  <2> HIDE DEF generated, count, result, removals, options, act
  <2> QED BY <2>1, <2>2
<1>2. CASE pending'.p = p /\ pending'.s = s /\ Suspend(p, s) /\ campaign' = campaign
  <2>1. \A q \in Players : \A u \in DOMAIN slots[q] : slots'[q][u].outcome = slots[q][u].outcome
    BY <1>2, OutcomesOf
  <2>2. Spent(p, s)
    BY <1>1, <1>2, <2>1 DEF Spent
  <2>3. KitsOnMat'
    BY <1>1, <1>2, KitsAside
  <2> QED BY <2>2, <2>3
<1>3. CASE /\ pending' = None
           /\ \E generated, count, result, before, cut :
                Complete(p, s, generated, count, result, before, cut)
  <2>1. campaign' = [campaign EXCEPT ![p].count = @ + 1] /\ Decide(p, s, "RESOLVED")
    BY <1>3 DEF Complete
  <2>2. "RESOLVED" \in Outcomes
    BY DEF Outcomes
  <2>3. \A q \in Players : \A u \in DOMAIN slots[q] :
          slots'[q][u].outcome = IF q = p /\ u = s THEN "RESOLVED" ELSE slots[q][u].outcome
    BY <2>1, <2>2, OutcomesOf
  <2>4. Spent(p, s)
    BY <1>1, <1>3, <2>3 DEF Spent, None
  <2>5. \A q \in Players : campaign'[q].kit = campaign[q].kit
    BY <2>1 DEF MatTypes, Campaigns, NoCampaign
  <2>6. KitsOnMat'
    BY <1>1, <2>5, KitsAside
  <2> QED BY <2>4, <2>6
<1> QED BY <1>1, <1>2, <1>3

\* The beginning of an activation spends nothing.
LEMMA BeginsAside ==
  ASSUME ScheduleInv, MatTypes, KitsOnMat, NEW p \in Players, NEW s \in DOMAIN slots[p],
         pending = None, Activates(Act(p, s)), NEW repeat, NEW res, NEW led, NEW hand,
         ResolveActivation(p, s, repeat, res, led, hand),
         \/ hand = cards
         \/ hand = [cards EXCEPT ![<<p, "double">>].zone = "DISCARD"]
  PROVE  Undisturbed /\ KitsOnMat'
<1>1. /\ \/ Decide(p, s, "FAILED_COST") /\ pending' = pending
         \/ Suspend(p, s) /\ pending' = [kind |-> "NARRATIVE", p |-> p, s |-> s]
      /\ cards' = hand /\ campaign' = campaign /\ boost' = boost
  BY DEF ResolveActivation
<1>2. \A q \in Players : cards'[<<q, "boost">>].zone = cards[<<q, "boost">>].zone
  <2>1. CASE hand = cards
    BY <1>1, <2>1
  <2>2. CASE hand = [cards EXCEPT ![<<p, "double">>].zone = "DISCARD"]
    <3>1. <<p, "double">> \in Cards /\ <<p, "double">>[2] = "double" /\ "double" # "boost"
      BY DEF Cards
    <3> QED BY <1>1, <2>2, <3>1, BoostsAside
  <2> QED BY <2>1, <2>2
<1>3. KitsOnMat'
  BY <1>1, KitsAside
<1>4. CASE Decide(p, s, "FAILED_COST") /\ pending' = pending
  <2>1. "FAILED_COST" \in Outcomes /\ pending'.kind # "CHOICE" /\ Act(p, s).type \in {"ACTIVATE", "DOUBLE"}
    BY <1>4 DEF Outcomes, None, Activates
  <2>2. \/ Act(p, s).type \notin {"ACTIVATE", "BOOST"}
        \/ Act(p, s).type = "ACTIVATE" /\ "FAILED_COST" = "FAILED_COST"
    BY <2>1
  <2> QED BY <1>1, <1>2, <1>3, <1>4, <2>1, <2>2, DecidedAside
<1>5. CASE Suspend(p, s) /\ pending' = [kind |-> "NARRATIVE", p |-> p, s |-> s]
  BY <1>1, <1>2, <1>3, <1>5, SuspendedAside
<1> QED BY <1>1, <1>4, <1>5

\* An activation that goes on asks for the die or rolls it.
LEMMA GoesOnAside ==
  ASSUME ScheduleInv, MatTypes, KitsOnMat, NEW p \in Players, NEW s \in DOMAIN slots[p],
         Activates(Act(p, s)), NEW bonus, NEW res, NEW led, RollOrAsk(p, s, bonus, res, led)
  PROVE  BoostStep /\ KitsOnMat'
<1>1. CASE /\ pending' = [kind |-> "MANUAL_DIE", p |-> p, s |-> s, bonus |-> bonus]
           /\ Suspend(p, s)
           /\ UNCHANGED <<campaign, cards, boost>>
  BY <1>1, MatAside, SuspendedAside DEF BoostStep
<1>2. ASSUME NEW roll \in Rolls, PayAndRoll(p, s, bonus, roll, res, led)
      PROVE  BoostStep /\ KitsOnMat'
  BY <1>2, RollSpends DEF BoostStep
<1> QED BY <1>1, <1>2 DEF RollOrAsk

\* The scheduler.
LEMMA RunNextMat ==
  ASSUME ScheduleInv, MatTypes, KitsOnMat, RunNext
  PROVE  BoostStep /\ KitsOnMat'
<1>1. PICK p \in Players, s \in 1 .. 3 :
        /\ s \in DOMAIN slots[p]
        /\ \/ ConstructCampaign(p, s)
           \/ PlayBoost(p, s)
           \/ PlayDoubleAction(p, s)
           \/ UseRegime(p, s)
           \/ NegateActivation(p, s)
           \/ ActivateCampaign(p, s)
  BY PlanShape DEF RunNext, ScheduleInv
<1>2. "RESOLVED" \in Outcomes /\ "FAILED_COST" \in Outcomes /\ "NOT_EXECUTED" \in Outcomes
  BY DEF Outcomes
<1>3. CASE ConstructCampaign(p, s)
  <2> DEFINE kit == Act(p, s).kit
  <2>1. /\ Ready(p, s, "CONSTRUCT")
        /\ campaign[p] = NoCampaign
        /\ campaign' = [campaign EXCEPT ![p] = [kit |-> kit, row |-> "I", count |-> 0]]
        /\ cards' = [cards EXCEPT ![<<p, kit>>].zone = "CAMPAIGN"]
        /\ Decide(p, s, "RESOLVED")
        /\ pending' = pending /\ boost' = boost
    BY <1>3 DEF ConstructCampaign
  <2>2. pending = None /\ Act(p, s).type = "CONSTRUCT" /\ kit \in Kits
    BY <1>1, <2>1, ReadyShape, ActShape
  <2> HIDE DEF kit
  <2>3. KitsOnMat'
    <3> SUFFICES ASSUME NEW q \in Players, NEW k \in Kits
                 PROVE  cards'[<<q, k>>].zone = "CAMPAIGN" <=> campaign'[q].kit = k
      BY DEF KitsOnMat
    <3>1. <<q, k>> \in Cards /\ <<p, kit>> \in Cards /\ (<<q, k>> = <<p, kit>> <=> q = p /\ k = kit)
      BY <2>2 DEF Cards
    <3>2. cards[<<q, k>>].zone = "CAMPAIGN" <=> campaign[q].kit = k
      BY DEF KitsOnMat
    <3>3. campaign[p].kit \notin Kits
      BY <2>1, Singles DEF NoCampaign
    <3>4. /\ campaign'[q].kit = IF q = p THEN kit ELSE campaign[q].kit
          /\ cards'[<<q, k>>].zone = IF q = p /\ k = kit THEN "CAMPAIGN" ELSE cards[<<q, k>>].zone
      BY <2>1, <3>1 DEF MatTypes, CardRecords
    <3> QED BY <3>2, <3>3, <3>4
  <2>4. \A q \in Players : cards'[<<q, "boost">>].zone = cards[<<q, "boost">>].zone
    <3>1. <<p, kit>> \in Cards /\ <<p, kit>>[2] = kit /\ kit # "boost"
      BY <2>2, Singles DEF Cards
    <3> QED BY <2>1, <3>1, BoostsAside
  <2>5. pending'.kind # "CHOICE"
    BY <2>1, <2>2 DEF None
  <2>6. Undisturbed
    BY <1>1, <1>2, <2>1, <2>2, <2>4, <2>5, DecidedAside
  <2> QED BY <2>3, <2>6 DEF BoostStep
<1>4. CASE PlayBoost(p, s)
  BY <1>1, <1>4, MatAside DEF BoostStep, PlayBoost
<1>5. CASE PlayDoubleAction(p, s)
  <2> DEFINE hand == [cards EXCEPT ![<<p, "double">>].zone = "DISCARD"]
  <2>1. /\ Ready(p, s, "DOUBLE")
        /\ \/ /\ cards' = hand /\ Decide(p, s, "FAILED_COST")
              /\ pending' = pending /\ campaign' = campaign /\ boost' = boost
           \/ \E res, led : ResolveActivation(p, s, TRUE, res, led, hand)
    BY <1>5 DEF PlayDoubleAction
  <2>2. pending = None /\ Act(p, s).type = "DOUBLE" /\ Activates(Act(p, s))
    BY <1>1, <2>1, ReadyShape DEF Activates
  <2>3. CASE /\ cards' = hand /\ Decide(p, s, "FAILED_COST")
             /\ pending' = pending /\ campaign' = campaign /\ boost' = boost
    <3>1. \A q \in Players : cards'[<<q, "boost">>].zone = cards[<<q, "boost">>].zone
      <4>1. <<p, "double">> \in Cards /\ <<p, "double">>[2] = "double" /\ "double" # "boost"
        BY DEF Cards
      <4> QED BY <2>3, <4>1, BoostsAside
    <3>2. KitsOnMat'
      BY <2>3, KitsAside
    <3>3. pending'.kind # "CHOICE"
      BY <2>2, <2>3 DEF None
    <3>4. Undisturbed
      BY <1>1, <1>2, <2>2, <2>3, <3>1, <3>3, DecidedAside
    <3> QED BY <3>2, <3>4 DEF BoostStep
  <2>4. CASE \E res, led : ResolveActivation(p, s, TRUE, res, led, hand)
    BY <1>1, <2>2, <2>4, BeginsAside DEF BoostStep
  <2> QED BY <2>1, <2>3, <2>4
<1>6. CASE UseRegime(p, s)
  <2>1. /\ Ready(p, s, "REGIME")
        /\ campaign' = campaign /\ cards' = cards /\ boost' = boost
        /\ \/ pending' = [kind |-> "REGIME_MANUAL_DIE", p |-> p, s |-> s] /\ Suspend(p, s)
           \/ pending' = pending /\ (Suspend(p, s) \/ Decide(p, s, "RESOLVED"))
    BY <1>6 DEF UseRegime, RollRegime, RegimeFizzles, AskRegime, mat
  <2>2. pending = None /\ Act(p, s).type = "REGIME"
    BY <1>1, <2>1, ReadyShape
  <2>3. pending'.kind # "CHOICE"
    BY <2>1, <2>2 DEF None
  <2>4. KitsOnMat' /\ \A q \in Players : cards'[<<q, "boost">>].zone = cards[<<q, "boost">>].zone
    BY <2>1, MatAside
  <2>5. Undisturbed
    BY <1>1, <1>2, <2>1, <2>2, <2>3, <2>4, DecidedAside, SuspendedAside
  <2> QED BY <2>4, <2>5 DEF BoostStep
<1>7. CASE NegateActivation(p, s)
  <2>1. /\ Ready(p, s, "ACTIVATE")
        /\ boost[p] = s
        /\ cards' = [cards EXCEPT ![<<p, "boost">>].zone = "DISCARD"]
        /\ boost' = [boost EXCEPT ![p] = 0]
        /\ Decide(p, s, "NOT_EXECUTED")
        /\ pending' = pending /\ campaign' = campaign
    BY <1>7 DEF NegateActivation
  <2>2. pending = None /\ Activates(Act(p, s))
    BY <1>1, <2>1, ReadyShape DEF Activates
  <2>3. \A q \in Players : \A u \in DOMAIN slots[q] :
          slots'[q][u].outcome = IF q = p /\ u = s THEN "NOT_EXECUTED" ELSE slots[q][u].outcome
    BY <1>1, <1>2, <2>1, OutcomesOf
  <2>4. Spent(p, s)
    BY <2>1, <2>2, <2>3 DEF Spent, None
  <2>5. KitsOnMat'
    BY <2>1, KitsAside
  <2> QED BY <1>1, <2>2, <2>4, <2>5 DEF BoostStep
<1>8. CASE ActivateCampaign(p, s)
  <2>1. Ready(p, s, "ACTIVATE") /\ ResolveActivation(p, s, FALSE, resources, ledger, cards)
    BY <1>8 DEF ActivateCampaign
  <2>2. pending = None /\ Activates(Act(p, s))
    BY <1>1, <2>1, ReadyShape DEF Activates
  <2> QED BY <1>1, <2>1, <2>2, BeginsAside DEF BoostStep
<1> QED BY <1>1, <1>3, <1>4, <1>5, <1>6, <1>7, <1>8

\* The answers.
LEMMA AnswerMat ==
  ASSUME ScheduleInv, MatTypes, KitsOnMat, Answer
  PROVE  BoostStep /\ KitsOnMat'
<1>1. "RESOLVED" \in Outcomes
  BY DEF Outcomes
<1>2. CASE SubmitNarrative
  <2>1. /\ pending # None /\ pending.kind = "NARRATIVE"
        /\ \/ /\ pending' = [kind |-> "COALITION", p |-> pending.p, s |-> pending.s,
                             decided |-> {}, gave |-> {}]
              /\ Suspend(pending.p, pending.s)
              /\ campaign' = campaign /\ cards' = cards /\ boost' = boost
           \/ RollOrAsk(pending.p, pending.s, 0, resources, ledger)
    BY <1>2 DEF SubmitNarrative, Asked, None
  <2>2. /\ pending.p \in Players /\ pending.s \in DOMAIN slots[pending.p]
        /\ Activates(Act(pending.p, pending.s))
    BY <2>1, WhoIsAsked
  <2>3. CASE RollOrAsk(pending.p, pending.s, 0, resources, ledger)
    BY <2>2, <2>3, GoesOnAside
  <2>4. CASE /\ pending' = [kind |-> "COALITION", p |-> pending.p, s |-> pending.s,
                            decided |-> {}, gave |-> {}]
             /\ Suspend(pending.p, pending.s)
             /\ campaign' = campaign /\ cards' = cards /\ boost' = boost
    <3>1. pending'.kind # "CHOICE"
      BY <2>4
    <3> QED BY <2>2, <2>4, <3>1, MatAside, SuspendedAside DEF BoostStep
  <2> QED BY <2>1, <2>3, <2>4
<1>3. ASSUME NEW q \in Players, NEW gives \in BOOLEAN, SubmitCoalition(q, gives)
      PROVE  BoostStep /\ KitsOnMat'
  <2> DEFINE decided == pending.decided \cup {q}
             gave == pending.gave \cup {x \in {q} : gives}
             res == IF gives THEN [resources EXCEPT ![q] = @ - 1] ELSE resources
             led == IF gives THEN Charge(ledger, q, 1, "COALITION_CONTRIBUTION") ELSE ledger
  <2>1. /\ pending # None /\ pending.kind = "COALITION"
        /\ \/ /\ pending' = [pending EXCEPT !.decided = decided, !.gave = gave]
              /\ slots' = slots
              /\ campaign' = campaign /\ cards' = cards /\ boost' = boost
           \/ RollOrAsk(pending.p, pending.s, Cardinality(gave), res, led)
    BY <1>3 DEF SubmitCoalition, Asked, None, schedule
  <2> HIDE DEF decided, gave, res, led
  <2>2. /\ pending.p \in Players /\ pending.s \in DOMAIN slots[pending.p]
        /\ Activates(Act(pending.p, pending.s))
    BY <2>1, WhoIsAsked
  <2>3. CASE RollOrAsk(pending.p, pending.s, Cardinality(gave), res, led)
    BY <2>2, <2>3, GoesOnAside
  <2>4. CASE /\ pending' = [pending EXCEPT !.decided = decided, !.gave = gave]
             /\ slots' = slots
             /\ campaign' = campaign /\ cards' = cards /\ boost' = boost
    <3>1. pending \in [kind : {"COALITION"}, p : Players, s : 1 .. 3,
                       decided : SUBSET Players, gave : SUBSET Players]
      BY <2>1 DEF ScheduleInv, Pendings, None
    <3>2. pending'.kind # "CHOICE"
      BY <2>1, <2>4, <3>1
    <3> QED BY <2>4, <3>2, MatAside, LeftAside DEF BoostStep
  <2> QED BY <2>1, <2>3, <2>4
<1>4. ASSUME NEW roll \in Rolls, SubmitManualDie(roll)
      PROVE  BoostStep /\ KitsOnMat'
  <2>1. /\ pending # None /\ pending.kind = "MANUAL_DIE"
        /\ PayAndRoll(pending.p, pending.s, pending.bonus, roll, resources, ledger)
    BY <1>4 DEF SubmitManualDie, Asked, None
  <2>2. /\ pending.p \in Players /\ pending.s \in DOMAIN slots[pending.p]
        /\ Activates(Act(pending.p, pending.s))
    BY <2>1, WhoIsAsked
  <2> QED BY <2>1, <2>2, RollSpends DEF BoostStep
<1>5. ASSUME NEW roll \in Rolls, SubmitRegimeDie(roll)
      PROVE  BoostStep /\ KitsOnMat'
  <2>1. /\ pending # None /\ pending.kind = "REGIME_MANUAL_DIE" /\ pending' = None
        /\ Suspend(pending.p, pending.s) \/ Decide(pending.p, pending.s, "RESOLVED")
        /\ campaign' = campaign /\ cards' = cards /\ boost' = boost
    BY <1>5 DEF SubmitRegimeDie, Asked, None, RollRegime, RegimeFizzles, AskRegime, mat
  <2>2. /\ pending.p \in Players /\ pending.s \in DOMAIN slots[pending.p]
        /\ Act(pending.p, pending.s).type = "REGIME"
    BY <2>1, WhoIsAsked DEF ScheduleInv, DieBelongs
  <2>3. pending'.kind # "CHOICE"
    BY <2>1 DEF None
  <2>4. KitsOnMat' /\ \A q \in Players : cards'[<<q, "boost">>].zone = cards[<<q, "boost">>].zone
    BY <2>1, MatAside
  <2>5. Undisturbed
    BY <1>1, <2>1, <2>2, <2>3, <2>4, DecidedAside, SuspendedAside
  <2> QED BY <2>4, <2>5 DEF BoostStep
<1>6. CASE SubmitChoice
  <2>1. /\ pending # None /\ pending.kind = "CHOICE" /\ pending' = None
        /\ campaign' = [campaign EXCEPT ![pending.p].count = @ + 1]
        /\ Decide(pending.p, pending.s, "RESOLVED")
        /\ cards' = cards /\ boost' = boost
    BY <1>6 DEF SubmitChoice, Asked, None, Complete
  <2>2. /\ pending.p \in Players /\ pending.s \in DOMAIN slots[pending.p]
        /\ Activates(Act(pending.p, pending.s))
    BY <2>1, WhoIsAsked
  <2>3. \A q \in Players : \A u \in DOMAIN slots[q] :
          slots'[q][u].outcome = IF q = pending.p /\ u = pending.s THEN "RESOLVED"
                                 ELSE slots[q][u].outcome
    BY <1>1, <2>1, <2>2, OutcomesOf
  <2>4. Undisturbed
    <3>1. pending'.kind # "CHOICE"
      BY <2>1 DEF None
    <3> QED BY <2>1, <2>2, <2>3, <3>1 DEF Undisturbed, Activates
  <2>5. \A q \in Players : campaign'[q].kit = campaign[q].kit
    BY <2>1, <2>2 DEF MatTypes, Campaigns, NoCampaign
  <2>6. KitsOnMat'
    BY <2>1, <2>5 DEF KitsOnMat
  <2> QED BY <2>4, <2>6 DEF BoostStep
<1>7. CASE SubmitArdenChoice \/ SubmitDinesiaChoice \/ SubmitFlumaChoice
  <2>1. /\ choice # None
        /\ \/ choice.s > 0 /\ AdvanceInline(choice.p, choice.s)
           \/ slots' = slots
        /\ pending' = pending /\ campaign' = campaign /\ cards' = cards /\ boost' = boost
    <3>1. CASE SubmitArdenChoice \/ SubmitDinesiaChoice
      <4>1. /\ choice.kind \in {"ARDEN", "DINESIA"} /\ AdvanceInline(choice.p, choice.s)
            /\ pending' = pending /\ campaign' = campaign /\ cards' = cards /\ boost' = boost
        BY <3>1 DEF SubmitArdenChoice, SubmitDinesiaChoice, Chosen, mat
      <4>2. choice \in Choices /\ choice # None
        BY <4>1 DEF ScheduleInv, None
      <4>3. choice.s \in 1 .. 3
        BY <4>1, <4>2, ChoiceShape
      <4>4. choice.s > 0
        BY <4>3
      <4> QED BY <4>1, <4>2, <4>4
    <3>2. CASE SubmitFlumaChoice
      BY <3>2 DEF SubmitFlumaChoice, Chosen, None, mat
    <3> QED BY <1>7, <3>1, <3>2
  <2>2. pending = None
    BY <2>1 DEF ScheduleInv, SuspensionOwnsSlot
  <2>3. pending'.kind # "CHOICE"
    BY <2>1, <2>2 DEF None
  <2>4. KitsOnMat' /\ \A q \in Players : cards'[<<q, "boost">>].zone = cards[<<q, "boost">>].zone
    BY <2>1, MatAside
  <2>5. CASE slots' = slots
    BY <2>1, <2>3, <2>4, <2>5, LeftAside DEF BoostStep
  <2>6. CASE choice.s > 0 /\ AdvanceInline(choice.p, choice.s)
    <3>1. /\ choice.p \in Players /\ choice.s \in DOMAIN slots[choice.p]
          /\ Act(choice.p, choice.s).type = "REGIME"
      BY <2>1, <2>6, WhoChooses
    <3>2. \A q \in Players : \A u \in DOMAIN slots[q] :
            slots'[q][u].outcome = IF q = choice.p /\ u = choice.s THEN "RESOLVED"
                                   ELSE slots[q][u].outcome
      BY <2>6, <3>1, OutcomesOf
    <3>3. Undisturbed
      BY <2>1, <2>3, <2>4, <3>1, <3>2 DEF Undisturbed
    <3> QED BY <2>4, <3>3 DEF BoostStep
  <2> QED BY <2>1, <2>5, <2>6
<1> QED BY <1>2, <1>3, <1>4, <1>5, <1>6, <1>7 DEF Answer

\* The other steps.
LEMMA InterruptMat ==
  ASSUME ScheduleInv, MatTypes, KitsOnMat, FlumaTrigger \/ Interrupt \/ Resume \/ UNCHANGED vars
  PROVE  BoostStep /\ KitsOnMat'
<1>1. slots' = slots /\ boost' = boost /\ pending' = pending
  BY DEF FlumaTrigger, Interrupt, Resume, PlaySanctions, StealCard, DiscardCampaign,
         VetoCampaign, Establish, ApplyBacklash, Pause, vars, schedule, mat
<1>2. ASSUME KitsOnMat',
             \A q \in Players : cards'[<<q, "boost">>].zone = cards[<<q, "boost">>].zone
      PROVE  BoostStep /\ KitsOnMat'
  BY <1>1, <1>2, LeftAside DEF BoostStep
<1>3. ASSUME cards' = cards, campaign' = campaign
      PROVE  BoostStep /\ KitsOnMat'
  BY <1>2, <1>3, MatAside
<1>4. ASSUME NEW p \in Players, NEW q \in Players, PlaySanctions(p, q)
      PROVE  BoostStep /\ KitsOnMat'
  <2>1. cards' = [cards EXCEPT ![<<p, "sanctions">>].zone = "DISCARD"] /\ campaign' = campaign
    BY <1>4 DEF PlaySanctions
  <2>2. <<p, "sanctions">> \in Cards /\ <<p, "sanctions">>[2] = "sanctions" /\ "sanctions" # "boost"
    BY DEF Cards
  <2>3. \A r \in Players : cards'[<<r, "boost">>].zone = cards[<<r, "boost">>].zone
    BY <2>1, <2>2, BoostsAside
  <2>4. KitsOnMat'
    BY <2>1, KitsAside
  <2> QED BY <1>2, <2>3, <2>4
<1>5. ASSUME NEW p \in Players, NEW q \in Players, StealCard(p, q)
      PROVE  BoostStep /\ KitsOnMat'
  <2>1. PICK c \in Cards : cards' = [cards EXCEPT ![c].ctrl = p] /\ campaign' = campaign
    BY <1>5 DEF StealCard
  <2>2. \A d \in Cards : cards'[d].zone = cards[d].zone
    BY <2>1 DEF MatTypes, CardRecords
  <2>3. \A r \in Players : \A k \in Kits \cup {"boost"} : <<r, k>> \in Cards
    BY DEF Cards
  <2>4. KitsOnMat' /\ \A r \in Players : cards'[<<r, "boost">>].zone = cards[<<r, "boost">>].zone
    BY <2>1, <2>2, <2>3 DEF KitsOnMat
  <2> QED BY <1>2, <2>4
<1>6. ASSUME NEW p \in Players, Scrap(p)
      PROVE  BoostStep /\ KitsOnMat'
  <2>1. /\ campaign[p] # NoCampaign
        /\ campaign' = [campaign EXCEPT ![p] = NoCampaign]
        /\ cards' = [cards EXCEPT ![<<p, campaign[p].kit>>].zone = "DISCARD"]
    BY <1>6 DEF Scrap
  <2>2. PICK kit \in Kits : kit = campaign[p].kit
    BY <2>1 DEF MatTypes, Campaigns
  <2>3. KitsOnMat'
    <3> SUFFICES ASSUME NEW q \in Players, NEW k \in Kits
                 PROVE  cards'[<<q, k>>].zone = "CAMPAIGN" <=> campaign'[q].kit = k
      BY DEF KitsOnMat
    <3>1. <<q, k>> \in Cards /\ <<p, kit>> \in Cards /\ (<<q, k>> = <<p, kit>> <=> q = p /\ k = kit)
      BY DEF Cards
    <3>2. cards[<<q, k>>].zone = "CAMPAIGN" <=> campaign[q].kit = k
      BY DEF KitsOnMat
    <3>3. NoCampaign.kit \notin Kits
      BY Singles DEF NoCampaign
    <3>4. /\ campaign'[q].kit = IF q = p THEN NoCampaign.kit ELSE campaign[q].kit
          /\ cards'[<<q, k>>].zone = IF q = p /\ k = kit THEN "DISCARD" ELSE cards[<<q, k>>].zone
      BY <2>1, <2>2, <3>1 DEF MatTypes, CardRecords
    <3> QED BY <2>2, <3>2, <3>3, <3>4
  <2>4. <<p, kit>> \in Cards /\ <<p, kit>>[2] = kit /\ kit # "boost"
    BY Singles DEF Cards
  <2>5. \A r \in Players : cards'[<<r, "boost">>].zone = cards[<<r, "boost">>].zone
    BY <2>1, <2>2, <2>4, BoostsAside
  <2> QED BY <1>2, <2>3, <2>5
<1>7. ASSUME NEW p \in Players, DiscardCampaign(p) \/ VetoCampaign(p)
      PROVE  BoostStep /\ KitsOnMat'
  BY <1>6, <1>7 DEF DiscardCampaign, VetoCampaign
<1>8. ASSUME NEW p \in Players, NEW pd \in PDs, Establish(p, pd) \/ ApplyBacklash(p, pd, BacklashCubes)
      PROVE  BoostStep /\ KitsOnMat'
  BY <1>3, <1>8 DEF Establish, ApplyBacklash, mat
<1>9. CASE FlumaTrigger \/ Pause \/ Resume \/ UNCHANGED vars
  BY <1>3, <1>9 DEF FlumaTrigger, Pause, Resume, vars, mat
<1> QED BY <1>4, <1>5, <1>7, <1>8, <1>9 DEF Interrupt

\* Every step keeps the cards where they belong.
LEMMA MatKept ==
  ASSUME ScheduleInv, DataInv, KitsOnMat, BoostInv, [Next]_vars
  PROVE  KitsOnMat' /\ BoostInv'
<1>1. MatTypes
  BY DEF DataInv
<1>2. BoostStep /\ KitsOnMat'
  BY <1>1, RunNextMat, AnswerMat, InterruptMat DEF Next
<1>3. ActsStay
  <2>1. CASE Next
    <3>1. StepOfSchedule
      BY <2>1, RunNextStep, FlumaTriggerStep, AnswerStep, InterruptStep DEF Next
    <3> QED BY <3>1, ScheduleKeepsActs
  <2>2. CASE UNCHANGED vars
    BY <2>2 DEF vars, schedule, ActsStay
  <2> QED BY <2>1, <2>2
<1>4. ASSUME NEW p \in Players, NEW s \in DOMAIN slots[p]
      PROVE  s # 0
  <2>1. s \in 1 .. 3
    BY PlanShape DEF ScheduleInv
  <2> QED BY <2>1
<1>5. BoostInv'
  BY <1>1, <1>2, <1>3, <1>4, UndisturbedKeeps, SpentKeeps, PlannedKeeps DEF BoostStep
<1> QED BY <1>2, <1>5

\* The cards follow the slots: a campaign's cards are on the mat as long as the
\* campaign is, and a planned boost modifies one roll.
THEOREM CardsFollow == Spec => []CardsFollowTheSlots
<1> DEFINE Inv == ScheduleInv /\ DataInv /\ KitsOnMat /\ BoostInv
<1>1. Init => Inv
  <2> SUFFICES ASSUME Init PROVE Inv
    OBVIOUS
  <2>1. ScheduleInv /\ DataInv
    BY InvariantBegins
  <2>2. boost = [p \in Players |-> 0]
    BY DEF Init
  <2>3. BoostInv
    <3>1. PICK plans \in [Players -> UNION {Plans[p] : p \in Players}] :
           slots = [p \in Players |->
                     [s \in DOMAIN plans[p] |->
                        [act |-> plans[p][s], revealed |-> FALSE, outcome |-> "NONE"]]]
      BY DEF Init
    <3>2. \A p \in Players : \A s \in DOMAIN slots[p] : slots[p][s].outcome # "RESOLVED"
      BY <3>1
    <3> QED BY <2>2, <3>2 DEF BoostInv, BoostPlanned, BoostUnspent
  <2>4. KitsOnMat
    <3> SUFFICES ASSUME NEW p \in Players, NEW k \in Kits
                 PROVE  cards[<<p, k>>].zone = "CAMPAIGN" <=> campaign[p].kit = k
      BY DEF KitsOnMat
    <3>1. cards[<<p, k>>].zone = "CAMPAIGN" <=> k = setup.aged[p]
      <4> DEFINE hand(c) == {"sanctions"} \cup
                            {CardFor(slots[c[1]][s].act) : s \in DOMAIN slots[c[1]]}
      <4>1. cards = [c \in Cards |->
                       [zone |-> IF c[2] = setup.aged[c[1]] THEN "CAMPAIGN"
                                 ELSE IF c[2] \in hand(c) THEN "HAND" ELSE "DISCARD",
                        ctrl |-> c[1]]]
        BY DEF Init
      <4> HIDE DEF hand
      <4>2. <<p, k>> \in Cards /\ <<p, k>>[1] = p /\ <<p, k>>[2] = k
        BY DEF Cards
      <4> QED BY <4>1, <4>2
    <3>2. campaign[p].kit = k <=> k = setup.aged[p]
      <4>1. campaign = [q \in Players |->
                          IF setup.aged[q] = "NONE" THEN NoCampaign
                          ELSE [kit |-> setup.aged[q], row |-> "II", count |-> 0]]
        BY DEF Init
      <4>2. NoCampaign.kit = "NONE" /\ k # "NONE"
        BY Singles DEF NoCampaign
      <4> QED BY <4>1, <4>2
    <3> QED BY <3>1, <3>2
  <2> QED BY <2>1, <2>3, <2>4
<1>2. Inv /\ [Next]_vars => Inv'
  BY InvariantKept, MatKept
<1>3. Inv => CardsFollowTheSlots
  <2> SUFFICES ASSUME Inv, NEW p \in Players
               PROVE  /\ \A k \in Kits : cards[<<p, k>>].zone = "CAMPAIGN" <=> campaign[p].kit = k
                      /\ \A s \in DOMAIN slots[p] :
                           (Act(p, s).type = "BOOST" /\ slots[p][s].outcome = "RESOLVED") =>
                             (slots[p][Act(p, s).seq].outcome \in {"RESOLVED", "NOT_EXECUTED"} =>
                                boost[p] = 0 /\ cards[<<p, "boost">>].zone = "DISCARD")
    BY DEF CardsFollowTheSlots
  <2>1. \A k \in Kits : cards[<<p, k>>].zone = "CAMPAIGN" <=> campaign[p].kit = k
    BY DEF KitsOnMat
  <2>2. ASSUME NEW s \in DOMAIN slots[p], Act(p, s).type = "BOOST",
               slots[p][s].outcome = "RESOLVED",
               slots[p][Act(p, s).seq].outcome \in {"RESOLVED", "NOT_EXECUTED"}
        PROVE  boost[p] = 0 /\ cards[<<p, "boost">>].zone = "DISCARD"
    <3>1. boost[p] = Act(p, s).seq \/ (boost[p] = 0 /\ cards[<<p, "boost">>].zone = "DISCARD")
      BY <2>2 DEF BoostInv, BoostPlanned
    <3>2. Act(p, s).seq \in 1 .. 3
      BY <2>2, BoostSlot
    <3>3. boost[p] # Act(p, s).seq
      BY <2>2, <3>2 DEF BoostInv, BoostUnspent
    <3> QED BY <3>1, <3>3
  <2> QED BY <2>1, <2>2
<1> QED BY <1>1, <1>2, <1>3, PTL DEF Spec

-------------------------------------------------------------------------------
(***************************************************************************)
(* The ledger.                                                             *)
(***************************************************************************)
\* What the entries of a player come to, and which of them pay a campaign.
Share(led, p) == [i \in DOMAIN led |-> IF led[i].by = p THEN led[i].delta ELSE 0]

Payments(led, p) ==
  {i \in DOMAIN led : led[i].by = p /\ led[i].reason = "CAMPAIGN_ACTIVATION_COST"}

Balance(led, p) == Total(Share(led, p))

PaidTimes(led, p) == Cardinality(Payments(led, p))

\* What a player has is what the player began with and the entries since then.
Accounted(start, res, led) ==
  /\ led \in Seq(Entries)
  /\ \A p \in Players : res[p] = start[p] + Balance(led, p)

\* The activations of a player that have been paid for.
PaidFor(p, s) ==
  slots[p][s].outcome = "RESOLVED" \/ (pending.kind = "CHOICE" /\ pending.p = p /\ pending.s = s)

PaidSlots(p) == {s \in DOMAIN slots[p] : Activates(Act(p, s)) /\ PaidFor(p, s)}

PaymentsMatch == \A p \in Players : PaidTimes(ledger, p) = Cardinality(PaidSlots(p))

\* Their sum is a number, and there are finitely many.
LEMMA ShareShape ==
  ASSUME NEW led \in Seq(Entries), NEW p \in Players
  PROVE  /\ Len(led) \in Nat /\ DOMAIN led = 1 .. Len(led) /\ IsFiniteSet(DOMAIN led)
         /\ \A i \in DOMAIN led : led[i] \in Entries /\ Share(led, p)[i] \in Int
         /\ Balance(led, p) = SumOver(Share(led, p), DOMAIN led)
         /\ Balance(led, p) \in Int
         /\ IsFiniteSet(Payments(led, p))
         /\ PaidTimes(led, p) \in Nat
<1>1. Len(led) \in Nat /\ DOMAIN led = 1 .. Len(led)
      /\ \A i \in DOMAIN led : led[i] \in Entries
  BY LenProperties, ElementOfSeq
<1>2. IsFiniteSet(DOMAIN led)
  BY <1>1, FS_Interval
<1>3. \A i \in DOMAIN led : Share(led, p)[i] \in Int
  BY <1>1 DEF Share, Entries
<1>4. Balance(led, p) = SumOver(Share(led, p), DOMAIN led)
  <2>1. DOMAIN Share(led, p) = DOMAIN led
    BY DEF Share
  <2> QED BY <2>1 DEF Balance, Total, FoldFunction, SumOver
<1>5. Balance(led, p) \in Int
  BY <1>2, <1>3, <1>4, SumType
<1>6. IsFiniteSet(Payments(led, p))
  BY <1>2, FS_Subset DEF Payments
<1>7. PaidTimes(led, p) \in Nat
  BY <1>6, FS_CardinalityType DEF PaidTimes
<1> QED BY <1>1, <1>2, <1>3, <1>4, <1>5, <1>6, <1>7

\* An entry counts for the player it names, and it may be a payment.
LEMMA EntryCounts ==
  ASSUME NEW led \in Seq(Entries), NEW e \in Entries, NEW q \in Players
  PROVE  /\ Append(led, e) \in Seq(Entries)
         /\ e.by = q => Balance(Append(led, e), q) = Balance(led, q) + e.delta
         /\ e.by # q => Balance(Append(led, e), q) = Balance(led, q)
         /\ e.by = q /\ e.reason = "CAMPAIGN_ACTIVATION_COST" =>
              PaidTimes(Append(led, e), q) = PaidTimes(led, q) + 1
         /\ e.by # q \/ e.reason # "CAMPAIGN_ACTIVATION_COST" =>
              PaidTimes(Append(led, e), q) = PaidTimes(led, q)
<1> DEFINE new == Append(led, e)
<1>1. PICK n \in Nat : n = Len(led) /\ DOMAIN led = 1 .. n
  BY ShareShape
<1>2. /\ new \in Seq(Entries) /\ DOMAIN new = 1 .. n + 1
      /\ \A i \in 1 .. n : new[i] = led[i]
      /\ new[n + 1] = e
  BY <1>1, AppendProperties, LenProperties
<1> HIDE DEF new
<1>3. n + 1 \in DOMAIN new /\ n + 1 \notin DOMAIN led /\ DOMAIN new \ {n + 1} = DOMAIN led
  BY <1>1, <1>2
<1>4. PICK f : f = Share(new, q)
  OBVIOUS
<1>5. PICK g : g = Share(led, q)
  OBVIOUS
<1>6. /\ IsFiniteSet(DOMAIN new) /\ IsFiniteSet(DOMAIN led)
      /\ \A i \in DOMAIN new : f[i] \in Int
      /\ \A i \in DOMAIN led : g[i] \in Int
      /\ Balance(new, q) = SumOver(f, DOMAIN new) /\ Balance(led, q) = SumOver(g, DOMAIN led)
  BY <1>2, <1>4, <1>5, ShareShape
<1>7. SumOver(f, DOMAIN new) = f[n + 1] + SumOver(f, DOMAIN led)
  BY <1>3, <1>6, SumOne
<1>8. \A i \in DOMAIN led : f[i] = g[i]
  BY <1>1, <1>2, <1>3, <1>4, <1>5 DEF Share
<1>9. SumOver(f, DOMAIN led) = SumOver(g, DOMAIN led)
  BY <1>6, <1>8, SumSame
<1>10. f[n + 1] = IF e.by = q THEN e.delta ELSE 0
  BY <1>2, <1>3, <1>4 DEF Share
<1>11. PICK x \in Int : x = Balance(led, q)
  BY ShareShape
<1>12. Balance(new, q) = f[n + 1] + x
  BY <1>6, <1>7, <1>9, <1>11
<1>13. PICK d \in Int : d = e.delta
  BY DEF Entries
<1>14. \A y \in Int : y = Balance(new, q) => (e.by = q => y = x + d) /\ (e.by # q => y = x)
  BY <1>10, <1>12, <1>13
<1>15. Balance(new, q) \in Int
  BY <1>2, ShareShape
<1>16. \A i \in DOMAIN led : i \in DOMAIN new /\ new[i] = led[i]
  BY <1>1, <1>2, <1>3
<1>17. n + 1 \notin Payments(led, q) /\ IsFiniteSet(Payments(led, q))
  BY <1>3, ShareShape DEF Payments
<1>18. CASE e.by = q /\ e.reason = "CAMPAIGN_ACTIVATION_COST"
  <2>1. Payments(new, q) = Payments(led, q) \cup {n + 1}
    BY <1>2, <1>3, <1>16, <1>18 DEF Payments
  <2>2. PaidTimes(new, q) = PaidTimes(led, q) + 1
    BY <1>17, <2>1, FS_AddElement DEF PaidTimes
  <2> QED BY <1>2, <1>11, <1>13, <1>14, <1>15, <1>18, <2>2 DEF new
<1>19. CASE ~ (e.by = q /\ e.reason = "CAMPAIGN_ACTIVATION_COST")
  <2>1. Payments(new, q) = Payments(led, q)
    BY <1>2, <1>3, <1>16, <1>19 DEF Payments
  <2>2. PaidTimes(new, q) = PaidTimes(led, q)
    BY <2>1 DEF PaidTimes
  <2> QED BY <1>2, <1>11, <1>13, <1>14, <1>15, <1>19, <2>2 DEF new
<1> QED BY <1>18, <1>19

\* An amount taken from a purse and written into the ledger.
LEMMA ChargeAccounted ==
  ASSUME NEW start \in [Players -> Nat], NEW res \in [Players -> Int], NEW led,
         Accounted(start, res, led),
         NEW p \in Players, NEW amount \in Int, NEW reason \in Reasons,
         NEW after \in [Players -> Int], after[p] = res[p] - amount,
         \A q \in Players : q # p => after[q] = res[q],
         NEW new, new = Charge(led, p, amount, reason)
  PROVE  /\ Accounted(start, after, new)
         /\ \A q \in Players : q # p \/ reason # "CAMPAIGN_ACTIVATION_COST" \/ amount = 0 =>
              PaidTimes(new, q) = PaidTimes(led, q)
         /\ reason = "CAMPAIGN_ACTIVATION_COST" /\ amount # 0 =>
              PaidTimes(new, p) = PaidTimes(led, p) + 1
<1>1. led \in Seq(Entries)
  BY DEF Accounted
<1>2. after \in [Players -> Int] /\ after[p] = res[p] - amount
      /\ \A q \in Players : q # p => after[q] = res[q]
  OBVIOUS
<1>3. CASE amount = 0
  <2>1. new = led
    BY <1>3 DEF Charge
  <2>2. \A q \in Players : after[q] = res[q]
    BY <1>2, <1>3
  <2> QED BY <1>2, <1>3, <2>1, <2>2 DEF Accounted
<1>4. CASE amount # 0
  <2>1. PICK e \in Entries : e = [by |-> p, delta |-> -amount, reason |-> reason]
    <3>1. [by |-> p, delta |-> -amount, reason |-> reason] \in Entries
      BY DEF Entries
    <3> QED BY <3>1
  <2>2. e.by = p /\ e.delta = -amount /\ e.reason = reason
    BY <2>1
  <2>3. new = Append(led, e)
    BY <1>4, <2>1 DEF Charge
  <2>5. \A q \in Players :
          /\ new \in Seq(Entries)
          /\ p = q => Balance(new, q) = Balance(led, q) + (-amount)
          /\ p # q => Balance(new, q) = Balance(led, q)
          /\ p = q /\ reason = "CAMPAIGN_ACTIVATION_COST" =>
               PaidTimes(new, q) = PaidTimes(led, q) + 1
          /\ p # q \/ reason # "CAMPAIGN_ACTIVATION_COST" =>
               PaidTimes(new, q) = PaidTimes(led, q)
    BY <1>1, <2>2, <2>3, EntryCounts
  <2>6. ASSUME NEW q \in Players
        PROVE  after[q] = start[q] + Balance(new, q)
    <3>1. PICK x \in Int : x = Balance(led, q)
      BY <1>1, ShareShape
    <3>2. PICK y \in Int : y = res[q] /\ y = start[q] + x
      BY <3>1 DEF Accounted
    <3>3. PICK z \in Int : z = start[q]
      OBVIOUS
    <3>4. CASE q = p
      <4>1. Balance(new, q) = x + (-amount) /\ after[q] = y - amount
        BY <1>2, <2>5, <3>1, <3>2, <3>4
      <4> QED BY <3>2, <3>3, <4>1
    <3>5. CASE q # p
      <4>1. Balance(new, q) = x /\ after[q] = y
        BY <1>2, <2>5, <3>1, <3>2, <3>5
      <4> QED BY <3>2, <3>3, <4>1
    <3> QED BY <3>4, <3>5
  <2>7. Accounted(start, after, new)
    BY <2>5, <2>6 DEF Accounted
  <2> QED BY <1>2, <1>4, <2>5, <2>7
<1> QED BY <1>3, <1>4

\* The price of a campaign is one payment and what else it costs.
LEMMA PaymentAccounted ==
  ASSUME campaign \in [Players -> Campaigns], NEW p \in Players, campaign[p] # NoCampaign, NEW act,
         NEW start \in [Players -> Nat], NEW res \in [Players -> Int], NEW led,
         Accounted(start, res, led),
         NEW price \in Nat, price = Price(p, act),
         NEW after \in [Players -> Int], after[p] = res[p] - price,
         \A q \in Players : q # p => after[q] = res[q],
         NEW new, new = Payment(p, act, led)
  PROVE  /\ Accounted(start, after, new)
         /\ PaidTimes(new, p) = PaidTimes(led, p) + 1
         /\ \A q \in Players : q # p => PaidTimes(new, q) = PaidTimes(led, q)
<1>1. PICK a \in 1 .. 3 : a = BaseCost(KitIn(p).cv)
  BY PriceNat
<1>2. PICK b \in Nat : b = KitIn(p).extra
  BY PriceNat
<1>3. PICK c \in Nat : c = CoreCost(act)
  BY PriceNat
<1>4. Price(p, act) = a + b + c
  BY <1>1, <1>2, <1>3 DEF Price
<1>5. PICK base \in Reasons : base = "CAMPAIGN_ACTIVATION_COST"
  BY DEF Reasons
<1>6. PICK part \in Reasons : part = "CAMPAIGN_COMPONENT_COST" /\ part # "CAMPAIGN_ACTIVATION_COST"
  BY DEF Reasons
<1>7. PICK core \in Reasons : core = "CORE_ROLL_MODIFIER" /\ core # "CAMPAIGN_ACTIVATION_COST"
  BY DEF Reasons
<1>8. PICK l1 : l1 = Charge(led, p, a, base)
  OBVIOUS
<1>9. PICK l2 : l2 = Charge(l1, p, b, part)
  OBVIOUS
<1>10. PICK l3 : l3 = Charge(l2, p, c, core)
  OBVIOUS
<1>11. new = l3
  BY <1>1, <1>2, <1>3, <1>5, <1>6, <1>7, <1>8, <1>9, <1>10 DEF Payment
<1>12. a \in Int /\ a # 0 /\ b \in Int /\ c \in Int
  OBVIOUS
<1>13. PICK r1 \in [Players -> Int] : /\ r1[p] = res[p] - a
                                     /\ \A q \in Players : q # p => r1[q] = res[q]
  <2>1. [res EXCEPT ![p] = @ - a] \in [Players -> Int]
    OBVIOUS
  <2> QED BY <2>1
<1>14. PICK r2 \in [Players -> Int] : /\ r2[p] = r1[p] - b
                                     /\ \A q \in Players : q # p => r2[q] = r1[q]
  <2>1. [r1 EXCEPT ![p] = @ - b] \in [Players -> Int]
    OBVIOUS
  <2> QED BY <2>1
<1>15. PICK r3 \in [Players -> Int] : /\ r3[p] = r2[p] - c
                                     /\ \A q \in Players : q # p => r3[q] = r2[q]
  <2>1. [r2 EXCEPT ![p] = @ - c] \in [Players -> Int]
    OBVIOUS
  <2> QED BY <2>1
<1>16. /\ Accounted(start, r1, l1)
       /\ PaidTimes(l1, p) = PaidTimes(led, p) + 1
       /\ \A q \in Players : q # p => PaidTimes(l1, q) = PaidTimes(led, q)
  BY <1>5, <1>8, <1>12, <1>13, ChargeAccounted
<1>17. /\ Accounted(start, r2, l2)
       /\ \A q \in Players : PaidTimes(l2, q) = PaidTimes(l1, q)
  BY <1>6, <1>9, <1>12, <1>14, <1>16, ChargeAccounted
<1>18. /\ Accounted(start, r3, l3)
       /\ \A q \in Players : PaidTimes(l3, q) = PaidTimes(l2, q)
  BY <1>7, <1>10, <1>12, <1>15, <1>17, ChargeAccounted
<1>19. r3 = after
  <2>1. PICK d \in Nat : d = Price(p, act) /\ d = a + b + c
    BY <1>4
  <2>2. r3[p] = res[p] - d
    BY <1>13, <1>14, <1>15, <1>16, <1>17, <2>1
  <2>3. \A q \in Players : q # p => r3[q] = res[q]
    BY <1>13, <1>14, <1>15
  <2>4. \A q \in Players : r3[q] = after[q]
    BY <2>1, <2>2, <2>3
  <2> QED BY <2>4
<1> QED BY <1>11, <1>16, <1>17, <1>18, <1>19

-------------------------------------------------------------------------------
(***************************************************************************)
(* The ways in which payments and paid activations change.                 *)
(***************************************************************************)
\* Nothing is paid for.
NothingPaid ==
  /\ \A q \in Players : PaidTimes(ledger', q) = PaidTimes(ledger, q)
  /\ \A q \in Players : \A u \in DOMAIN slots[q] :
       Activates(Act(q, u)) => (PaidFor(q, u)' <=> PaidFor(q, u))

\* The activation in slot s of p is paid for.
NowPaid(p, s) ==
  /\ Activates(Act(p, s)) /\ ~ PaidFor(p, s) /\ PaidFor(p, s)'
  /\ PaidTimes(ledger', p) = PaidTimes(ledger, p) + 1
  /\ \A q \in Players : q # p => PaidTimes(ledger', q) = PaidTimes(ledger, q)
  /\ \A q \in Players : \A u \in DOMAIN slots[q] :
       ~ (q = p /\ u = s) => (PaidFor(q, u)' <=> PaidFor(q, u))

MoneyStep ==
  /\ Accounted(setup.resources, resources', ledger')
  /\ NothingPaid \/ \E p \in Players : \E s \in DOMAIN slots[p] : NowPaid(p, s)

\* Either way the payments are those of the paid activations.
LEMMA PaymentsKept ==
  ASSUME ScheduleInv, ActsStay, MoneyStep, PaymentsMatch
  PROVE  PaymentsMatch'
<1>1. ASSUME NEW q \in Players
      PROVE  /\ PaidSlots(q)' = {s \in DOMAIN slots[q] : Activates(Act(q, s)) /\ PaidFor(q, s)'}
             /\ IsFiniteSet(PaidSlots(q))
             /\ Cardinality(PaidSlots(q)) \in Nat
  <2>1. PICK n \in 0 .. 3 : DOMAIN slots[q] = 1 .. n
    BY PlanShape DEF ScheduleInv
  <2>2. IsFiniteSet(DOMAIN slots[q])
    BY <2>1, FS_Interval
  <2>3. IsFiniteSet(PaidSlots(q))
    BY <2>2, FS_Subset DEF PaidSlots
  <2>4. PaidSlots(q)' = {s \in DOMAIN slots'[q] : Activates(Act(q, s)') /\ PaidFor(q, s)'}
    BY DEF PaidSlots, Activates
  <2>5. DOMAIN slots'[q] = DOMAIN slots[q] /\ \A s \in DOMAIN slots[q] : Act(q, s)' = Act(q, s)
    BY DEF ActsStay, Act
  <2> QED BY <2>3, <2>4, <2>5, FS_CardinalityType
<1>2. CASE NothingPaid
  <2> SUFFICES ASSUME NEW q \in Players
               PROVE  PaidTimes(ledger, q)' = Cardinality(PaidSlots(q)')
    BY DEF PaymentsMatch
  <2>1. PaidSlots(q)' = PaidSlots(q)
    BY <1>1, <1>2 DEF NothingPaid, PaidSlots
  <2>2. PaidTimes(ledger, q)' = PaidTimes(ledger', q)
    BY DEF PaidTimes, Payments
  <2> QED BY <1>2, <2>1, <2>2 DEF NothingPaid, PaymentsMatch
<1>3. ASSUME NEW p \in Players, NEW s \in DOMAIN slots[p], NowPaid(p, s)
      PROVE  PaymentsMatch'
  <2> SUFFICES ASSUME NEW q \in Players
               PROVE  PaidTimes(ledger, q)' = Cardinality(PaidSlots(q)')
    BY DEF PaymentsMatch
  <2>1. PaidTimes(ledger, q)' = PaidTimes(ledger', q)
    BY DEF PaidTimes, Payments
  <2>2. CASE q = p
    <3>1. PaidSlots(q)' = PaidSlots(q) \cup {s} /\ s \notin PaidSlots(q)
      BY <1>1, <1>3, <2>2 DEF NowPaid, PaidSlots
    <3>2. Cardinality(PaidSlots(q)') = Cardinality(PaidSlots(q)) + 1
      BY <1>1, <3>1, FS_AddElement
    <3>3. PaidTimes(ledger', q) = PaidTimes(ledger, q) + 1
      BY <1>3, <2>2 DEF NowPaid
    <3> QED BY <2>1, <3>2, <3>3 DEF PaymentsMatch
  <2>3. CASE q # p
    <3>1. PaidSlots(q)' = PaidSlots(q)
      BY <1>1, <1>3, <2>3 DEF NowPaid, PaidSlots
    <3> QED BY <1>3, <2>1, <2>3, <3>1 DEF NowPaid, PaymentsMatch
  <2> QED BY <2>2, <2>3
<1> QED BY <1>2, <1>3 DEF MoneyStep

\* No payment is made and no activation is paid for.
LEMMA SameOutcomes ==
  ASSUME pending.kind # "CHOICE", pending'.kind # "CHOICE",
         \A q \in Players : PaidTimes(ledger', q) = PaidTimes(ledger, q),
         \A q \in Players : \A u \in DOMAIN slots[q] : Activates(Act(q, u)) =>
           (slots'[q][u].outcome = "RESOLVED" <=> slots[q][u].outcome = "RESOLVED")
  PROVE  NothingPaid
BY DEF NothingPaid, PaidFor

\* The slot under the cursor has no outcome.
LEMMA OpenOutcome ==
  ASSUME ScheduleInv, NEW p \in Players, NEW s \in DOMAIN slots[p], AtSlot(p, s)
  PROVE  slots[p][s].outcome = "NONE"
<1>1. ~ Decided(p, s)
  BY SlotUnderCursor
<1> QED BY <1>1 DEF Decided

\* A slot that is suspended, or decided without a roll.
LEMMA NoRoll ==
  ASSUME ScheduleInv, NEW p \in Players, NEW s \in DOMAIN slots[p], AtSlot(p, s),
         pending.kind # "CHOICE", pending'.kind # "CHOICE",
         \A q \in Players : PaidTimes(ledger', q) = PaidTimes(ledger, q),
         \/ Suspend(p, s)
         \/ Decide(p, s, "FAILED_COST")
         \/ Decide(p, s, "NOT_EXECUTED")
         \/ Decide(p, s, "RESOLVED") /\ ~ Activates(Act(p, s))
  PROVE  NothingPaid
<1>1. slots[p][s].outcome = "NONE"
  BY OpenOutcome
<1>2. "RESOLVED" \in Outcomes /\ "FAILED_COST" \in Outcomes /\ "NOT_EXECUTED" \in Outcomes
  BY DEF Outcomes
<1>3. ASSUME NEW o \in Outcomes, o # "RESOLVED" \/ ~ Activates(Act(p, s)), Decide(p, s, o)
      PROVE  NothingPaid
  <2>1. \A q \in Players : \A u \in DOMAIN slots[q] :
          slots'[q][u].outcome = IF q = p /\ u = s THEN o ELSE slots[q][u].outcome
    BY <1>3, OutcomesOf
  <2>2. \A q \in Players : \A u \in DOMAIN slots[q] : Activates(Act(q, u)) =>
          (slots'[q][u].outcome = "RESOLVED" <=> slots[q][u].outcome = "RESOLVED")
    BY <1>1, <1>3, <2>1
  <2> QED BY <2>2, SameOutcomes
<1>4. CASE Suspend(p, s)
  <2>1. \A q \in Players : \A u \in DOMAIN slots[q] : slots'[q][u].outcome = slots[q][u].outcome
    BY <1>4, OutcomesOf
  <2> QED BY <2>1, SameOutcomes
<1> QED BY <1>2, <1>3, <1>4

\* The schedule is left alone.
LEMMA NobodyRolls ==
  ASSUME slots' = slots, pending' = pending \/ (pending.kind # "CHOICE" /\ pending'.kind # "CHOICE"),
         \A q \in Players : PaidTimes(ledger', q) = PaidTimes(ledger, q)
  PROVE  NothingPaid
BY DEF NothingPaid, PaidFor

\* A roll is paid for, once.
LEMMA RollPays ==
  ASSUME ScheduleInv, DataInv, NEW p, NEW s, Activation(p, s), AtSlot(p, s),
         pending.kind # "CHOICE", NEW bonus \in Nat, NEW roll \in Int,
         NEW res \in [Players -> Nat], NEW led,
         Accounted(setup.resources, res, led),
         \A q \in Players : PaidTimes(led, q) = PaidTimes(ledger, q),
         PayAndRoll(p, s, bonus, roll, res, led)
  PROVE  MoneyStep
<1>1. /\ p \in Players /\ s \in DOMAIN slots[p] /\ Activates(Act(p, s)) /\ campaign[p] # NoCampaign
      /\ led \in Seq(Entries) /\ MatTypes /\ BoardTypes /\ coreUsed \subseteq Players
      /\ campaign \in [Players -> Campaigns]
  BY DEF Activation, DataInv, PurseTypes, MatTypes, Accounted
<1>2. /\ resources' = [res EXCEPT ![p] = @ - Price(p, Act(p, s))]
      /\ ledger' = Payment(p, Act(p, s), led)
      /\ \/ /\ Suspend(p, s)
            /\ pending'.kind = "CHOICE" /\ pending'.p = p /\ pending'.s = s
         \/ /\ Decide(p, s, "RESOLVED")
            /\ pending' = None
  BY <1>1, PayAndRollDoes
<1>3. setup.resources \in [Players -> Nat] /\ res \in [Players -> Int]
  BY OpeningAssumption DEF DataInv, TableTypes
<1>4. PICK act : act = Act(p, s)
  OBVIOUS
<1>5. /\ Accounted(setup.resources, resources', ledger')
      /\ PaidTimes(ledger', p) = PaidTimes(led, p) + 1
      /\ \A q \in Players : q # p => PaidTimes(ledger', q) = PaidTimes(led, q)
  <2>1. PICK d \in Nat : d = Price(p, act)
    BY <1>1, PriceNat
  <2>2. [res EXCEPT ![p] = @ - d] \in [Players -> Int]
    BY <1>1, <1>3
  <2>3. PICK after \in [Players -> Int] : after = resources'
    BY <1>2, <1>4, <2>1, <2>2
  <2>4. PICK from \in [Players -> Int] :
          /\ Accounted(setup.resources, from, led)
          /\ after[p] = from[p] - d
          /\ \A q \in Players : q # p => after[q] = from[q]
    BY <1>1, <1>2, <1>3, <1>4, <2>1, <2>3
  <2>5. PICK new : new = ledger' /\ new = Payment(p, act, led)
    BY <1>2, <1>4
  <2>6. PICK start \in [Players -> Nat] : start = setup.resources /\ Accounted(start, from, led)
    BY <1>3, <2>4
  <2>7. /\ Accounted(start, after, new)
        /\ PaidTimes(new, p) = PaidTimes(led, p) + 1
        /\ \A q \in Players : q # p => PaidTimes(new, q) = PaidTimes(led, q)
    <3>1. PICK x \in Players : x = p
      BY <1>1
    <3>2. PICK before : before = led
      OBVIOUS
    <3>3. /\ campaign \in [Players -> Campaigns] /\ campaign[x] # NoCampaign
          /\ Accounted(start, from, before)
          /\ d = Price(x, act)
          /\ after[x] = from[x] - d
          /\ \A q \in Players : q # x => after[q] = from[q]
          /\ new = Payment(x, act, before)
      BY <1>1, <2>1, <2>4, <2>5, <2>6, <3>1, <3>2
    <3>4. Accounted(start, after, new)
      BY ONLY <3>3, PaymentAccounted
    <3>5. PaidTimes(new, x) = PaidTimes(before, x) + 1
      BY ONLY <3>3, PaymentAccounted
    <3>6. \A q \in Players : q # x => PaidTimes(new, q) = PaidTimes(before, q)
      BY ONLY <3>3, PaymentAccounted
    <3> QED BY <3>1, <3>2, <3>4, <3>5, <3>6
  <2> QED BY <2>3, <2>5, <2>6, <2>7
<1>6. slots[p][s].outcome = "NONE"
  BY <1>1, OpenOutcome
<1>7. /\ ~ PaidFor(p, s) /\ PaidFor(p, s)'
      /\ \A q \in Players : \A u \in DOMAIN slots[q] :
           ~ (q = p /\ u = s) => (PaidFor(q, u)' <=> PaidFor(q, u))
  <2>1. CASE /\ Suspend(p, s)
             /\ pending'.kind = "CHOICE" /\ pending'.p = p /\ pending'.s = s
    <3>1. \A q \in Players : \A u \in DOMAIN slots[q] : slots'[q][u].outcome = slots[q][u].outcome
      BY <1>1, <2>1, OutcomesOf
    <3> QED BY <1>1, <1>6, <2>1, <3>1 DEF PaidFor
  <2>2. CASE Decide(p, s, "RESOLVED") /\ pending' = None
    <3>1. "RESOLVED" \in Outcomes
      BY DEF Outcomes
    <3>2. \A q \in Players : \A u \in DOMAIN slots[q] :
            slots'[q][u].outcome = IF q = p /\ u = s THEN "RESOLVED" ELSE slots[q][u].outcome
      BY <1>1, <2>2, <3>1, OutcomesOf
    <3> QED BY <1>1, <1>6, <2>2, <3>2 DEF PaidFor, None
  <2> QED BY <1>2, <2>1, <2>2
<1>8. NowPaid(p, s)
  BY <1>1, <1>5, <1>7 DEF NowPaid
<1> QED BY <1>1, <1>5, <1>8 DEF MoneyStep

\* An activation that goes on asks for the die or rolls it.
LEMMA GoesOnPays ==
  ASSUME ScheduleInv, DataInv, NEW p, NEW s, Activation(p, s), AtSlot(p, s),
         pending.kind # "CHOICE", NEW bonus \in Nat,
         NEW res \in [Players -> Nat], NEW led,
         Accounted(setup.resources, res, led),
         \A q \in Players : PaidTimes(led, q) = PaidTimes(ledger, q),
         RollOrAsk(p, s, bonus, res, led)
  PROVE  MoneyStep
<1>1. CASE /\ pending' = [kind |-> "MANUAL_DIE", p |-> p, s |-> s, bonus |-> bonus]
           /\ Suspend(p, s) /\ resources' = res /\ ledger' = led
  <2>1. pending'.kind # "CHOICE" /\ p \in Players /\ s \in DOMAIN slots[p]
    BY <1>1 DEF Activation
  <2>2. NothingPaid
    BY <1>1, <2>1, NoRoll
  <2> QED BY <1>1, <2>2 DEF MoneyStep
<1>2. ASSUME NEW roll \in Rolls, PayAndRoll(p, s, bonus, roll, res, led)
      PROVE  MoneyStep
  <2>1. roll \in Int
    BY RollAssumption
  <2> QED BY <1>2, <2>1, RollPays
<1> QED BY <1>1, <1>2 DEF RollOrAsk

\* The beginning of an activation pays nothing.
LEMMA BeginsUnpaid ==
  ASSUME ScheduleInv, NEW p \in Players, NEW s \in DOMAIN slots[p], AtSlot(p, s),
         pending = None, NEW repeat, NEW res, NEW led, NEW hand,
         Accounted(setup.resources, res, led),
         \A q \in Players : PaidTimes(led, q) = PaidTimes(ledger, q),
         ResolveActivation(p, s, repeat, res, led, hand)
  PROVE  MoneyStep
<1>1. /\ \/ Decide(p, s, "FAILED_COST") /\ pending' = pending
         \/ Suspend(p, s) /\ pending' = [kind |-> "NARRATIVE", p |-> p, s |-> s]
      /\ resources' = res /\ ledger' = led
  BY DEF ResolveActivation
<1>2. pending.kind # "CHOICE" /\ pending'.kind # "CHOICE"
  BY <1>1 DEF None
<1>3. NothingPaid
  BY <1>1, <1>2, NoRoll
<1> QED BY <1>1, <1>3 DEF MoneyStep

\* The purse is left alone.
LEMMA PurseAside ==
  ASSUME Accounted(setup.resources, resources, ledger), UNCHANGED purse
  PROVE  /\ Accounted(setup.resources, resources', ledger')
         /\ \A q \in Players : PaidTimes(ledger', q) = PaidTimes(ledger, q)
<1>1. resources' = resources /\ ledger' = ledger
  BY DEF purse
<1> QED BY <1>1

\* An amount is taken from a player, and written into the ledger.
LEMMA Spending ==
  ASSUME DataInv, NEW q \in Players, NEW amount \in Int, NEW reason \in Reasons,
         reason # "CAMPAIGN_ACTIVATION_COST",
         Accounted(setup.resources, resources, ledger)
  PROVE  \E res \in [Players -> Int] : \E led :
           /\ res = [resources EXCEPT ![q] = @ - amount]
           /\ led = Charge(ledger, q, amount, reason)
           /\ Accounted(setup.resources, res, led)
           /\ \A r \in Players : PaidTimes(led, r) = PaidTimes(ledger, r)
<1>1. PICK start \in [Players -> Nat] : start = setup.resources
  BY OpeningAssumption DEF DataInv, TableTypes
<1>2. PICK from \in [Players -> Int] : from = resources
  <2>1. resources \in [Players -> Int]
    BY DEF DataInv, PurseTypes
  <2> QED BY <2>1
<1>3. PICK res \in [Players -> Int] :
        /\ res = [resources EXCEPT ![q] = @ - amount]
        /\ res[q] = from[q] - amount
        /\ \A r \in Players : r # q => res[r] = from[r]
  <2>1. [from EXCEPT ![q] = @ - amount] \in [Players -> Int]
    OBVIOUS
  <2> QED BY <1>2, <2>1
<1>4. PICK before : before = ledger
  OBVIOUS
<1>5. PICK led : led = Charge(before, q, amount, reason)
  OBVIOUS
<1>6. /\ Accounted(start, from, before)
      /\ res[q] = from[q] - amount
      /\ \A r \in Players : r # q => res[r] = from[r]
      /\ led = Charge(before, q, amount, reason)
  BY <1>1, <1>2, <1>3, <1>4, <1>5
<1>7. Accounted(start, res, led)
  BY ONLY <1>6, ChargeAccounted
<1>8. \A r \in Players : PaidTimes(led, r) = PaidTimes(before, r)
  BY <1>6, ChargeAccounted
<1> QED BY <1>1, <1>3, <1>4, <1>5, <1>7, <1>8

\* The scheduler.
LEMMA RunNextPays ==
  ASSUME ScheduleInv, DataInv, Accounted(setup.resources, resources, ledger), RunNext
  PROVE  MoneyStep
<1>1. PICK p \in Players, s \in 1 .. 3 :
        /\ s \in DOMAIN slots[p]
        /\ \/ ConstructCampaign(p, s)
           \/ PlayBoost(p, s)
           \/ PlayDoubleAction(p, s)
           \/ UseRegime(p, s)
           \/ NegateActivation(p, s)
           \/ ActivateCampaign(p, s)
  BY PlanShape DEF RunNext, ScheduleInv
<1>2. ASSUME NEW type, Ready(p, s, type), type \notin {"ACTIVATE", "DOUBLE"},
             UNCHANGED purse, pending'.kind # "CHOICE",
             Decide(p, s, "RESOLVED") \/ Suspend(p, s)
      PROVE  MoneyStep
  <2>1. AtSlot(p, s) /\ ~ Activates(Act(p, s)) /\ pending.kind # "CHOICE"
    BY <1>1, <1>2, ReadyShape DEF Activates, None
  <2>2. NothingPaid
    BY <1>1, <1>2, <2>1, PurseAside, NoRoll
  <2> QED BY <1>2, <2>2, PurseAside DEF MoneyStep
<1>3. CASE ConstructCampaign(p, s)
  <2>1. /\ Ready(p, s, "CONSTRUCT") /\ Decide(p, s, "RESOLVED") /\ UNCHANGED purse
        /\ pending' = pending
    BY <1>3 DEF ConstructCampaign
  <2>2. pending'.kind # "CHOICE"
    BY <1>1, <2>1, ReadyShape DEF None
  <2>3. "CONSTRUCT" \notin {"ACTIVATE", "DOUBLE"}
    OBVIOUS
  <2> QED BY <1>2, <2>1, <2>2, <2>3
<1>4. CASE PlayBoost(p, s)
  <2>1. /\ Ready(p, s, "BOOST") /\ Decide(p, s, "RESOLVED") /\ UNCHANGED purse
        /\ pending' = pending
    BY <1>4 DEF PlayBoost
  <2>2. pending'.kind # "CHOICE"
    BY <1>1, <2>1, ReadyShape DEF None
  <2>3. "BOOST" \notin {"ACTIVATE", "DOUBLE"}
    OBVIOUS
  <2> QED BY <1>2, <2>1, <2>2, <2>3
<1>5. CASE PlayDoubleAction(p, s)
  <2> DEFINE hand == [cards EXCEPT ![<<p, "double">>].zone = "DISCARD"]
  <2>1. /\ Ready(p, s, "DOUBLE")
        /\ \/ /\ Decide(p, s, "FAILED_COST") /\ pending' = pending /\ UNCHANGED purse
           \/ ResolveActivation(p, s, TRUE, [resources EXCEPT ![p] = @ - 1],
                                Charge(ledger, p, 1, "CARD_COST"), hand)
    BY <1>5 DEF PlayDoubleAction
  <2>2. pending = None /\ AtSlot(p, s) /\ pending.kind # "CHOICE"
    BY <1>1, <2>1, ReadyShape DEF None
  <2>3. CASE Decide(p, s, "FAILED_COST") /\ pending' = pending /\ UNCHANGED purse
    <3>1. NothingPaid
      BY <1>1, <2>2, <2>3, PurseAside, NoRoll
    <3> QED BY <2>3, <3>1, PurseAside DEF MoneyStep
  <2> HIDE DEF hand
  <2>4. CASE ResolveActivation(p, s, TRUE, [resources EXCEPT ![p] = @ - 1],
                               Charge(ledger, p, 1, "CARD_COST"), hand)
    <3>1. PICK one \in Int : one = 1
      OBVIOUS
    <3>2. PICK reason \in Reasons : reason = "CARD_COST" /\ reason # "CAMPAIGN_ACTIVATION_COST"
      BY DEF Reasons
    <3>3. PICK res \in [Players -> Int] : \E l :
            /\ res = [resources EXCEPT ![p] = @ - one]
            /\ l = Charge(ledger, p, one, reason)
            /\ Accounted(setup.resources, res, l)
            /\ \A r \in Players : PaidTimes(l, r) = PaidTimes(ledger, r)
      BY <3>2, Spending
    <3>4. PICK led :
            /\ led = Charge(ledger, p, one, reason)
            /\ Accounted(setup.resources, res, led)
            /\ \A r \in Players : PaidTimes(led, r) = PaidTimes(ledger, r)
      BY <3>3
    <3>5. res = [resources EXCEPT ![p] = @ - 1] /\ led = Charge(ledger, p, 1, "CARD_COST")
      BY <3>1, <3>2, <3>3, <3>4
    <3>6. ResolveActivation(p, s, TRUE, res, led, hand)
      BY <2>4, <3>5
    <3> QED BY <1>1, <2>2, <3>4, <3>6, BeginsUnpaid
  <2> QED BY <2>1, <2>3, <2>4
<1>6. CASE UseRegime(p, s)
  <2>1. /\ Ready(p, s, "REGIME") /\ UNCHANGED purse
        /\ \/ pending' = [kind |-> "REGIME_MANUAL_DIE", p |-> p, s |-> s] /\ Suspend(p, s)
           \/ pending' = pending /\ (Suspend(p, s) \/ Decide(p, s, "RESOLVED"))
    BY <1>6 DEF UseRegime, RollRegime, RegimeFizzles, AskRegime
  <2>2. pending'.kind # "CHOICE"
    BY <1>1, <2>1, ReadyShape DEF None
  <2>3. "REGIME" \notin {"ACTIVATE", "DOUBLE"}
    OBVIOUS
  <2> QED BY <1>2, <2>1, <2>2, <2>3
<1>7. CASE NegateActivation(p, s)
  <2>1. /\ Ready(p, s, "ACTIVATE") /\ Decide(p, s, "NOT_EXECUTED") /\ UNCHANGED purse
        /\ pending' = pending
    BY <1>7 DEF NegateActivation
  <2>2. pending'.kind # "CHOICE" /\ pending.kind # "CHOICE" /\ AtSlot(p, s)
    BY <1>1, <2>1, ReadyShape DEF None
  <2>3. NothingPaid
    BY <1>1, <2>1, <2>2, PurseAside, NoRoll
  <2> QED BY <2>1, <2>3, PurseAside DEF MoneyStep
<1>8. CASE ActivateCampaign(p, s)
  <2>1. Ready(p, s, "ACTIVATE") /\ ResolveActivation(p, s, FALSE, resources, ledger, cards)
    BY <1>8 DEF ActivateCampaign
  <2>2. pending = None /\ AtSlot(p, s)
    BY <1>1, <2>1, ReadyShape
  <2> QED BY <1>1, <2>1, <2>2, BeginsUnpaid
<1> QED BY <1>1, <1>3, <1>4, <1>5, <1>6, <1>7, <1>8

\* A contribution to a coalition.
LEMMA CoalitionPays ==
  ASSUME ScheduleInv, DataInv, Accounted(setup.resources, resources, ledger),
         NEW q \in Players, NEW gives \in BOOLEAN, SubmitCoalition(q, gives)
  PROVE  MoneyStep
<1> DEFINE decided == pending.decided \cup {q}
           gave == pending.gave \cup {x \in {q} : gives}
           res == IF gives THEN [resources EXCEPT ![q] = @ - 1] ELSE resources
           led == IF gives THEN Charge(ledger, q, 1, "COALITION_CONTRIBUTION") ELSE ledger
<1>1. /\ pending # None /\ pending.kind = "COALITION"
      /\ gives => resources[q] >= 1
      /\ \/ /\ pending' = [pending EXCEPT !.decided = decided, !.gave = gave]
            /\ slots' = slots /\ resources' = res /\ ledger' = led
         \/ /\ decided = Players \ {pending.p}
            /\ campaign[pending.p] # NoCampaign
            /\ RollOrAsk(pending.p, pending.s, Cardinality(gave), res, led)
  BY DEF SubmitCoalition, Asked, None, schedule
<1>2. /\ pending.p \in Players /\ pending.s \in DOMAIN slots[pending.p]
      /\ AtSlot(pending.p, pending.s) /\ Activates(Act(pending.p, pending.s))
  BY <1>1, WhoIsAsked
<1>3. pending \in [kind : {"COALITION"}, p : Players, s : 1 .. 3,
                   decided : SUBSET Players, gave : SUBSET Players]
  BY <1>1 DEF ScheduleInv, Pendings, None
<1>4. Cardinality(gave) \in Nat
  <2>1. gave \subseteq Players
    BY <1>3
  <2> QED BY <2>1, PlayersFinite, FS_Subset, FS_CardinalityType
<1>5. /\ res \in [Players -> Nat]
      /\ Accounted(setup.resources, res, led)
      /\ \A r \in Players : PaidTimes(led, r) = PaidTimes(ledger, r)
  <2>1. CASE ~ gives
    <3>1. res = resources /\ led = ledger
      BY <2>1
    <3> QED BY <3>1 DEF DataInv, PurseTypes
  <2>2. CASE gives
    <3>1. PICK one \in Int : one = 1
      OBVIOUS
    <3>2. PICK reason \in Reasons :
            reason = "COALITION_CONTRIBUTION" /\ reason # "CAMPAIGN_ACTIVATION_COST"
      BY DEF Reasons
    <3>3. PICK a \in [Players -> Int] : \E l :
            /\ a = [resources EXCEPT ![q] = @ - one]
            /\ l = Charge(ledger, q, one, reason)
            /\ Accounted(setup.resources, a, l)
            /\ \A r \in Players : PaidTimes(l, r) = PaidTimes(ledger, r)
      BY <3>2, Spending
    <3>4. PICK l :
            /\ l = Charge(ledger, q, one, reason)
            /\ Accounted(setup.resources, a, l)
            /\ \A r \in Players : PaidTimes(l, r) = PaidTimes(ledger, r)
      BY <3>3
    <3>5. res = a /\ led = l
      BY <2>2, <3>1, <3>2, <3>3, <3>4
    <3>6. res \in [Players -> Nat]
      BY <1>1, <2>2 DEF DataInv, PurseTypes
    <3> QED BY <3>4, <3>5, <3>6
  <2> QED BY <2>1, <2>2
<1>6. CASE /\ pending' = [pending EXCEPT !.decided = decided, !.gave = gave]
           /\ slots' = slots /\ resources' = res /\ ledger' = led
  <2>1. pending.kind # "CHOICE" /\ pending'.kind # "CHOICE"
    BY <1>3, <1>6
  <2>2. NothingPaid
    BY <1>5, <1>6, <2>1, NobodyRolls
  <2> QED BY <1>5, <1>6, <2>2 DEF MoneyStep
<1>7. CASE /\ campaign[pending.p] # NoCampaign
           /\ RollOrAsk(pending.p, pending.s, Cardinality(gave), res, led)
  <2>1. Activation(pending.p, pending.s) /\ pending.kind # "CHOICE"
    BY <1>1, <1>2, <1>7 DEF Activation
  <2> HIDE DEF gave, res, led
  <2> QED BY <1>2, <1>4, <1>5, <1>7, <2>1, GoesOnPays
<1> QED BY <1>1, <1>6, <1>7

\* The answers.
LEMMA AnswerPays ==
  ASSUME ScheduleInv, DataInv, Accounted(setup.resources, resources, ledger), Answer
  PROVE  MoneyStep
<1>1. "RESOLVED" \in Outcomes /\ resources \in [Players -> Nat]
  BY DEF Outcomes, DataInv, PurseTypes
<1>2. CASE SubmitNarrative
  <2>1. /\ pending # None /\ pending.kind = "NARRATIVE" /\ campaign[pending.p] # NoCampaign
        /\ \/ /\ pending' = [kind |-> "COALITION", p |-> pending.p, s |-> pending.s,
                             decided |-> {}, gave |-> {}]
              /\ Suspend(pending.p, pending.s) /\ UNCHANGED purse
           \/ RollOrAsk(pending.p, pending.s, 0, resources, ledger)
    BY <1>2 DEF SubmitNarrative, Asked, None
  <2>2. /\ pending.p \in Players /\ pending.s \in DOMAIN slots[pending.p]
        /\ AtSlot(pending.p, pending.s) /\ Activates(Act(pending.p, pending.s))
    BY <2>1, WhoIsAsked
  <2>3. CASE RollOrAsk(pending.p, pending.s, 0, resources, ledger)
    <3>1. PICK zero \in Nat : zero = 0
      OBVIOUS
    <3>2. Activation(pending.p, pending.s) /\ pending.kind # "CHOICE"
          /\ RollOrAsk(pending.p, pending.s, zero, resources, ledger)
      BY <2>1, <2>2, <2>3, <3>1 DEF Activation
    <3> QED BY <1>1, <2>2, <3>2, GoesOnPays
  <2>4. CASE /\ pending' = [kind |-> "COALITION", p |-> pending.p, s |-> pending.s,
                            decided |-> {}, gave |-> {}]
             /\ Suspend(pending.p, pending.s) /\ UNCHANGED purse
    <3>1. pending'.kind # "CHOICE" /\ pending.kind # "CHOICE"
      BY <2>1, <2>4
    <3>2. NothingPaid
      BY <2>2, <2>4, <3>1, PurseAside, NoRoll
    <3> QED BY <2>4, <3>2, PurseAside DEF MoneyStep
  <2> QED BY <2>1, <2>3, <2>4
<1>3. ASSUME NEW q \in Players, NEW gives \in BOOLEAN, SubmitCoalition(q, gives)
      PROVE  MoneyStep
  BY <1>3, CoalitionPays
<1>4. ASSUME NEW roll \in Rolls, SubmitManualDie(roll)
      PROVE  MoneyStep
  <2>1. /\ pending # None /\ pending.kind = "MANUAL_DIE" /\ campaign[pending.p] # NoCampaign
        /\ PayAndRoll(pending.p, pending.s, pending.bonus, roll, resources, ledger)
    BY <1>4 DEF SubmitManualDie, Asked, None
  <2>2. /\ pending.p \in Players /\ pending.s \in DOMAIN slots[pending.p]
        /\ AtSlot(pending.p, pending.s) /\ Activates(Act(pending.p, pending.s))
    BY <2>1, WhoIsAsked
  <2>3. pending.bonus \in Nat /\ roll \in Int
    BY <2>1, RollAssumption DEF ScheduleInv, Pendings, None
  <2>4. Activation(pending.p, pending.s) /\ pending.kind # "CHOICE"
    BY <2>1, <2>2 DEF Activation
  <2> QED BY <1>1, <2>1, <2>2, <2>3, <2>4, RollPays
<1>5. ASSUME NEW roll \in Rolls, SubmitRegimeDie(roll)
      PROVE  MoneyStep
  <2>1. /\ pending # None /\ pending.kind = "REGIME_MANUAL_DIE" /\ pending' = None
        /\ Suspend(pending.p, pending.s) \/ Decide(pending.p, pending.s, "RESOLVED")
        /\ UNCHANGED purse
    BY <1>5 DEF SubmitRegimeDie, Asked, None, RollRegime, RegimeFizzles, AskRegime
  <2>2. /\ pending.p \in Players /\ pending.s \in DOMAIN slots[pending.p]
        /\ AtSlot(pending.p, pending.s) /\ ~ Activates(Act(pending.p, pending.s))
    BY <2>1, WhoIsAsked
  <2>3. pending'.kind # "CHOICE" /\ pending.kind # "CHOICE"
    BY <2>1 DEF None
  <2>4. NothingPaid
    BY <2>1, <2>2, <2>3, PurseAside, NoRoll
  <2> QED BY <2>1, <2>4, PurseAside DEF MoneyStep
<1>6. CASE SubmitChoice
  <2>1. /\ pending # None /\ pending.kind = "CHOICE" /\ pending' = None
        /\ Decide(pending.p, pending.s, "RESOLVED") /\ UNCHANGED purse
    BY <1>6 DEF SubmitChoice, Asked, None, Complete
  <2>2. pending.p \in Players /\ pending.s \in DOMAIN slots[pending.p]
    BY <2>1, WhoIsAsked
  <2>3. \A q \in Players : \A u \in DOMAIN slots[q] :
          slots'[q][u].outcome = IF q = pending.p /\ u = pending.s THEN "RESOLVED"
                                 ELSE slots[q][u].outcome
    BY <1>1, <2>1, <2>2, OutcomesOf
  <2>4. NothingPaid
    BY <2>1, <2>3, PurseAside DEF NothingPaid, PaidFor, None
  <2> QED BY <2>1, <2>4, PurseAside DEF MoneyStep
<1>7. ASSUME choice # None, pending' = pending,
             (choice.s > 0 /\ AdvanceInline(choice.p, choice.s)) \/ slots' = slots,
             Accounted(setup.resources, resources', ledger'),
             \A q \in Players : PaidTimes(ledger', q) = PaidTimes(ledger, q)
      PROVE  MoneyStep
  <2>1. CASE slots' = slots
    BY <1>7, <2>1, NobodyRolls DEF MoneyStep
  <2>2. CASE choice.s > 0 /\ AdvanceInline(choice.p, choice.s)
    <3>1. /\ choice.p \in Players /\ choice.s \in DOMAIN slots[choice.p]
          /\ Act(choice.p, choice.s).type = "REGIME"
          /\ pending = None
      BY <1>7, <2>2, WhoChooses
    <3>2. pending.kind # "CHOICE" /\ pending'.kind # "CHOICE"
          /\ ~ Activates(Act(choice.p, choice.s))
      BY <1>7, <3>1 DEF None, Activates
    <3>3. \A q \in Players : \A u \in DOMAIN slots[q] :
            slots'[q][u].outcome = IF q = choice.p /\ u = choice.s THEN "RESOLVED"
                                   ELSE slots[q][u].outcome
      BY <2>2, <3>1, OutcomesOf
    <3>4. \A q \in Players : \A u \in DOMAIN slots[q] : Activates(Act(q, u)) =>
            (slots'[q][u].outcome = "RESOLVED" <=> slots[q][u].outcome = "RESOLVED")
      BY <3>2, <3>3
    <3>5. NothingPaid
      BY <1>7, <3>2, <3>4, SameOutcomes
    <3> QED BY <1>7, <3>5 DEF MoneyStep
  <2> QED BY <1>7, <2>1, <2>2
<1>8. ASSUME choice.kind \in {"ARDEN", "DINESIA"}
      PROVE  choice # None /\ choice.s > 0 /\ choice.p \in Players
  <2>1. choice \in Choices /\ choice # None
    BY <1>8 DEF ScheduleInv, None
  <2>2. choice.s \in 1 .. 3 /\ choice.p \in Players
    BY <1>8, <2>1, ChoiceShape
  <2> QED BY <2>1, <2>2
<1>9. CASE SubmitArdenChoice
  <2>1. /\ choice.kind = "ARDEN" /\ AdvanceInline(choice.p, choice.s)
        /\ pending' = pending /\ UNCHANGED purse
    BY <1>9 DEF SubmitArdenChoice, Chosen
  <2> QED BY <1>7, <1>8, <2>1, PurseAside
<1>10. CASE SubmitDinesiaChoice
  <2>1. /\ choice.kind = "DINESIA" /\ AdvanceInline(choice.p, choice.s)
        /\ pending' = pending
        /\ resources' = [resources EXCEPT ![choice.p] = @ - 2]
        /\ ledger' = Charge(ledger, choice.p, 2, "REGIME_ABILITY_COST")
    BY <1>10 DEF SubmitDinesiaChoice, Chosen
  <2>2. choice # None /\ choice.s > 0 /\ choice.p \in Players
    BY <1>8, <2>1
  <2>3. PICK p \in Players : p = choice.p
    BY <2>2
  <2>4. PICK two \in Int : two = 2
    OBVIOUS
  <2>5. PICK reason \in Reasons :
          reason = "REGIME_ABILITY_COST" /\ reason # "CAMPAIGN_ACTIVATION_COST"
    BY DEF Reasons
  <2>6. PICK a \in [Players -> Int] : \E l :
          /\ a = [resources EXCEPT ![p] = @ - two]
          /\ l = Charge(ledger, p, two, reason)
          /\ Accounted(setup.resources, a, l)
          /\ \A r \in Players : PaidTimes(l, r) = PaidTimes(ledger, r)
    BY <2>5, Spending
  <2>7. PICK l :
          /\ l = Charge(ledger, p, two, reason)
          /\ Accounted(setup.resources, a, l)
          /\ \A r \in Players : PaidTimes(l, r) = PaidTimes(ledger, r)
    BY <2>6
  <2>8. resources' = a /\ ledger' = l
    BY <2>1, <2>3, <2>4, <2>5, <2>6, <2>7
  <2> QED BY <1>7, <2>1, <2>2, <2>7, <2>8
<1>11. CASE SubmitFlumaChoice
  <2>1. /\ choice # None
        /\ (choice.s > 0 /\ AdvanceInline(choice.p, choice.s)) \/ slots' = slots
        /\ pending' = pending /\ UNCHANGED purse
    BY <1>11 DEF SubmitFlumaChoice, Chosen, None
  <2> QED BY <1>7, <2>1, PurseAside
<1> QED BY <1>2, <1>3, <1>4, <1>5, <1>6, <1>9, <1>10, <1>11 DEF Answer

\* Sanctions take from one player what they give to the other.
LEMMA SanctionsPay ==
  ASSUME DataInv, Accounted(setup.resources, resources, ledger),
         NEW p \in Players, NEW q \in Players, PlaySanctions(p, q)
  PROVE  MoneyStep
<1>1. PICK amount \in Int : amount = IF resources[q] < 2 THEN resources[q] ELSE 2
  <2>1. resources[q] \in Nat
    BY DEF DataInv, PurseTypes
  <2> QED BY <2>1
<1>2. PICK back \in Int : back = -amount
  OBVIOUS
<1>3. PICK r1 \in Reasons : r1 = "CARD_COST" /\ r1 # "CAMPAIGN_ACTIVATION_COST"
  BY DEF Reasons
<1>4. PICK r2 \in Reasons : r2 = "CARD_EFFECT" /\ r2 # "CAMPAIGN_ACTIVATION_COST"
  BY DEF Reasons
<1>5. /\ p # q /\ slots' = slots /\ pending' = pending
      /\ resources' = [resources EXCEPT ![p] = @ + amount, ![q] = @ - amount]
      /\ ledger' = Charge(Charge(ledger, q, amount, r1), p, back, r2)
  BY <1>1, <1>2, <1>3, <1>4 DEF PlaySanctions, schedule
<1>6. PICK a \in [Players -> Int] : \E l :
        /\ a = [resources EXCEPT ![q] = @ - amount]
        /\ l = Charge(ledger, q, amount, r1)
        /\ Accounted(setup.resources, a, l)
        /\ \A r \in Players : PaidTimes(l, r) = PaidTimes(ledger, r)
  BY <1>3, Spending
<1>7. PICK l :
        /\ l = Charge(ledger, q, amount, r1)
        /\ Accounted(setup.resources, a, l)
        /\ \A r \in Players : PaidTimes(l, r) = PaidTimes(ledger, r)
  BY <1>6
<1>8. PICK start \in [Players -> Nat] : start = setup.resources
  BY OpeningAssumption DEF DataInv, TableTypes
<1>9. PICK after \in [Players -> Int] :
        /\ after[p] = a[p] - back
        /\ \A r \in Players : r # p => after[r] = a[r]
  <2>1. [a EXCEPT ![p] = @ - back] \in [Players -> Int]
    OBVIOUS
  <2> QED BY <2>1
<1>10. PICK new : new = Charge(l, p, back, r2)
  OBVIOUS
<1>11. /\ Accounted(start, a, l)
       /\ after[p] = a[p] - back
       /\ \A r \in Players : r # p => after[r] = a[r]
       /\ new = Charge(l, p, back, r2)
  BY <1>7, <1>8, <1>9, <1>10
<1>12. Accounted(start, after, new)
  BY ONLY <1>11, ChargeAccounted
<1>13. \A r \in Players : PaidTimes(new, r) = PaidTimes(l, r)
  BY <1>4, <1>11, ChargeAccounted
<1>14. ledger' = new
  BY <1>5, <1>7, <1>10
<1>15. \A r \in Players : resources'[r] = after[r]
  <2>1. resources \in [Players -> Nat]
    BY DEF DataInv, PurseTypes
  <2>2. /\ resources'[p] = resources[p] + amount
        /\ resources'[q] = resources[q] - amount
        /\ \A r \in Players : r # p /\ r # q => resources'[r] = resources[r]
    BY <1>5, <2>1
  <2>3. a[p] = resources[p] /\ a[q] = resources[q] - amount
        /\ \A r \in Players : r # p /\ r # q => a[r] = resources[r]
    BY <1>5, <1>6, <2>1
  <2>4. after[p] = resources[p] + amount
    BY <1>2, <1>9, <2>1, <2>3
  <2> QED BY <1>5, <1>9, <2>2, <2>3, <2>4
<1>16. Accounted(setup.resources, resources', ledger')
  BY <1>8, <1>12, <1>14, <1>15 DEF Accounted
<1>17. NothingPaid
  BY <1>5, <1>7, <1>13, <1>14, NobodyRolls
<1> QED BY <1>16, <1>17 DEF MoneyStep

\* The other steps.
LEMMA InterruptPays ==
  ASSUME DataInv, Accounted(setup.resources, resources, ledger),
         FlumaTrigger \/ Interrupt \/ Resume \/ UNCHANGED vars
  PROVE  MoneyStep
<1>1. ASSUME slots' = slots, pending' = pending, UNCHANGED purse
      PROVE  MoneyStep
  BY <1>1, PurseAside, NobodyRolls DEF MoneyStep
<1>2. ASSUME NEW p \in Players, NEW q \in Players, PlaySanctions(p, q) \/ StealCard(p, q)
      PROVE  MoneyStep
  BY <1>1, <1>2, SanctionsPay DEF StealCard, schedule
<1>3. ASSUME NEW p \in Players, DiscardCampaign(p) \/ VetoCampaign(p)
      PROVE  MoneyStep
  BY <1>1, <1>3 DEF DiscardCampaign, VetoCampaign, schedule
<1>4. ASSUME NEW p \in Players, NEW pd \in PDs, Establish(p, pd) \/ ApplyBacklash(p, pd, BacklashCubes)
      PROVE  MoneyStep
  BY <1>1, <1>4 DEF Establish, ApplyBacklash, schedule
<1>5. CASE FlumaTrigger \/ Pause \/ Resume \/ UNCHANGED vars
  BY <1>1, <1>5 DEF FlumaTrigger, Pause, Resume, vars, schedule
<1> QED BY <1>2, <1>3, <1>4, <1>5 DEF Interrupt

MoneyInv == Accounted(setup.resources, resources, ledger) /\ PaymentsMatch

\* The opening of the stage is never written.
LEMMA SetupStays ==
  ASSUME [Next]_vars
  PROVE  setup' = setup
<1>1. CASE RunNext
  <2>0. PICK p \in Players : \E s \in DOMAIN slots[p] :
          \/ ConstructCampaign(p, s)
          \/ PlayBoost(p, s)
          \/ PlayDoubleAction(p, s)
          \/ UseRegime(p, s)
          \/ NegateActivation(p, s)
          \/ ActivateCampaign(p, s)
    BY <1>1 DEF RunNext
  <2>1. PICK s \in DOMAIN slots[p] :
          \/ ConstructCampaign(p, s)
          \/ PlayBoost(p, s)
          \/ PlayDoubleAction(p, s)
          \/ UseRegime(p, s)
          \/ NegateActivation(p, s)
          \/ ActivateCampaign(p, s)
    BY <2>0
  <2>2. ASSUME NEW repeat, NEW res, NEW led, NEW hand,
               ResolveActivation(p, s, repeat, res, led, hand)
        PROVE  setup' = setup
    BY <2>2 DEF ResolveActivation, table
  <2>3. CASE ConstructCampaign(p, s) \/ PlayBoost(p, s) \/ UseRegime(p, s) \/ NegateActivation(p, s)
    <3>1. UNCHANGED table
      BY <2>3 DEF ConstructCampaign, PlayBoost, UseRegime, NegateActivation
    <3> QED BY <3>1 DEF table
  <2>4. CASE PlayDoubleAction(p, s)
    BY <2>2, <2>4 DEF PlayDoubleAction, table
  <2>5. CASE ActivateCampaign(p, s)
    BY <2>2, <2>5 DEF ActivateCampaign
  <2> QED BY <2>1, <2>3, <2>4, <2>5
<1>2. CASE Answer
  <2>1. UNCHANGED table
    BY <1>2 DEF Answer, SubmitNarrative, SubmitCoalition, SubmitManualDie, SubmitRegimeDie,
                SubmitChoice, SubmitArdenChoice, SubmitDinesiaChoice, SubmitFlumaChoice
  <2> QED BY <2>1 DEF table
<1>3. CASE Interrupt
  BY <1>3 DEF Interrupt, PlaySanctions, StealCard, DiscardCampaign, VetoCampaign, Establish,
              ApplyBacklash, Pause
<1>4. CASE FlumaTrigger \/ Resume \/ UNCHANGED vars
  BY <1>4 DEF FlumaTrigger, Resume, vars, table
<1> QED BY <1>1, <1>2, <1>3, <1>4 DEF Next

\* Every step keeps the accounts.
LEMMA MoneyKept ==
  ASSUME ScheduleInv, DataInv, MoneyInv, [Next]_vars
  PROVE  MoneyInv'
<1>1. MoneyStep
  BY RunNextPays, AnswerPays, InterruptPays DEF Next, MoneyInv
<1>2. ActsStay
  <2>1. CASE Next
    <3>1. StepOfSchedule
      BY <2>1, RunNextStep, FlumaTriggerStep, AnswerStep, InterruptStep DEF Next
    <3> QED BY <3>1, ScheduleKeepsActs
  <2>2. CASE UNCHANGED vars
    BY <2>2 DEF vars, schedule, ActsStay
  <2> QED BY <2>1, <2>2
<1>3. setup' = setup
  BY SetupStays
<1>4. PaymentsMatch'
  BY <1>1, <1>2, PaymentsKept DEF MoneyInv
<1>5. Accounted(setup.resources, resources, ledger)'
  BY <1>1, <1>3, Zenon DEF MoneyStep, Accounted, Balance, Total, Share, FoldFunction,
                         FoldFunctionOnSet, MapThenFoldSet
<1> QED BY <1>4, <1>5 DEF MoneyInv

\* A player has what the player began with and the entries since then, and an
\* activation is paid for once, when its die is rolled, however often it is
\* suspended and whoever interrupts.
THEOREM PaidCorrect == Spec => []PaidOnce
<1> DEFINE Inv == ScheduleInv /\ DataInv /\ MoneyInv
<1>1. Init => Inv
  <2> SUFFICES ASSUME Init PROVE Inv
    OBVIOUS
  <2>1. ScheduleInv /\ DataInv
    BY InvariantBegins
  <2>2. ledger = <<>> /\ resources = setup.resources /\ pending = None
    BY DEF Init
  <2>3. \A p \in Players : PaidTimes(ledger, p) = 0 /\ Balance(ledger, p) = 0
    <3> TAKE p \in Players
    <3>1. DOMAIN ledger = {}
      BY <2>2
    <3>2. Payments(ledger, p) = {}
      BY <3>1 DEF Payments
    <3>3. PaidTimes(ledger, p) = 0
      BY <3>2, FS_EmptySet DEF PaidTimes
    <3>4. Balance(ledger, p) = SumOver(Share(ledger, p), DOMAIN ledger)
      BY <2>1, ShareShape DEF DataInv, PurseTypes
    <3>5. Balance(ledger, p) = 0
      BY <3>1, <3>4, SumNone
    <3> QED BY <3>3, <3>5
  <2>4. Accounted(setup.resources, resources, ledger)
    <3> SUFFICES ASSUME NEW p \in Players
                 PROVE  resources[p] = setup.resources[p] + Balance(ledger, p)
      BY <2>1 DEF Accounted, DataInv, PurseTypes
    <3>1. PICK n \in Nat : n = resources[p]
      BY <2>1 DEF DataInv, PurseTypes
    <3> QED BY <2>2, <2>3, <3>1
  <2>5. PaymentsMatch
    <3> SUFFICES ASSUME NEW p \in Players
                 PROVE  PaidTimes(ledger, p) = Cardinality(PaidSlots(p))
      BY DEF PaymentsMatch
    <3>1. PICK plans \in [Players -> UNION {Plans[q] : q \in Players}] :
           slots = [q \in Players |->
                     [s \in DOMAIN plans[q] |->
                        [act |-> plans[q][s], revealed |-> FALSE, outcome |-> "NONE"]]]
      BY DEF Init
    <3>2. \A s \in DOMAIN slots[p] : slots[p][s].outcome # "RESOLVED"
      BY <3>1
    <3>3. PaidSlots(p) = {}
      BY <2>2, <3>2 DEF PaidSlots, PaidFor, None
    <3> QED BY <2>3, <3>3, FS_EmptySet
  <2> QED BY <2>1, <2>4, <2>5 DEF MoneyInv
<1>2. Inv /\ [Next]_vars => Inv'
  BY InvariantKept, MoneyKept
<1>3. Inv => PaidOnce
  <2> SUFFICES ASSUME Inv, NEW p \in Players
               PROVE
    /\ resources[p] =
         setup.resources[p] +
         Total([i \in DOMAIN ledger |-> IF ledger[i].by = p THEN ledger[i].delta ELSE 0])
    /\ Cardinality({i \in DOMAIN ledger :
                      ledger[i].by = p /\ ledger[i].reason = "CAMPAIGN_ACTIVATION_COST"})
         = Cardinality({s \in DOMAIN slots[p] :
                          /\ Activates(Act(p, s))
                          /\ \/ slots[p][s].outcome = "RESOLVED"
                             \/ pending.kind = "CHOICE" /\ <<pending.p, pending.s>> = <<p, s>>})
    BY DEF PaidOnce
  <2>1. resources[p] = setup.resources[p] +
          Total([i \in DOMAIN ledger |-> IF ledger[i].by = p THEN ledger[i].delta ELSE 0])
    BY DEF MoneyInv, Accounted, Balance, Share
  <2>2. PaidTimes(ledger, p) = Cardinality(PaidSlots(p))
    BY DEF MoneyInv, PaymentsMatch
  <2>3. PaidSlots(p) = {s \in DOMAIN slots[p] :
                          /\ Activates(Act(p, s))
                          /\ \/ slots[p][s].outcome = "RESOLVED"
                             \/ pending.kind = "CHOICE" /\ <<pending.p, pending.s>> = <<p, s>>}
    BY DEF PaidSlots, PaidFor
  <2> QED BY <2>1, <2>2, <2>3 DEF PaidTimes, Payments
<1> QED BY <1>1, <1>2, <1>3, PTL DEF Spec

================================================================================
