---------------------------- MODULE CardPlayProofs ----------------------------
(***************************************************************************)
(* Theorems about CardPlay, for every table: the operations of plans run   *)
(* once each, in order and one plan after another; a veto is settled by    *)
(* everybody's vote; every variable keeps its type; a card stays where its *)
(* record says unless the discard effect retrieves it from a deck; and     *)
(* answers take cards that are in place only from where they are.          *)
(***************************************************************************)
EXTENDS CardPlay, DataProofs, SequenceTheorems, FiniteSetTheorems, TLAPS

(***************************************************************************)
(* The scheduler of plans.                                                 *)
(***************************************************************************)

\* What has run is part of plans, and the cursor is behind what ran last.
PlanInv ==
  /\ table \in Tables
  /\ ran \in Seq((DOMAIN table.plans) \X Nat)
  /\ \A i \in DOMAIN ran : ran[i][2] \in DOMAIN table.plans[ran[i][1]]
  /\ IF ran = <<>> THEN plan = NoPlan
     ELSE plan = [id |-> ran[Len(ran)][1], next |-> ran[Len(ran)][2] + 1]
  /\ PlansDoNotInterleave

\* A step either runs an operation of a plan or leaves the plans alone.
LEMMA PlansStep ==
  ASSUME Next
  PROVE  \/ UNCHANGED <<table, plan, ran>>
         \/ \E id \in DOMAIN table.plans : \E k \in DOMAIN table.plans[id] : RunPlan(id, k)
<1>1. CASE PlansLocked
  BY <1>1 DEF PlansLocked, runVars
<1>2. ASSUME NEW p \in Players, NEW c \in DOMAIN card, PlayEffect(p, c) \/ React(p, c)
      PROVE  UNCHANGED <<table, plan, ran>>
  BY <1>2 DEF PlayEffect, React, runVars
<1>3. ASSUME NEW p \in Players, Answer(p) \/ Pass(p) \/ Defend(p)
      PROVE  UNCHANGED <<table, plan, ran>>
  BY <1>3 DEF Answer, Pass, Defend, runVars
<1>4. ASSUME NEW p \in Players, NEW t \in Triggers, OpenWindow(p, t)
      PROVE  UNCHANGED <<table, plan, ran>>
  BY <1>4 DEF OpenWindow
<1>5. ASSUME NEW p \in Players, NEW v \in {"ACCEPTABLE", "UNACCEPTABLE"}, Vote(p, v)
      PROVE  UNCHANGED <<table, plan, ran>>
  BY <1>5 DEF Vote, runVars
<1>6. ASSUME NEW reject \in BOOLEAN, ReviewAbuse(reject)
      PROVE  UNCHANGED <<table, plan, ran>>
  BY <1>6 DEF ReviewAbuse, runVars
<1>7. ASSUME NEW o \in table.loose, Core(o)
      PROVE  UNCHANGED <<table, plan, ran>>
  BY <1>7 DEF Core
<1> QED BY <1>1, <1>2, <1>3, <1>4, <1>5, <1>6, <1>7 DEF Next

\* The next operation of the unfinished plan, or the first of another one.
LEMMA PlanInvStep ==
  ASSUME PlanInv, [Next]_vars PROVE PlanInv'
<1>1. CASE UNCHANGED <<table, plan, ran>>
  BY <1>1 DEF PlanInv, PlansDoNotInterleave, NoPlan
<1>2. ASSUME NEW id \in DOMAIN table.plans, NEW k \in DOMAIN table.plans[id], RunPlan(id, k)
      PROVE  PlanInv'
  <2> DEFINE n == Len(ran)
             R == (DOMAIN table.plans) \X Nat
  <2>1. /\ table' = table
        /\ ran' = Append(ran, <<id, k>>)
        /\ plan' = [id |-> id, next |-> k + 1]
        /\ MayRun(id, k)
        /\ \A i \in DOMAIN ran : ran[i] # <<id, k>>
    BY <1>2 DEF RunPlan, Range
  <2>2. /\ \A x \in DOMAIN table.plans : /\ Len(table.plans[x]) \in Nat
                                         /\ DOMAIN table.plans[x] = 1 .. Len(table.plans[x])
        /\ ran \in Seq(R) /\ n \in Nat /\ DOMAIN ran = 1 .. n
    <3>1. \A x \in DOMAIN table.plans : table.plans[x] \in Seq(Operations(table))
      BY TablesAssumption DEF PlanInv, TablesAssumption
    <3>2. ran \in Seq(R)
      BY DEF PlanInv
    <3> HIDE DEF R
    <3> QED BY <3>1, <3>2, LenProperties
  <2>3. k \in Nat /\ k >= 1
    BY <2>2
  <2>4. /\ ran' \in Seq(R) /\ Len(ran') = n + 1 /\ DOMAIN ran' = 1 .. n + 1
        /\ ran'[n + 1] = <<id, k>>
        /\ \A i \in 1 .. n : ran'[i] = ran[i]
    <3>1. <<id, k>> \in R
      <4>1. id \in DOMAIN table.plans
        OBVIOUS
      <4>2. k \in Nat
        BY <2>3
      <4> QED BY <4>1, <4>2
    <3> HIDE DEF R
    <3> QED BY <2>1, <2>2, <3>1, AppendProperties, LenProperties
  <2>5. \A i \in 1 .. n : /\ ran[i][2] \in 1 .. Len(table.plans[ran[i][1]])
                          /\ ran[i] = <<ran[i][1], ran[i][2]>>
                          /\ ran[i][1] \in DOMAIN table.plans
    <3>1. \A i \in 1 .. n : ran[i] \in R
      <4> HIDE DEF R
      <4> QED BY <2>2
    <3>2. \A i \in 1 .. n : /\ ran[i] = <<ran[i][1], ran[i][2]>>
                            /\ ran[i][1] \in DOMAIN table.plans
      BY <3>1
    <3>3. \A i \in 1 .. n : ran[i][2] \in DOMAIN table.plans[ran[i][1]]
      BY <2>2 DEF PlanInv
    <3> QED BY <2>2, <3>2, <3>3
  <2>6. (n = 0 /\ plan = NoPlan /\ ran = <<>>) \/
        (n >= 1 /\ plan = [id |-> ran[n][1], next |-> ran[n][2] + 1])
    <3>1. ran = <<>> \/ n # 0
      <4> HIDE DEF R
      <4> QED BY <2>2, EmptySeq
    <3> QED BY <2>2, <3>1 DEF PlanInv
  <2>7. IF k = 1 THEN n = 0 \/ ran[n][2] = Len(table.plans[ran[n][1]])
        ELSE n >= 1 /\ ran[n] = <<id, k - 1>>
    <3>1. CASE n = 0
      <4>1. plan = NoPlan
        BY <2>6, <3>1
      <4> QED BY <2>1, <3>1, <4>1 DEF MayRun
    <3>2. CASE n >= 1
      <4> DEFINE a == ran[n][1]
                 b == ran[n][2]
      <4>0. b \in 1 .. Len(table.plans[a]) /\ ran[n] = <<a, b>> /\ Len(table.plans[a]) \in Nat
        BY <2>2, <2>5, <3>2
      <4>1. plan.id = a /\ plan.next = b + 1 /\ plan # NoPlan
        <5>1. plan = [id |-> a, next |-> b + 1]
          BY <2>6, <3>2
        <5> HIDE DEF a, b
        <5>2. b \in Nat /\ b + 1 # 1
          BY <4>0
        <5> QED BY <5>1, <5>2 DEF NoPlan
      <4>2. IF b + 1 <= Len(table.plans[a]) THEN a = id /\ b + 1 = k ELSE k = 1
        BY <2>1, <4>1 DEF MayRun
      <4> HIDE DEF a, b
      <4>3. CASE b + 1 <= Len(table.plans[a])
        BY <2>3, <3>2, <4>0, <4>2, <4>3
      <4>4. CASE ~ (b + 1 <= Len(table.plans[a]))
        <5>1. k = 1 /\ b = Len(table.plans[a])
          BY <4>0, <4>2, <4>4
        <5> QED BY <5>1 DEF a, b
      <4> QED BY <4>3, <4>4
    <3> QED BY <2>2, <3>1, <3>2
  <2>8. PlansDoNotInterleave'
    <3>1. \A i \in 1 .. n + 1 : \A j \in 1 .. n + 1 : ran'[i] = ran'[j] => i = j
      <4>1. \A i \in 1 .. n : \A j \in 1 .. n : ran[i] = ran[j] => i = j
        BY <2>2 DEF PlanInv, PlansDoNotInterleave
      <4>2. \A i \in 1 .. n + 1 : i \in 1 .. n \/ i = n + 1
        BY <2>2
      <4> QED BY <2>1, <2>2, <2>4, <4>1, <4>2
    <3>2. ASSUME NEW i \in 1 .. n + 1
          PROVE  IF ran'[i][2] = 1
                 THEN i = 1 \/ ran'[i - 1][2] = Len(table.plans[ran'[i - 1][1]])
                 ELSE i > 1 /\ ran'[i - 1] = <<ran'[i][1], ran'[i][2] - 1>>
      <4>1. CASE i = n + 1
        <5>1. i - 1 = n /\ ran'[i] = <<id, k>> /\ (n >= 1 => ran'[n] = ran[n])
          BY <2>2, <2>4, <4>1
        <5>2. n = 0 => i = 1
          BY <2>2, <4>1
        <5>3. n >= 1 => i > 1
          BY <2>2, <4>1
        <5>4. n = 0 \/ n >= 1
          BY <2>2
        <5> HIDE DEF n
        <5> QED BY <2>3, <2>7, <5>1, <5>2, <5>3, <5>4
      <4>2. CASE i \in 1 .. n
        <5>1. IF ran[i][2] = 1
              THEN i = 1 \/ ran[i - 1][2] = Len(table.plans[ran[i - 1][1]])
              ELSE i > 1 /\ ran[i - 1] = <<ran[i][1], ran[i][2] - 1>>
          BY <2>2, <4>2 DEF PlanInv, PlansDoNotInterleave
        <5>2. ran'[i] = ran[i] /\ (i # 1 => ran'[i - 1] = ran[i - 1])
          <6>1. i # 1 => i - 1 \in 1 .. n
            BY <2>2, <4>2
          <6> QED BY <2>4, <4>2, <6>1
        <5>3. i > 1 => i # 1
          BY <4>2
        <5> HIDE DEF n
        <5> QED BY <5>1, <5>2, <5>3
      <4> QED BY <2>2, <4>1, <4>2
    <3> QED BY <2>1, <2>4, <3>1, <3>2 DEF PlansDoNotInterleave
  <2>9. \A i \in DOMAIN ran' : ran'[i][2] \in DOMAIN table'.plans[ran'[i][1]]
    <3>1. \A i \in 1 .. n + 1 : i \in 1 .. n \/ i = n + 1
      BY <2>2
    <3> QED BY <2>1, <2>2, <2>4, <2>5, <3>1
  <2>10. ran' # <<>> /\ plan' = [id |-> ran'[Len(ran')][1], next |-> ran'[Len(ran')][2] + 1]
    <3>1. ran' # <<>>
      BY <2>2, <2>4
    <3> QED BY <2>1, <2>4, <3>1
  <2> QED BY <2>1, <2>4, <2>8, <2>9, <2>10 DEF PlanInv
<1> QED BY <1>1, <1>2, PlansStep DEF vars, runVars

\* The operations of a plan run once each and in order, and no other plan
\* begins before the last one has run, for every table of plans, whatever
\* cards, vetoes and other operations come between them (schedulerPlan of
\* executeM2CoreOperation).
THEOREM NoInterleaving == Spec => []PlansDoNotInterleave
<1>1. Init => PlanInv
  BY DEF Init, PlanInv, PlansDoNotInterleave
<1>2. PlanInv => PlansDoNotInterleave
  BY DEF PlanInv
<1> QED BY <1>1, <1>2, PlanInvStep, PTL DEF Spec

(***************************************************************************)
(* Types.                                                                  *)
(***************************************************************************)
Deal == DOMAIN table.cards

Records == [by : Players, zone : Zones, back : BOOLEAN]

CardsOK ==
  /\ card \in [Deal -> Records]
  /\ strategy \in [Players -> PilesOf(Deal)]

BoardOK ==
  /\ money \in [Players -> Nat]
  /\ points \in [Players -> Nat]
  /\ mat \in [Players -> SUBSET Deal]
  /\ \A pd \in DOMAIN holder : holder[pd] \in Players \cup {Nobody}

ChoiceOK ==
  /\ choice.chooser \in Players \cup {Nobody}
  /\ choice.limit \in BOOLEAN
  /\ choice # NoChoice => choice.actor \in Players

\* An open window is that of a player.
WindowOK ==
  /\ window \in [status : {"NONE", "WAITING_FOR_PRIORITY_PLAYER", "CLOSED"},
                 trigger : {"NONE"} \cup Triggers, by : Players \cup {Nobody},
                 priority : Seq(Players), next : Nat, card : Deal \cup {<<Nobody, "NONE">>},
                 refused : SUBSET Players]
  /\ window.next \in 1 .. Len(window.priority) + 1
  /\ IsOpen => window.by \in Players

\* A veto is that of a card, which is a starter, against the campaign of a player.
VetoOK ==
  \/ veto = NoVeto
  \/ /\ veto \in [status : {"AWAITING_DEFENSE", "VOTING"}, card : Deal, by : Players,
                  of : Players, votes : [Players -> {"NONE", "ACCEPTABLE", "UNACCEPTABLE"}]]
     /\ IsStarter(veto.card)

TypeInv ==
  /\ table \in Tables
  /\ phase \in {"ACTION_STAGE_PLAN", "RESOLUTION_STAGE"}
  /\ CardsOK /\ BoardOK /\ ChoiceOK /\ WindowOK /\ VetoOK
  /\ blocked \subseteq Players
  /\ calls \in [windows : 0 .. table.windows, ops : 0 .. table.ops]

\* What the proofs use of a table.
LEMMA TableFacts ==
  ASSUME table \in Tables
  PROVE  /\ IsFiniteSet(Deal)
         /\ \A c \in Deal : c[1] \in Players
         /\ table.windows \in Nat /\ table.ops \in Nat
         /\ \A o \in Operations(table) :
              o.by \in Players /\ (o.kind = "APPLY_BACKLASH" => o.amount \in Nat)
BY TablesAssumption DEF TablesAssumption, Deal

\* A sequence has finitely many members.
LEMMA PlayersFinite == IsFiniteSet(Players)
<1> DEFINE I == 1 .. Len(Order)
           f == [i \in I |-> Order[i]]
<1>1. Len(Order) \in Nat /\ DOMAIN Order = I
  BY OrderAssumption, LenProperties DEF OrderAssumption
<1>2. IsFiniteSet(I)
  BY <1>1, FS_Interval
<1>3. f \in Surjection(I, Players)
  <2>1. Players = {Order[i] : i \in I}
    BY <1>1 DEF Players, Range
  <2>2. f \in [I -> Players] /\ \A q \in Players : \E i \in I : f[i] = q
    BY <2>1
  <2> HIDE DEF f, I
  <2> QED BY <2>2 DEF Surjection
<1> QED BY <1>2, <1>3, FS_Surjection

\* What the least and the greatest of two numbers are.
LEMMA OfTwo ==
  ASSUME NEW a \in Int, NEW b \in Int
  PROVE  /\ Min({a, b}) \in {a, b} /\ Min({a, b}) <= a /\ Min({a, b}) <= b
         /\ Max({a, b}) \in {a, b} /\ Max({a, b}) >= a /\ Max({a, b}) >= b
<1>1. \E x \in {a, b} : \A y \in {a, b} : x <= y
  <2>1. CASE a <= b
    BY <2>1
  <2>2. CASE b <= a
    BY <2>2
  <2> QED BY <2>1, <2>2
<1>2. \E x \in {a, b} : \A y \in {a, b} : x >= y
  <2>1. CASE a >= b
    BY <2>1
  <2>2. CASE b >= a
    BY <2>2
  <2> QED BY <2>1, <2>2
<1> QED BY <1>1, <1>2 DEF Min, Max

\* The records that cards get when they are discarded, removed or flattened.
LEMMA DiscardedOK ==
  ASSUME table \in Tables, NEW cards \in [Deal -> Records], NEW S
  PROVE  Discarded(cards, S) \in [Deal -> Records]
<1>1. \A c \in Deal : cards[c] \in Records /\ c[1] \in Players
  BY TableFacts
<1>2. DOMAIN cards = Deal
  OBVIOUS
<1>3. \A c \in Deal : Discarded(cards, S)[c] \in Records
  BY <1>1, <1>2 DEF Discarded, Records, Zones
<1>4. Discarded(cards, S) = [c \in Deal |-> Discarded(cards, S)[c]]
  BY <1>2 DEF Discarded
<1> QED BY <1>3, <1>4

\* The card removed from the game.
LEMMA RemovedOK ==
  ASSUME NEW cards \in [Deal -> Records], NEW c
  PROVE  Removed(cards, c) \in [Deal -> Records]
BY DEF Removed, Records, Zones

\* The way through the M2 engine.
LEMMA FlattenedOK ==
  ASSUME NEW cards \in [Deal -> Records]
  PROVE  Flattened(cards) \in [Deal -> Records]
BY DEF Flattened, Records, Zones

\* What is written back is a state of the cards again.
LEMMA WrittenOK ==
  ASSUME TypeInv, NEW cards \in [Deal -> Records], WriteBack(cards), table' = table
  PROVE  CardsOK'
<1>1. Flattened(cards) \in [Deal -> Records]
  BY FlattenedOK
<1>2. PICK new : new = Flattened(cards)
  OBVIOUS
<1>3. \A p, z : Pile(new, p, z) \subseteq Deal
  BY <1>1, <1>2 DEF Pile
<1>4. card' = new /\ strategy' = Piled(strategy, new)
  BY <1>2 DEF WriteBack
<1>5. strategy \in [Players -> PilesOf(Deal)]
  BY DEF TypeInv, CardsOK
<1>6. Piled(strategy, new) \in [Players -> PilesOf(Deal)]
  BY <1>3, <1>5 DEF Piled, PilesOf
<1> QED BY <1>1, <1>2, <1>4, <1>6 DEF CardsOK, Deal

\* A payment leaves nothing below zero.
LEMMA PaidOK ==
  ASSUME money \in [Players -> Nat], NEW p \in Players, NEW n \in Nat, Paid(p, n)
  PROVE  money' \in [Players -> Nat]
BY DEF Paid

\* A step of the cards, the board and the choice only.
LEMMA TalkKept ==
  ASSUME TypeInv, UNCHANGED <<table, window, veto, blocked, calls>>,
         phase' \in {"ACTION_STAGE_PLAN", "RESOLUTION_STAGE"},
         CardsOK', BoardOK', ChoiceOK'
  PROVE  TypeInv'
<1>1. WindowOK'
  BY DEF TypeInv, WindowOK, IsOpen, Deal
<1>2. VetoOK'
  BY DEF TypeInv, VetoOK, Deal, NoVeto
<1> QED BY <1>1, <1>2 DEF TypeInv

\* The choice stays as it is.
LEMMA ChoiceKept ==
  ASSUME TypeInv, UNCHANGED choice PROVE ChoiceOK'
BY DEF TypeInv, ChoiceOK, NoChoice

\* A choice that is closed, or asked of players.
LEMMA ChoiceAsked ==
  ASSUME \/ choice' = NoChoice
         \/ \E effect, source, groups : \E actor, chooser \in Players : \E target :
              Ask(effect, actor, chooser, target, source, groups)
         \/ \E effect, source, hand : \E q \in Players : AskForLimit(effect, q, source, hand)
  PROVE  ChoiceOK'
<1>1. CASE choice' = NoChoice
  BY <1>1 DEF ChoiceOK, NoChoice
<1>2. ASSUME NEW effect, NEW source, NEW groups, NEW actor \in Players, NEW chooser \in Players,
             NEW target, Ask(effect, actor, chooser, target, source, groups)
      PROVE  ChoiceOK'
  BY <1>2 DEF ChoiceOK, Ask
<1>3. ASSUME NEW effect, NEW source, NEW hand, NEW q \in Players,
             AskForLimit(effect, q, source, hand)
      PROVE  ChoiceOK'
  <2>1. choice'.chooser = q /\ choice'.actor = q /\ choice'.limit = TRUE
    BY <1>3 DEF AskForLimit
  <2> QED BY <2>1 DEF ChoiceOK
<1> QED BY <1>1, <1>2, <1>3

\* The effects that are done at once and go through the M2 engine.
LEMMA AtOnce ==
  ASSUME TypeInv, NEW p \in Players, NEW c \in DOMAIN card, table' = table,
         \/ PayEffect(p, c) \/ CyberTheft(p, c) \/ Budget(p, c)
         \/ \E q \in Players : Trade(p, c, q) \/ Corrupt(p, c, q) \/ Expose(p, c, q)
  PROVE  CardsOK' /\ BoardOK'
<1>1. /\ table \in Tables /\ card \in [Deal -> Records]
      /\ money \in [Players -> Nat] /\ points \in [Players -> Nat]
      /\ mat \in [Players -> SUBSET Deal]
  BY DEF TypeInv, CardsOK, BoardOK
<1>2. Discarded(card, {c}) \in [Deal -> Records]
  BY <1>1, DiscardedOK
<1>3. CASE PayEffect(p, c)
  <2>1. Price[c[2]] \in Nat
    BY <1>3 DEF PayEffect, Price
  <2>2. money' \in [Players -> Nat]
    BY <1>1, <1>3, <2>1, PaidOK DEF PayEffect
  <2>3. CardsOK'
    BY <1>2, <1>3, WrittenOK DEF PayEffect
  <2> QED BY <1>3, <2>2, <2>3 DEF PayEffect, TypeInv, BoardOK, Deal
<1>4. CASE CyberTheft(p, c)
  <2>1. CardsOK'
    BY <1>2, <1>4, WrittenOK DEF CyberTheft
  <2>2. money' \in [Players -> Nat]
    <3>1. PICK low \in SUBSET (Players \ {p}) :
            money' = [q \in Players |->
              CASE q = p -> money[p] + Cardinality({r \in low : money[r] > 0})
                [] q \in {r \in low : money[r] > 0} -> money[q] - 1
                [] OTHER -> money[q]]
      BY <1>4 DEF CyberTheft
    <3> DEFINE payers == {r \in low : money[r] > 0}
    <3>2. Cardinality(payers) \in Nat
      <4>1. payers \in SUBSET Players
        OBVIOUS
      <4> HIDE DEF payers
      <4> QED BY <4>1, PlayersFinite, FS_Subset, FS_CardinalityType
    <3>3. \A q \in payers : q \in Players /\ money[q] - 1 \in Nat
      BY <1>1
    <3>4. money' = [q \in Players |-> CASE q = p -> money[p] + Cardinality(payers)
                                       [] q \in payers -> money[q] - 1
                                       [] OTHER -> money[q]]
      BY <3>1
    <3> HIDE DEF payers
    <3> QED BY <1>1, <3>2, <3>3, <3>4
  <2> QED BY <1>4, <2>1, <2>2 DEF CyberTheft, TypeInv, BoardOK, Deal
<1>5. CASE Budget(p, c)
  <2>1. CardsOK'
    <3>1. Removed(card, c) \in [Deal -> Records]
      BY <1>1, RemovedOK
    <3> QED BY <1>5, <3>1, WrittenOK DEF Budget
  <2>2. money' \in [Players -> Nat]
    BY <1>1, <1>5 DEF Budget
  <2> QED BY <1>5, <2>1, <2>2 DEF Budget, TypeInv, BoardOK, Deal
<1>6. ASSUME NEW q \in Players, Trade(p, c, q) PROVE CardsOK' /\ BoardOK'
  <2>1. CardsOK'
    BY <1>2, <1>6, WrittenOK DEF Trade
  <2>2. money' \in [Players -> Nat]
    <3> DEFINE n == Min({2, money[q]})
    <3>1. n \in Nat /\ n <= money[q]
      <4>1. money[q] \in Nat /\ money[q] \in Int /\ 2 \in Int
        BY <1>1
      <4>2. n \in {2, money[q]} /\ n <= money[q]
        BY <4>1, OfTwo
      <4> HIDE DEF n
      <4> QED BY <4>1, <4>2
    <3>2. \/ money' = [money EXCEPT ![p] = @ + 2, ![q] = @ + 2]
          \/ money' = [money EXCEPT ![p] = @ + n, ![q] = @ - n]
      BY <1>6 DEF Trade
    <3>3. p # q
      BY <1>6 DEF Trade
    <3> HIDE DEF n
    <3> QED BY <1>1, <3>1, <3>2, <3>3
  <2> QED BY <1>6, <2>1, <2>2 DEF Trade, TypeInv, BoardOK, Deal
<1>7. ASSUME NEW q \in Players, Corrupt(p, c, q) PROVE CardsOK' /\ BoardOK'
  <2>1. CardsOK'
    BY <1>2, <1>7, WrittenOK DEF Corrupt
  <2>2. money' \in [Players -> Nat]
    BY <1>1, <1>7, PaidOK DEF Corrupt
  <2>3. points' \in [Players -> Nat]
    <3>1. Max({0, points[q] - 2}) \in Nat
      <4>1. points[q] - 2 \in Int /\ 0 \in Int
        BY <1>1
      <4>2. PICK m : m = Max({0, points[q] - 2})
        OBVIOUS
      <4>3. m \in {0, points[q] - 2} /\ m >= 0
        BY <4>1, <4>2, OfTwo
      <4> QED BY <4>1, <4>2, <4>3
    <3>2. points' = [points EXCEPT ![q] = Max({0, points[q] - 2})]
      BY <1>7 DEF Corrupt
    <3> QED BY <1>1, <3>1, <3>2
  <2> QED BY <1>7, <2>1, <2>2, <2>3 DEF Corrupt, TypeInv, BoardOK, Deal
<1>8. ASSUME NEW q \in Players, Expose(p, c, q) PROVE CardsOK' /\ BoardOK'
  <2>1. Discarded(card, mat[q]) \in [Deal -> Records]
    BY <1>1, DiscardedOK
  <2>2. Discarded(Discarded(card, mat[q]), {c}) \in [Deal -> Records]
    BY <1>1, <2>1, DiscardedOK
  <2>3. CardsOK'
    BY <1>8, <2>2, WrittenOK DEF Expose
  <2>4. money' \in [Players -> Nat]
    BY <1>1, <1>8, PaidOK DEF Expose
  <2>5. mat' \in [Players -> SUBSET Deal]
    BY <1>1, <1>8 DEF Expose
  <2> QED BY <1>8, <2>3, <2>4, <2>5 DEF Expose, TypeInv, BoardOK, Deal
<1> QED BY <1>3, <1>4, <1>5, <1>6, <1>7, <1>8

\* The policy shift draws a new hand.
LEMMA ShiftOK ==
  ASSUME TypeInv, NEW p \in Players, NEW c \in DOMAIN card, table' = table, PolicyShift(p, c)
  PROVE  CardsOK' /\ BoardOK'
<1> DEFINE hand == strategy[p].hand \ {c}
           home == {d \in hand : card[d].back /\ d[1] # p}
           gone == {d \in hand \ home : IsStarter(d)}
           pool == strategy[p].deck \cup strategy[p].discard \cup (hand \ (home \cup gone))
           new  == [strategy[p] EXCEPT !.hand = {}, !.discard = {}, !.deck = pool]
           hit(s) == pool \ s.deck
           zone(s, d) == IF d \in gone \cup {c} THEN "REMOVED_FROM_GAME"
                         ELSE IF d \in s.hand THEN "HAND"
                         ELSE IF d \in hit(s) THEN "DISCARD"
                         ELSE IF d \in pool THEN "OPERATIONS_DECK"
                         ELSE card[d].zone
           Shift(s) ==
             /\ strategy' = [q \in Players |->
                  IF q = p THEN s
                  ELSE [strategy[q] EXCEPT !.hand = @ \cup {d \in home : d[1] = q}]]
             /\ card' = [d \in DOMAIN card |->
                  IF d \in home THEN [by |-> d[1], zone |-> "HAND", back |-> FALSE]
                  ELSE [card[d] EXCEPT !.zone = zone(s, d)]]
<1>1. PICK n \in 0 .. Cardinality(pool) : \E s \in Drawn(new, n) : Shift(s)
  BY DEF PolicyShift
<1>2. PICK s \in Drawn(new, n) : Shift(s)
  BY <1>1
<1>3. /\ card \in [Deal -> Records] /\ DOMAIN card = Deal
      /\ strategy \in [Players -> PilesOf(Deal)]
      /\ \A d \in Deal : d[1] \in Players
      /\ \A d \in Deal : card[d] \in Records
  BY TableFacts DEF TypeInv, CardsOK
<1>4. hand \subseteq Deal /\ home \subseteq Deal /\ pool \subseteq Deal
  BY <1>3 DEF PilesOf
<1>5. s \in PilesOf(Deal)
  <2>1. new \in PilesOf(Deal)
    <3>1. strategy[p] \in PilesOf(Deal)
      BY <1>3
    <3>2. \A t \in PilesOf(Deal) : [t EXCEPT !.hand = {}, !.discard = {}, !.deck = pool] \in PilesOf(Deal)
      <4> HIDE DEF pool
      <4> QED BY <1>4 DEF PilesOf
    <3> HIDE DEF pool
    <3> QED BY <3>1, <3>2
  <2>2. n \in Nat
    BY <1>1
  <2> HIDE DEF new, pool
  <2> QED BY <1>2, <2>1, <2>2, DrawnPiles
<1>6. strategy' \in [Players -> PilesOf(Deal)]
  <2>1. \A q \in Players : [strategy[q] EXCEPT !.hand = @ \cup {d \in home : d[1] = q}]
                              \in PilesOf(Deal)
    <3> HIDE DEF home
    <3> QED BY <1>3, <1>4 DEF PilesOf
  <2> HIDE DEF home
  <2> QED BY <1>2, <1>5, <2>1
<1>7. card' \in [Deal -> Records]
  <2>1. \A d \in Deal : card'[d] \in Records
    <3> TAKE d \in Deal
    <3>1. [by |-> d[1], zone |-> "HAND", back |-> FALSE] \in Records
      BY <1>3 DEF Records, Zones
    <3>2. \A z \in Zones : [card[d] EXCEPT !.zone = z] \in Records
      BY <1>3 DEF Records
    <3>3. zone(s, d) \in Zones
      <4>1. {"REMOVED_FROM_GAME", "HAND", "DISCARD", "OPERATIONS_DECK"} \subseteq Zones
        BY DEF Zones
      <4>2. card[d].zone \in Zones
        BY <1>3 DEF Records
      <4> HIDE DEF gone, pool, hit
      <4> QED BY <4>1, <4>2
    <3>4. \/ card'[d] = [by |-> d[1], zone |-> "HAND", back |-> FALSE]
          \/ card'[d] = [card[d] EXCEPT !.zone = zone(s, d)]
      <4> HIDE DEF home, zone
      <4> QED BY <1>2, <1>3
    <3> HIDE DEF zone
    <3> QED BY <3>1, <3>2, <3>3, <3>4
  <2>2. card' = [d \in Deal |-> card'[d]]
    <3> HIDE DEF home, zone
    <3> QED BY <1>2, <1>3
  <2> QED BY <2>1, <2>2
<1>8. BoardOK'
  BY DEF PolicyShift, boardVars, TypeInv, BoardOK, Deal
<1> QED BY <1>6, <1>7, <1>8 DEF CardsOK, Deal

\* Three cards are drawn.
LEMMA DrawThreeOK ==
  ASSUME TypeInv, NEW p \in Players, NEW c \in DOMAIN card, table' = table, DrawThree(p, c)
  PROVE  CardsOK' /\ BoardOK' /\ ChoiceOK'
<1> DEFINE new == [strategy[p] EXCEPT !.hand = @ \ {c}, !.discard = @ \cup {c}]
           n == Min({3, Cardinality(strategy[p].deck)})
           off(s) == (strategy[p].deck \ s.deck) \cup ((strategy[p].hand \ {c}) \ s.hand)
           zone(s, d) == IF d \in off(s) \ {c} /\ d \in s.hand THEN "HAND"
                         ELSE IF d \in off(s) \cup {c} THEN "DISCARD" ELSE card[d].zone
<1>1. PICK s \in Drawn(new, n) :
        /\ strategy' = [strategy EXCEPT ![p] = s]
        /\ card' = [d \in DOMAIN card |->
             [card[d] EXCEPT !.zone = zone(s, d)]]
        /\ IF Cardinality(s.hand) > HandLimit THEN AskForLimit("draw", p, c, s.hand)
           ELSE UNCHANGED choice
  BY DEF DrawThree
<1>2. /\ card \in [Deal -> Records] /\ DOMAIN card = Deal
      /\ strategy \in [Players -> PilesOf(Deal)] /\ strategy[p] \in PilesOf(Deal)
      /\ \A d \in Deal : card[d] \in Records
  BY DEF TypeInv, CardsOK
<1>3. s \in PilesOf(Deal)
  <2>1. new \in PilesOf(Deal)
    <3>1. \A t \in PilesOf(Deal) : [t EXCEPT !.hand = @ \ {c}, !.discard = @ \cup {c}]
                                      \in PilesOf(Deal)
      BY <1>2 DEF PilesOf
    <3> QED BY <1>2, <3>1
  <2>2. n \in Nat
    <3>1. strategy[p].deck \subseteq Deal
      BY <1>2 DEF PilesOf
    <3>2. Cardinality(strategy[p].deck) \in Nat
      BY <3>1, TableFacts, FS_Subset, FS_CardinalityType DEF TypeInv
    <3>3. n \in {3, Cardinality(strategy[p].deck)}
      <4>1. 3 \in Int /\ Cardinality(strategy[p].deck) \in Int
        BY <3>2
      <4> QED BY <4>1, OfTwo
    <3> HIDE DEF n
    <3> QED BY <3>2, <3>3
  <2> HIDE DEF new, n
  <2> QED BY <1>1, <2>1, <2>2, DrawnPiles
<1>4. strategy' \in [Players -> PilesOf(Deal)]
  BY <1>1, <1>2, <1>3
<1>5. card' \in [Deal -> Records]
  <2>1. \A d \in Deal : card'[d] \in Records
    <3> TAKE d \in Deal
    <3>1. \A z \in Zones : [card[d] EXCEPT !.zone = z] \in Records
      BY <1>2 DEF Records
    <3>2. zone(s, d) \in Zones
      <4>1. {"HAND", "DISCARD"} \subseteq Zones
        BY DEF Zones
      <4>2. card[d].zone \in Zones
        BY <1>2 DEF Records
      <4> HIDE DEF off
      <4> QED BY <4>1, <4>2
    <3>3. card'[d] = [card[d] EXCEPT !.zone = zone(s, d)]
      <4> HIDE DEF zone
      <4> QED BY <1>1, <1>2
    <3> HIDE DEF zone
    <3> QED BY <3>1, <3>2, <3>3
  <2>2. card' = [d \in Deal |-> card'[d]]
    <3> HIDE DEF zone
    <3> QED BY <1>1, <1>2
  <2> QED BY <2>1, <2>2
<1>6. BoardOK'
  BY DEF DrawThree, boardVars, TypeInv, BoardOK, Deal
<1>7. ChoiceOK'
  BY <1>1, ChoiceKept, ChoiceAsked
<1> QED BY <1>4, <1>5, <1>6, <1>7 DEF CardsOK, Deal

\* An effect that asks leaves cards and board, but for the honey pot that
\* finds nothing to take.
LEMMA AskingOK ==
  ASSUME TypeInv, NEW p \in Players, NEW c \in DOMAIN card, table' = table,
         Search(p, c) \/ \E q \in Players : Request(p, c, q) \/ Honeypot(p, c, q)
  PROVE  CardsOK' /\ BoardOK' /\ ChoiceOK'
<1>1. UNCHANGED <<cardVars, table>> => CardsOK'
  BY DEF TypeInv, CardsOK, cardVars, Deal
<1>2. UNCHANGED <<boardVars, table>> => BoardOK'
  BY DEF TypeInv, BoardOK, boardVars, Deal
<1>3. CASE Search(p, c)
  <2>1. ChoiceOK'
    BY <1>3, ChoiceAsked DEF Search
  <2> QED BY <1>1, <1>2, <1>3, <2>1 DEF Search
<1>4. ASSUME NEW q \in Players, Request(p, c, q) PROVE CardsOK' /\ BoardOK' /\ ChoiceOK'
  <2>1. \E effect, groups : Ask(effect, p, p, q, c, groups) \/ Ask(effect, p, p, p, c, groups)
    BY <1>4 DEF Request
  <2>2. ChoiceOK'
    BY <2>1, ChoiceAsked
  <2> QED BY <1>1, <1>2, <1>4, <2>2 DEF Request
<1>5. ASSUME NEW q \in Players, Honeypot(p, c, q) PROVE CardsOK' /\ BoardOK' /\ ChoiceOK'
  <2>1. CASE \E effect, groups : Ask(effect, p, q, q, c, groups) /\ UNCHANGED cardVars
    <3>1. ChoiceOK'
      BY <2>1, ChoiceAsked
    <3> QED BY <1>1, <1>2, <1>5, <2>1, <3>1 DEF Honeypot
  <2>2. CASE WriteBack(Discarded(card, {c})) /\ UNCHANGED choice
    <3>1. Discarded(card, {c}) \in [Deal -> Records]
      BY DiscardedOK DEF TypeInv, CardsOK
    <3>2. CardsOK'
      BY <2>2, <3>1, WrittenOK
    <3> QED BY <1>2, <1>5, <2>2, <3>2, ChoiceKept DEF Honeypot
  <2> QED BY <1>5, <2>1, <2>2 DEF Honeypot
<1> QED BY <1>3, <1>4, <1>5

\* A card is played for its effect.
LEMMA EffectStep ==
  ASSUME TypeInv, NEW p \in Players, NEW c \in DOMAIN card, PlayEffect(p, c)
  PROVE  TypeInv'
<1>1. /\ UNCHANGED <<table, window, veto, blocked, calls>>
      /\ phase' \in {"ACTION_STAGE_PLAN", "RESOLUTION_STAGE"}
  BY DEF PlayEffect, talkVars, runVars, TypeInv
<1>2. CardsOK' /\ BoardOK' /\ ChoiceOK'
  <2>1. \/ /\ \/ PayEffect(p, c) \/ CyberTheft(p, c) \/ Budget(p, c) \/ PolicyShift(p, c)
              \/ \E q \in Players : Trade(p, c, q) \/ Corrupt(p, c, q) \/ Expose(p, c, q)
           /\ UNCHANGED choice
        \/ DrawThree(p, c)
        \/ Search(p, c) \/ \E q \in Players : Request(p, c, q) \/ Honeypot(p, c, q)
    BY DEF PlayEffect
  <2> QED BY <1>1, <2>1, AtOnce, ShiftOK, DrawThreeOK, AskingOK, ChoiceKept
<1> QED BY <1>1, <1>2, TalkKept

\* The answers to a choice.
LEMMA AnswerStep ==
  ASSUME TypeInv, NEW p \in Players, Answer(p)
  PROVE  TypeInv'
<1>1. /\ UNCHANGED <<table, window, veto, blocked, calls>>
      /\ phase' \in {"ACTION_STAGE_PLAN", "RESOLUTION_STAGE"}
      /\ choice # NoChoice
  BY DEF Answer, talkVars, runVars, TypeInv
<1>2. /\ card \in [Deal -> Records] /\ DOMAIN card = Deal
      /\ strategy \in [Players -> PilesOf(Deal)] /\ strategy[p] \in PilesOf(Deal)
      /\ \A d \in Deal : card[d] \in Records
      /\ money \in [Players -> Nat] /\ choice.actor \in Players
  BY <1>1 DEF TypeInv, CardsOK, BoardOK, ChoiceOK
<1>3. \A d \in Deal : \A z \in Zones : [card[d] EXCEPT !.zone = z] \in Records
  BY <1>2 DEF Records
<1>4. /\ {"REMOVED_FROM_GAME", "HAND", "DISCARD", "OPERATIONS_DECK"} \subseteq Zones
      /\ \A d \in Deal : card[d].zone \in Zones
  BY <1>2 DEF Zones, Records
<1>5. PICK s \in Picks : \/ AnswerSearch(p, s) \/ AnswerSwap(p, s)
                         \/ AnswerSpy(s) \/ AnswerDiscard(s) \/ AnswerRetrieve(s)
  BY DEF Answer
<1>6. ASSUME NEW cards \in [Deal -> Records], Settle(cards)
      PROVE  CardsOK' /\ ChoiceOK' /\ UNCHANGED <<points, mat, holder>>
  <2>1. Discarded(cards, {choice.source}) \in [Deal -> Records]
    BY <1>6, DiscardedOK DEF TypeInv
  <2>2. CardsOK'
    BY <1>1, <1>6, <2>1, WrittenOK DEF Settle
  <2> QED BY <1>6, <2>2, ChoiceAsked DEF Settle
<1>7. money' \in [Players -> Nat] /\ UNCHANGED <<points, mat, holder>> => BoardOK'
  BY <1>1 DEF TypeInv, BoardOK, Deal
<1>8. CASE AnswerSearch(p, s)
  <2>1. BoardOK'
    BY <1>2, <1>7, <1>8 DEF AnswerSearch, boardVars
  <2>2. ChoiceOK'
    BY <1>8, ChoiceAsked DEF AnswerSearch
  <2>3. card' \in [Deal -> Records]
    <3> DEFINE zone(d) == IF d \in s[1] THEN "HAND"
                       ELSE IF d = choice.source THEN "REMOVED_FROM_GAME"
                       ELSE card[d].zone
    <3>1. card' = [d \in Deal |-> [card[d] EXCEPT !.zone = zone(d)]]
      BY <1>2, <1>8 DEF AnswerSearch
    <3>2. \A d \in Deal : zone(d) \in Zones
      BY <1>4
    <3> HIDE DEF zone
    <3> QED BY <1>3, <3>1, <3>2
  <2>4. strategy' \in [Players -> PilesOf(Deal)]
    <3> DEFINE hand == (strategy[p].hand \ {choice.source}) \cup s[1]
    <3>1. strategy' = [strategy EXCEPT ![p].deck = @ \ s[1], ![p].hand = hand]
          /\ s[1] \subseteq strategy[p].deck
      BY <1>8 DEF AnswerSearch
    <3>2. strategy[p].deck \subseteq Deal /\ strategy[p].hand \subseteq Deal
      BY <1>2 DEF PilesOf
    <3>3. hand \subseteq Deal /\ strategy[p].deck \ s[1] \subseteq Deal
      BY <3>1, <3>2
    <3> HIDE DEF hand
    <3>4. PICK deck : deck = strategy[p].deck \ s[1]
      OBVIOUS
    <3>5. strategy' = [strategy EXCEPT ![p].deck = deck, ![p].hand = hand]
      BY <3>1, <3>4
    <3>6. [strategy[p] EXCEPT !.deck = deck, !.hand = hand] \in PilesOf(Deal)
      BY <1>2, <3>3, <3>4 DEF PilesOf
    <3>7. strategy' = [strategy EXCEPT ![p] = [strategy[p] EXCEPT !.deck = deck, !.hand = hand]]
      BY <1>2, <3>5
    <3> QED BY <1>2, <3>6, <3>7
  <2> QED BY <1>1, <2>1, <2>2, <2>3, <2>4, TalkKept DEF CardsOK, Deal
<1>9. CASE AnswerSwap(p, s)
  <2>1. BoardOK'
    BY <1>2, <1>7, <1>9, PaidOK DEF AnswerSwap
  <2>2. ChoiceOK'
    BY <1>9, ChoiceAsked DEF AnswerSwap
  <2>3. card' \in [Deal -> Records]
    <3> DEFINE zone(d) == IF d = choice.source THEN "DISCARD"
                       ELSE IF d \in s[2] THEN "OPERATIONS_DECK"
                       ELSE IF d \in s[1] THEN "HAND" ELSE card[d].zone
    <3>1. card' = [d \in Deal |-> [card[d] EXCEPT !.zone = zone(d)]]
      BY <1>2, <1>9 DEF AnswerSwap
    <3>2. \A d \in Deal : zone(d) \in Zones
      BY <1>4
    <3> HIDE DEF zone
    <3> QED BY <1>3, <3>1, <3>2
  <2>4. strategy' \in [Players -> PilesOf(Deal)]
    <3> DEFINE new == [hand    |-> (strategy[p].hand \ (s[2] \cup {choice.source})) \cup s[1],
                       deck    |-> (strategy[p].deck \ s[1]) \cup s[2],
                       discard |-> strategy[p].discard \cup {choice.source}]
    <3>1. /\ strategy' = [strategy EXCEPT ![p] = new]
          /\ s[1] \subseteq strategy[p].deck
          /\ s[2] \cup {choice.source} \subseteq strategy[p].hand
      BY <1>9 DEF AnswerSwap
    <3>2. new \in PilesOf(Deal)
      BY <1>2, <3>1 DEF PilesOf
    <3> HIDE DEF new
    <3> QED BY <1>2, <3>1, <3>2
  <2> QED BY <1>1, <2>1, <2>2, <2>3, <2>4, TalkKept DEF CardsOK, Deal
<1>10. CASE AnswerSpy(s)
  <2> DEFINE taken == [d \in Deal |->
                  IF d \in s[1] THEN [by |-> choice.actor, zone |-> "HAND",
                                      back |-> d[1] # choice.actor]
                  ELSE card[d]]
  <2>1. Settle(taken) /\ UNCHANGED money
    BY <1>2, <1>10 DEF AnswerSpy
  <2>2. taken \in [Deal -> Records]
    BY <1>2, <1>4 DEF Records
  <2> HIDE DEF taken
  <2> QED BY <1>1, <1>2, <1>6, <1>7, <2>1, <2>2, TalkKept
<1>11. CASE AnswerDiscard(s)
  <2>1. Settle(Discarded(card, s[1])) /\ money' \in [Players -> Nat]
    BY <1>2, <1>11, PaidOK DEF AnswerDiscard
  <2>2. Discarded(card, s[1]) \in [Deal -> Records]
    BY <1>2, DiscardedOK DEF TypeInv
  <2> QED BY <1>1, <1>2, <1>6, <1>7, <2>1, <2>2, TalkKept
<1>12. CASE AnswerRetrieve(s)
  <2> DEFINE thrown == Discarded(card, s[1])
             back == [d \in Deal |-> IF d \in s[2] THEN [thrown[d] EXCEPT !.zone = "HAND"]
                                     ELSE thrown[d]]
  <2>1. Settle(back) /\ UNCHANGED money
    BY <1>2, <1>12 DEF AnswerRetrieve
  <2>2. back \in [Deal -> Records]
    <3>1. thrown \in [Deal -> Records]
      BY <1>2, DiscardedOK DEF TypeInv
    <3> HIDE DEF thrown
    <3> QED BY <3>1 DEF Records, Zones
  <2> HIDE DEF back
  <2> QED BY <1>1, <1>2, <1>6, <1>7, <2>1, <2>2, TalkKept
<1> QED BY <1>5, <1>8, <1>9, <1>10, <1>11, <1>12

\* Who may react: the others, in order.
LEMMA AfterOK ==
  ASSUME NEW order \in Seq(Players), NEW p \in Range(order)
  PROVE  After(order, p) \in Seq(Players)
<1> DEFINE k == CHOOSE i \in DOMAIN order : order[i] = p
           v == SubSeq(order, k + 1, Len(order))
           w == SubSeq(order, 1, k - 1)
<1>1. k \in 1 .. Len(order) /\ Len(order) \in Nat /\ DOMAIN order = 1 .. Len(order)
  <2>1. \E i \in DOMAIN order : order[i] = p
    BY DEF Range
  <2>2. k \in DOMAIN order
    BY <2>1
  <2> QED BY <2>2, LenProperties
<1> HIDE DEF k
<1>2. \A i \in 1 .. Len(order) : order[i] \in Players
  BY ElementOfSeq
<1>3. v \in Seq(Players)
  BY <1>1, <1>2, SubSeqProperties
<1>4. w \in Seq(Players)
  BY <1>1, <1>2, SubSeqProperties
<1>5. v \o w \in Seq(Players)
  <2> HIDE DEF v, w
  <2> QED BY <1>3, <1>4, ConcatProperties
<1> QED BY <1>5 DEF After, k

\* A window that opens is one.
LEMMA OpenedOK ==
  ASSUME NEW trigger \in Triggers, NEW order \in Seq(Players), NEW p \in Range(order),
         p \in Players, NEW c \in Deal \cup {<<Nobody, "NONE">>}, table' = table,
         window' = Opened(trigger, p, order, c)
  PROVE  WindowOK'
<1>1. PICK v : v = After(order, p)
  OBVIOUS
<1>2. v \in Seq(Players) /\ Len(v) \in Nat
  BY <1>1, AfterOK, LenProperties
<1>3. window' = [status |-> "WAITING_FOR_PRIORITY_PLAYER", trigger |-> trigger, by |-> p,
                 priority |-> v, next |-> 1, card |-> c, refused |-> {}]
  BY <1>1 DEF Opened
<1> QED BY <1>2, <1>3 DEF WindowOK, IsOpen, Deal

\* A window that is closed, or whose refusals change.
LEMMA WindowShut ==
  ASSUME WindowOK, table' = table,
         \/ window' = window
         \/ window' = NoWindow
         \/ window' = [window EXCEPT !.status = "CLOSED"]
         \/ \E S \in SUBSET Players : window' = [window EXCEPT !.refused = S]
  PROVE  WindowOK'
<1>1. CASE window' = window
  BY <1>1 DEF WindowOK, IsOpen, Deal
<1>2. CASE window' = NoWindow
  <2>1. PICK v : v = <<>>
    OBVIOUS
  <2>2. v \in Seq(Players) /\ Len(v) = 0
    BY <2>1
  <2>3. window' = [status |-> "NONE", trigger |-> "NONE", by |-> Nobody, priority |-> v,
                   next |-> 1, card |-> <<Nobody, "NONE">>, refused |-> {}]
    BY <1>2, <2>1 DEF NoWindow
  <2> QED BY <2>2, <2>3 DEF WindowOK, IsOpen
<1>3. CASE window' = [window EXCEPT !.status = "CLOSED"]
  BY <1>3 DEF WindowOK, IsOpen, Deal
<1>4. ASSUME NEW S \in SUBSET Players, window' = [window EXCEPT !.refused = S]
      PROVE  WindowOK'
  BY <1>4 DEF WindowOK, IsOpen, Deal
<1> QED BY <1>1, <1>2, <1>3, <1>4

\* The cards, the board, the choice and the veto stay as they are.
LEMMA Stays ==
  ASSUME TypeInv, table' = table
  PROVE  /\ UNCHANGED cardVars => CardsOK'
         /\ UNCHANGED boardVars => BoardOK'
         /\ UNCHANGED veto => VetoOK'
BY DEF TypeInv, CardsOK, BoardOK, VetoOK, Deal, NoVeto, cardVars, boardVars

\* Windows are opened, passed and reviewed.
LEMMA WindowStep ==
  ASSUME TypeInv,
         \/ \E p \in Players : Pass(p) \/ \E t \in Triggers : OpenWindow(p, t)
         \/ \E reject \in BOOLEAN : ReviewAbuse(reject)
  PROVE  TypeInv'
<1>1. /\ UNCHANGED <<table, phase, cardVars, boardVars, choice, veto, blocked>>
      /\ calls' \in [windows : 0 .. table.windows, ops : 0 .. table.ops]
  <2>1. calls \in [windows : 0 .. table.windows, ops : 0 .. table.ops] /\ table.windows \in Nat
    BY TableFacts DEF TypeInv
  <2>2. ASSUME NEW p \in Players, NEW t \in Triggers, OpenWindow(p, t)
        PROVE  calls' \in [windows : 0 .. table.windows, ops : 0 .. table.ops]
    BY <2>1, <2>2 DEF OpenWindow
  <2> QED BY <2>1, <2>2 DEF Pass, OpenWindow, ReviewAbuse, runVars
<1>2. WindowOK'
  <2>1. ASSUME NEW p \in Players, Pass(p) PROVE WindowOK'
    <3>1. /\ WindowOK /\ window.next \in DOMAIN window.priority
          /\ window' = [window EXCEPT !.next = @ + 1,
                  !.status = IF window.next = Len(window.priority) THEN "CLOSED" ELSE @]
      BY <2>1 DEF Pass, HasPriority, TypeInv
    <3>2. window.next \in 1 .. Len(window.priority)
      BY <3>1, LenProperties DEF WindowOK
    <3>3. PICK z : z = IF window.next = Len(window.priority) THEN "CLOSED" ELSE window.status
      OBVIOUS
    <3>4. window' = [window EXCEPT !.next = window.next + 1, !.status = z]
      BY <3>1, <3>3
    <3>5. z \in {"CLOSED", window.status}
      BY <3>3
    <3>6. window.next + 1 \in Nat /\ window.next + 1 \in 1 .. Len(window.priority) + 1
      <4>1. Len(window.priority) \in Nat
        BY <3>1, LenProperties DEF WindowOK
      <4> QED BY <3>2, <4>1
    <3>7. /\ window'.status = z /\ window'.by = window.by
          /\ window'.next = window.next + 1 /\ window'.priority = window.priority
          /\ window' \in [status : {"NONE", "WAITING_FOR_PRIORITY_PLAYER", "CLOSED"},
                 trigger : {"NONE"} \cup Triggers, by : Players \cup {Nobody},
                 priority : Seq(Players), next : Nat, card : Deal \cup {<<Nobody, "NONE">>},
                 refused : SUBSET Players]
      BY <3>1, <3>4, <3>5, <3>6 DEF WindowOK
    <3>8. IsOpen' => window.by \in Players
      BY <3>1, <3>5, <3>7 DEF WindowOK, IsOpen
    <3> QED BY <1>1, <3>6, <3>7, <3>8 DEF WindowOK, Deal
  <2>2. ASSUME NEW p \in Players, NEW t \in Triggers, OpenWindow(p, t) PROVE WindowOK'
    <3>1. Order \in Seq(Players) /\ p \in Range(Order)
      BY OrderAssumption DEF OrderAssumption, Players
    <3>2. \E c \in Deal \cup {<<Nobody, "NONE">>} : window' = Opened(t, p, Order, c)
      BY <2>2 DEF OpenWindow, TypeInv, CardsOK
    <3> QED BY <1>1, <3>1, <3>2, OpenedOK
  <2>3. ASSUME NEW reject \in BOOLEAN, ReviewAbuse(reject) PROVE WindowOK'
    <3>1. WindowOK
      BY DEF TypeInv
    <3>2. /\ window.refused \subseteq Players
          /\ window.next <= Len(window.priority) => window.priority[window.next] \in Players
      <4>1. /\ window.priority \in Seq(Players) /\ window.refused \subseteq Players
            /\ window.next \in Nat /\ window.next >= 1
        BY <3>1 DEF WindowOK
      <4> QED BY <4>1
    <3>3. \E S \in SUBSET Players : window' = [window EXCEPT !.refused = S]
      BY <2>3, <3>2 DEF ReviewAbuse
    <3> QED BY <1>1, <3>1, <3>3, WindowShut
  <2> QED BY <2>1, <2>2, <2>3
<1> QED BY <1>1, <1>2, Stays, ChoiceKept DEF TypeInv

\* A reaction is played.
LEMMA ReactStep ==
  ASSUME TypeInv, NEW p \in Players, NEW c \in DOMAIN card, React(p, c)
  PROVE  TypeInv'
<1>1. /\ UNCHANGED <<table, phase, money, points, holder, choice, blocked, calls>>
      /\ IsOpen /\ c[2] \in DOMAIN Reaction
      /\ Negate(p, c) \/ FirstRefusal(p, c) \/ Intercept(p, c) \/ HackBack(p, c) \/ Object(p, c)
  BY DEF React, HasPriority, runVars
<1>2. /\ table \in Tables /\ card \in [Deal -> Records] /\ c \in Deal
      /\ window.by \in Players /\ WindowOK
      /\ mat \in [Players -> SUBSET Deal]
  BY <1>1 DEF TypeInv, CardsOK, WindowOK, BoardOK
<1>3. Discarded(card, {c}) \in [Deal -> Records]
  BY <1>2, DiscardedOK
<1>4. mat' \in [Players -> SUBSET Deal] => BoardOK'
  BY <1>1 DEF TypeInv, BoardOK, Deal
<1>5. CASE Negate(p, c)
  <2>1. CardsOK'
    BY <1>1, <1>3, <1>5, WrittenOK DEF Negate
  <2>2. WindowOK' /\ VetoOK' /\ BoardOK'
    BY <1>1, <1>2, <1>4, <1>5, WindowShut, Stays DEF Negate
  <2> QED BY <1>1, <2>1, <2>2, ChoiceKept DEF TypeInv
<1>6. CASE FirstRefusal(p, c)
  <2>1. CardsOK'
    <3>1. Discarded(Discarded(card, {c}), mat[window.by]) \in [Deal -> Records]
      BY <1>2, <1>3, DiscardedOK
    <3> QED BY <1>1, <1>3, <1>6, <3>1, WrittenOK DEF FirstRefusal
  <2>2. mat' \in [Players -> SUBSET Deal]
    BY <1>2, <1>6 DEF FirstRefusal
  <2>3. WindowOK' /\ VetoOK'
    BY <1>1, <1>2, <1>6, WindowShut, Stays DEF FirstRefusal
  <2> QED BY <1>1, <1>4, <2>1, <2>2, <2>3, ChoiceKept DEF TypeInv
<1>7. CASE Intercept(p, c)
  <2>1. CardsOK'
    <3>1. Discarded(card, {c, window.card}) \in [Deal -> Records]
      BY <1>2, DiscardedOK
    <3> QED BY <1>1, <1>7, <3>1, WrittenOK DEF Intercept
  <2>2. WindowOK' /\ VetoOK' /\ BoardOK'
    BY <1>1, <1>2, <1>4, <1>7, WindowShut, Stays DEF Intercept
  <2> QED BY <1>1, <2>1, <2>2, ChoiceKept DEF TypeInv
<1>8. CASE HackBack(p, c)
  <2>1. CardsOK'
    BY <1>1, <1>3, <1>8, WrittenOK DEF HackBack
  <2>2. WindowOK'
    <3>1. PICK order : order = <<p, window.by>>
      OBVIOUS
    <3>2. order \in Seq(Players) /\ p \in Range(order)
      BY <1>2, <3>1 DEF Range
    <3>3. window' = Opened("HACK_BACK", p, order, c)
      BY <1>8, <3>1 DEF HackBack
    <3>4. "HACK_BACK" \in Triggers
      BY DEF Triggers, TriggerCard
    <3> QED BY <1>1, <1>2, <3>2, <3>3, <3>4, OpenedOK
  <2>3. VetoOK' /\ BoardOK'
    BY <1>1, <1>2, <1>4, <1>8, Stays DEF HackBack
  <2> QED BY <1>1, <2>1, <2>2, <2>3, ChoiceKept DEF TypeInv
<1>9. CASE Object(p, c)
  <2>1. CardsOK'
    BY <1>1, <1>2, <1>9, WrittenOK DEF Object
  <2>2. WindowOK' /\ BoardOK'
    BY <1>1, <1>2, <1>4, <1>9, WindowShut DEF Object
  <2>3. VetoOK'
    <3>1. veto' = [status |-> "AWAITING_DEFENSE", card |-> c, by |-> p, of |-> window.by,
                   votes |-> [q \in Players |-> "NONE"]]
      BY <1>9 DEF Object, NoVeto
    <3>2. IsStarter(c)
      BY <1>9, VetoAssumption DEF Object, VetoAssumption, IsStarter
    <3> QED BY <1>1, <1>2, <3>1, <3>2 DEF VetoOK, Deal
  <2> QED BY <1>1, <2>1, <2>2, <2>3, ChoiceKept DEF TypeInv
<1> QED BY <1>1, <1>5, <1>6, <1>7, <1>8, <1>9

\* What the last vote leaves.
LEMMA VerdictOK ==
  ASSUME TypeInv, table' = table, veto # NoVeto, NEW votes, Verdict(votes)
  PROVE  /\ CardsOK' /\ WindowOK' /\ veto' = NoVeto
         /\ mat' \in [Players -> SUBSET Deal]
         /\ blocked' \subseteq Players
<1>1. /\ table \in Tables /\ card \in [Deal -> Records] /\ WindowOK
      /\ mat \in [Players -> SUBSET Deal] /\ blocked \subseteq Players
      /\ veto.of \in Players
  BY DEF TypeInv, CardsOK, BoardOK, VetoOK
<1> DEFINE spent == Removed(Discarded(card, {veto.card}), veto.card)
<1>2. spent \in [Deal -> Records]
  BY <1>1, DiscardedOK, RemovedOK
<1>3. veto' = NoVeto
  BY DEF Verdict
<1>4. CASE Rejects(votes)
  <2>1. /\ WriteBack(Discarded(spent, mat[veto.of]))
        /\ mat' = [mat EXCEPT ![veto.of] = {}]
        /\ blocked' = blocked \cup {veto.of}
        /\ window' = NoWindow
    BY <1>4 DEF Verdict
  <2>2. Discarded(spent, mat[veto.of]) \in [Deal -> Records]
    <3> HIDE DEF spent
    <3> QED BY <1>1, <1>2, DiscardedOK
  <2>3. CardsOK'
    <3> HIDE DEF spent
    <3> QED BY <2>1, <2>2, WrittenOK
  <2>4. WindowOK'
    BY <1>1, <2>1, WindowShut
  <2> QED BY <1>1, <1>3, <2>1, <2>3, <2>4
<1>5. CASE ~ Rejects(votes)
  <2>1. /\ WriteBack(spent)
        /\ window' = Opened("NARRATIVE", veto.of, Order, <<Nobody, "NONE">>)
        /\ UNCHANGED <<mat, blocked>>
    BY <1>5 DEF Verdict
  <2>2. CardsOK'
    <3> HIDE DEF spent
    <3> QED BY <1>2, <2>1, WrittenOK
  <2>3. WindowOK'
    <3>1. Order \in Seq(Players) /\ veto.of \in Range(Order) /\ "NARRATIVE" \in Triggers
      BY <1>1, OrderAssumption DEF OrderAssumption, Players, Triggers
    <3> QED BY <1>1, <2>1, <3>1, OpenedOK
  <2> QED BY <1>1, <1>3, <2>1, <2>2, <2>3
<1> QED BY <1>4, <1>5

\* The veto is defended and voted on.
LEMMA VetoStep ==
  ASSUME TypeInv,
         \E p \in Players : Defend(p) \/ \E v \in {"ACCEPTABLE", "UNACCEPTABLE"} : Vote(p, v)
  PROVE  TypeInv'
<1>1. ASSUME NEW p \in Players, Defend(p) PROVE TypeInv'
  <2>1. /\ UNCHANGED <<table, phase, cardVars, boardVars, choice, window, blocked, calls>>
        /\ veto.status = "AWAITING_DEFENSE" /\ veto' = [veto EXCEPT !.status = "VOTING"]
    BY <1>1 DEF Defend, runVars
  <2>2. VetoOK'
    <3>1. veto # NoVeto
      BY <2>1 DEF NoVeto
    <3> QED BY <2>1, <3>1 DEF TypeInv, VetoOK, Deal
  <2>3. WindowOK'
    BY <2>1, WindowShut DEF TypeInv
  <2> QED BY <2>1, <2>2, <2>3, Stays, ChoiceKept DEF TypeInv
<1>2. ASSUME NEW p \in Players, NEW v \in {"ACCEPTABLE", "UNACCEPTABLE"}, Vote(p, v)
      PROVE  TypeInv'
  <2> DEFINE votes == [veto.votes EXCEPT ![p] = v]
  <2>1. /\ UNCHANGED <<table, phase, money, points, holder, choice, calls>>
        /\ veto.status = "VOTING"
        /\ IF \E q \in Players : votes[q] = "NONE"
           THEN /\ veto' = [veto EXCEPT !.votes = votes]
                /\ UNCHANGED <<cardVars, mat, window, blocked>>
           ELSE Verdict(votes)
    BY <1>2 DEF Vote, runVars
  <2>2. veto # NoVeto
    BY <2>1 DEF NoVeto
  <2>3. mat' \in [Players -> SUBSET Deal] => BoardOK'
    BY <2>1 DEF TypeInv, BoardOK, Deal
  <2>4. CASE \E q \in Players : votes[q] = "NONE"
    <3>1. VetoOK'
      BY <2>1, <2>2, <2>4 DEF TypeInv, VetoOK, Deal
    <3>2. WindowOK'
      BY <2>1, <2>4, WindowShut DEF TypeInv
    <3>3. mat' \in [Players -> SUBSET Deal]
      BY <2>1, <2>4 DEF TypeInv, BoardOK
    <3> QED BY <2>1, <2>3, <2>4, <3>1, <3>2, <3>3, Stays, ChoiceKept DEF TypeInv
  <2>5. CASE ~ \E q \in Players : votes[q] = "NONE"
    <3>1. /\ CardsOK' /\ WindowOK' /\ veto' = NoVeto
          /\ mat' \in [Players -> SUBSET Deal]
          /\ blocked' \subseteq Players
      <4> HIDE DEF votes
      <4> QED BY <2>1, <2>2, <2>5, VerdictOK
    <3>2. VetoOK'
      BY <3>1 DEF VetoOK, NoVeto
    <3> QED BY <2>1, <2>3, <3>1, <3>2, ChoiceKept DEF TypeInv
  <2> QED BY <2>4, <2>5
<1> QED BY <1>1, <1>2

\* A core operation.
LEMMA OperateOK ==
  ASSUME TypeInv, NEW o \in Operations(table), table' = table, Operate(o)
  PROVE  CardsOK' /\ BoardOK'
<1>1. /\ table \in Tables /\ card \in [Deal -> Records]
      /\ money \in [Players -> Nat] /\ points \in [Players -> Nat]
      /\ mat \in [Players -> SUBSET Deal]
      /\ \A pd \in DOMAIN holder : holder[pd] \in Players \cup {Nobody}
      /\ o.by \in Players /\ (o.kind = "APPLY_BACKLASH" => o.amount \in Nat)
  BY TableFacts DEF TypeInv, CardsOK, BoardOK
<1>2. WriteBack(card) => CardsOK'
  BY <1>1, WrittenOK
<1>3. CASE o.kind = "APPLY_BACKLASH" /\ Backlash(o)
  <2>1. points' \in [Players -> Nat]
    <3>1. PICK placed \in 0 .. o.amount : points' = [points EXCEPT ![o.by] = Max({0, @ - placed})]
      BY <1>3 DEF Backlash
    <3>2. points[o.by] - placed \in Int /\ 0 \in Int
      BY <1>1, <1>3
    <3>3. PICK m : m = Max({0, points[o.by] - placed})
      OBVIOUS
    <3>4. m \in {0, points[o.by] - placed} /\ m >= 0
      BY <3>2, <3>3, OfTwo
    <3>5. m \in Nat /\ points' = [points EXCEPT ![o.by] = m]
      BY <3>1, <3>2, <3>3, <3>4
    <3> QED BY <1>1, <3>5
  <2> QED BY <1>1, <1>2, <1>3, <2>1 DEF Backlash, BoardOK, Deal
<1>4. CASE Establish(o)
  <2>1. points' \in [Players -> Nat]
    BY <1>1, <1>4 DEF Establish
  <2>2. \A pd \in DOMAIN holder' : holder'[pd] \in Players \cup {Nobody}
    BY <1>1, <1>4 DEF Establish
  <2> QED BY <1>1, <1>2, <1>4, <2>1, <2>2 DEF Establish, BoardOK, Deal
<1>5. CASE Modify(o)
  <2> DEFINE cards == [Discarded(card, {o.old}) EXCEPT ![o.new].zone = "CAMPAIGN"]
  <2>1. /\ WriteBack(cards) /\ UNCHANGED <<money, points, holder>>
        /\ mat' = [mat EXCEPT ![o.by] = (@ \ {o.old}) \cup {o.new}]
        /\ o.new \in Hand(o.by)
    BY <1>5 DEF Modify, Holds
  <2>2. cards \in [Deal -> Records]
    <3>1. Discarded(card, {o.old}) \in [Deal -> Records]
      BY <1>1, DiscardedOK
    <3>2. \A f \in [Deal -> Records] : [f EXCEPT ![o.new].zone = "CAMPAIGN"] \in [Deal -> Records]
      BY DEF Records, Zones
    <3> QED BY <3>1, <3>2
  <2>3. o.new \in Deal
    BY <1>1, <2>1 DEF Hand, Pile
  <2>4. mat' \in [Players -> SUBSET Deal]
    BY <1>1, <2>1, <2>3
  <2>5. CardsOK'
    <3> HIDE DEF cards
    <3> QED BY <2>1, <2>2, WrittenOK
  <2> QED BY <1>1, <2>1, <2>4, <2>5 DEF BoardOK, Deal
<1>6. CASE Dismantle(o)
  <2>1. Discarded(card, mat[o.by]) \in [Deal -> Records]
    BY <1>1, DiscardedOK
  <2>2. mat' \in [Players -> SUBSET Deal]
    BY <1>1, <1>6 DEF Dismantle
  <2>3. CardsOK'
    BY <1>6, <2>1, WrittenOK DEF Dismantle
  <2> QED BY <1>1, <1>6, <2>2, <2>3 DEF Dismantle, BoardOK, Deal
<1>7. CASE PlayStarter(o)
  <2>1. Removed(card, o.card) \in [Deal -> Records]
    BY <1>1, RemovedOK
  <2>2. money' \in [Players -> Nat]
    BY <1>1, <1>7 DEF PlayStarter
  <2>3. CardsOK'
    BY <1>7, <2>1, WrittenOK DEF PlayStarter
  <2> QED BY <1>1, <1>7, <2>2, <2>3 DEF PlayStarter, BoardOK, Deal
<1>8. CASE Steal(o)
  <2>1. PICK c \in Hand(o.from) :
          WriteBack([card EXCEPT ![c] = [by |-> o.by, zone |-> "HAND", back |-> TRUE]])
    BY <1>8 DEF Steal
  <2>2. [card EXCEPT ![c] = [by |-> o.by, zone |-> "HAND", back |-> TRUE]] \in [Deal -> Records]
    BY <1>1 DEF Records, Zones
  <2>3. CardsOK'
    BY <2>1, <2>2, WrittenOK
  <2> QED BY <1>1, <1>8, <2>3 DEF Steal, boardVars, BoardOK, Deal
<1> QED BY <1>3, <1>4, <1>5, <1>6, <1>7, <1>8 DEF Operate

\* An operation of a plan, and one of no plan.
LEMMA OperationStep ==
  ASSUME TypeInv,
         \/ \E o \in table.loose : Core(o)
         \/ \E id \in DOMAIN table.plans : \E k \in DOMAIN table.plans[id] : RunPlan(id, k)
  PROVE  TypeInv'
<1>1. /\ UNCHANGED <<table, phase, choice, talkVars>>
      /\ calls' \in [windows : 0 .. table.windows, ops : 0 .. table.ops]
      /\ \E o \in Operations(table) : Operate(o)
  <2>1. calls \in [windows : 0 .. table.windows, ops : 0 .. table.ops] /\ table.ops \in Nat
    BY TableFacts DEF TypeInv
  <2>2. ASSUME NEW o \in table.loose, Core(o)
        PROVE  /\ calls' \in [windows : 0 .. table.windows, ops : 0 .. table.ops]
               /\ o \in Operations(table) /\ Operate(o)
               /\ UNCHANGED <<table, phase, choice, talkVars>>
    BY <2>1, <2>2 DEF Core, Operations
  <2>3. ASSUME NEW id \in DOMAIN table.plans, NEW k \in DOMAIN table.plans[id], RunPlan(id, k)
        PROVE  /\ calls' = calls
               /\ table.plans[id][k] \in Operations(table) /\ Operate(table.plans[id][k])
               /\ UNCHANGED <<table, phase, choice, talkVars>>
    BY <2>3 DEF RunPlan, Operations, Range
  <2> QED BY <2>1, <2>2, <2>3
<1>2. CardsOK' /\ BoardOK'
  BY <1>1, OperateOK
<1>3. WindowOK' /\ VetoOK' /\ blocked' = blocked
  BY <1>1, WindowShut, Stays DEF talkVars, TypeInv
<1> QED BY <1>1, <1>2, <1>3, ChoiceKept DEF TypeInv

\* Every step keeps the types.
LEMMA TypeStep ==
  ASSUME TypeInv, [Next]_vars PROVE TypeInv'
<1>1. CASE UNCHANGED vars
  <2>1. UNCHANGED <<table, phase, cardVars, boardVars, choice, window, veto, blocked, calls>>
    BY <1>1 DEF vars, talkVars, runVars
  <2>2. WindowOK'
    BY <2>1, WindowShut DEF TypeInv
  <2> QED BY <2>1, <2>2, Stays, ChoiceKept DEF TypeInv
<1>2. CASE PlansLocked
  <2>1. UNCHANGED <<table, cardVars, boardVars, choice, window, veto, blocked, calls>>
    BY <1>2 DEF PlansLocked, talkVars, runVars
  <2>2. phase' \in {"ACTION_STAGE_PLAN", "RESOLUTION_STAGE"}
    BY <1>2 DEF PlansLocked
  <2>3. WindowOK'
    BY <2>1, WindowShut DEF TypeInv
  <2> QED BY <2>1, <2>2, <2>3, Stays, ChoiceKept DEF TypeInv
<1> QED BY <1>1, <1>2, EffectStep, AnswerStep, WindowStep, ReactStep, VetoStep, OperationStep
        DEF Next

\* The first state of a table.
LEMMA TypeInit == Init => TypeInv
<1> SUFFICES ASSUME Init PROVE TypeInv
  OBVIOUS
<1>1. /\ table \in Tables /\ table.phase \in {"ACTION_STAGE_PLAN", "RESOLUTION_STAGE"}
      /\ \A c \in Deal : c[1] \in Players /\ table.cards[c] \in Zones
      /\ table.money \in [Players -> Nat]
      /\ \A pd \in DOMAIN table.holder : table.holder[pd] \in Players \cup {Nobody}
      /\ table.windows \in Nat /\ table.ops \in Nat
  BY TablesAssumption DEF Init, TablesAssumption, Deal
<1>2. card \in [Deal -> Records]
  BY <1>1 DEF Init, Deal, Records
<1>3. \A p, z : Pile(card, p, z) \subseteq Deal
  BY <1>2 DEF Pile
<1>4. strategy \in [Players -> PilesOf(Deal)]
  BY <1>3 DEF Init, PilesOf
<1>5. BoardOK
  BY <1>1, <1>3 DEF Init, BoardOK
<1>6. WindowOK
  <2>1. PICK v : v = <<>>
    OBVIOUS
  <2>2. v \in Seq(Players) /\ Len(v) = 0
    BY <2>1
  <2>3. window = [status |-> "NONE", trigger |-> "NONE", by |-> Nobody, priority |-> v,
                  next |-> 1, card |-> <<Nobody, "NONE">>, refused |-> {}]
    BY <2>1 DEF Init, NoWindow
  <2> QED BY <2>2, <2>3 DEF WindowOK, IsOpen
<1>7. ChoiceOK /\ VetoOK
  BY DEF Init, ChoiceOK, VetoOK, NoChoice
<1>8. calls \in [windows : 0 .. table.windows, ops : 0 .. table.ops]
  BY <1>1 DEF Init
<1> QED BY <1>1, <1>2, <1>4, <1>5, <1>6, <1>7, <1>8 DEF Init, TypeInv, CardsOK

\* Every variable stays in its type; nobody pays what is not there, and no card
\* is anywhere but in the deal (executeM2Effect, submitM2EffectChoice,
\* executeM2CoreOperation).
THEOREM TypeCorrect == Spec => []TypeOK
<1>1. TypeInv /\ PlanInv => TypeOK
  <2> SUFFICES ASSUME TypeInv, PlanInv PROVE TypeOK
    OBVIOUS
  <2>1. Deal = Cards
    BY DEF TypeInv, CardsOK, Cards
  <2>2. veto.status \in {"NONE", "AWAITING_DEFENSE", "VOTING"}
    BY DEF TypeInv, VetoOK, NoVeto
  <2>3. plan.id \in DOMAIN table.plans \cup {"NONE"}
    <3>1. CASE ran = <<>>
      BY <3>1 DEF PlanInv, NoPlan
    <3>2. CASE ran # <<>>
      <4> DEFINE R == (DOMAIN table.plans) \X Nat
      <4>1. ran[Len(ran)] \in R
        <5>1. ran \in Seq(R)
          BY DEF PlanInv
        <5> HIDE DEF R
        <5>2. Len(ran) \in 1 .. Len(ran)
          BY <3>2, <5>1, EmptySeq, LenProperties
        <5> QED BY <5>1, <5>2, ElementOfSeq
      <4>2. plan.id = ran[Len(ran)][1]
        BY <3>2 DEF PlanInv
      <4> QED BY <4>1, <4>2
    <3> QED BY <3>1, <3>2
  <2>4. /\ card \in [Cards -> [by : Players, zone : Zones, back : BOOLEAN]]
        /\ strategy \in [Players -> [deck : SUBSET Cards, hand : SUBSET Cards,
                                     discard : SUBSET Cards]]
        /\ mat \in [Players -> SUBSET Cards]
    BY <2>1 DEF TypeInv, CardsOK, BoardOK, Records, PilesOf
  <2> QED BY <2>2, <2>3, <2>4 DEF TypeInv, BoardOK, ChoiceOK, WindowOK, TypeOK
<1>2. Init => PlanInv
  BY DEF Init, PlanInv, PlansDoNotInterleave
<1> QED BY <1>1, <1>2, TypeInit, TypeStep, PlanInvStep, PTL DEF Spec

(***************************************************************************)
(* The end of a veto.                                                      *)
(***************************************************************************)

\* Only a vote ends a veto.
LEMMA VetoEnds ==
  ASSUME TypeInv, [Next]_vars, veto # NoVeto, veto' = NoVeto
  PROVE  \E p \in Players : \E v \in {"ACCEPTABLE", "UNACCEPTABLE"} :
           Vote(p, v) /\ Verdict([veto.votes EXCEPT ![p] = v])
<1>1. veto' # veto
  OBVIOUS
<1>2. ASSUME NEW p \in Players, NEW c \in DOMAIN card, PlayEffect(p, c) \/ React(p, c)
      PROVE  FALSE
  BY <1>1, <1>2 DEF PlayEffect, React, Negate, FirstRefusal, Intercept, HackBack, Object, talkVars
<1>3. ASSUME NEW p \in Players, Answer(p) \/ Pass(p) PROVE FALSE
  BY <1>1, <1>3 DEF Answer, Pass, talkVars
<1>4. ASSUME NEW p \in Players, Defend(p) PROVE FALSE
  <2>1. veto' = [veto EXCEPT !.status = "VOTING"]
    BY <1>4 DEF Defend
  <2>2. veto'.status = "VOTING"
    BY <2>1 DEF TypeInv, VetoOK
  <2> QED BY <2>2 DEF NoVeto
<1>5. ASSUME NEW p \in Players, NEW t \in Triggers, OpenWindow(p, t) PROVE FALSE
  BY <1>1, <1>5 DEF OpenWindow
<1>6. ASSUME NEW reject \in BOOLEAN, ReviewAbuse(reject) PROVE FALSE
  BY <1>1, <1>6 DEF ReviewAbuse
<1>7. ASSUME \/ \E o \in table.loose : Core(o)
             \/ \E id \in DOMAIN table.plans : \E k \in DOMAIN table.plans[id] : RunPlan(id, k)
             \/ PlansLocked \/ UNCHANGED vars
      PROVE  FALSE
  BY <1>1, <1>7 DEF Core, RunPlan, PlansLocked, talkVars, vars
<1>8. PICK p \in Players, v \in {"ACCEPTABLE", "UNACCEPTABLE"} : Vote(p, v)
  BY <1>2, <1>3, <1>4, <1>5, <1>6, <1>7 DEF Next
<1>9. Verdict([veto.votes EXCEPT ![p] = v])
  <2> DEFINE votes == [veto.votes EXCEPT ![p] = v]
  <2>1. /\ veto.status = "VOTING"
        /\ IF \E q \in Players : votes[q] = "NONE"
           THEN veto' = [veto EXCEPT !.votes = votes]
           ELSE Verdict(votes)
    BY <1>8 DEF Vote
  <2>2. veto' # [veto EXCEPT !.votes = votes]
    <3>1. [veto EXCEPT !.votes = votes].status = "VOTING"
      BY <2>1 DEF TypeInv, VetoOK
    <3> QED BY <3>1 DEF NoVeto
  <2> QED BY <2>1, <2>2
<1> QED BY <1>8, <1>9

\* A strict majority is more than the others, and more than half.
LEMMA Majority ==
  ASSUME NEW votes
  PROVE  LET against == Cardinality({p \in Players : votes[p] = "UNACCEPTABLE"})
         IN  Rejects(votes) <=> against > Cardinality(Players) - against
<1> DEFINE against == Against(votes)
<1>1. Cardinality(against) \in Nat /\ Cardinality(Players) \in Nat
  <2>1. against \subseteq Players
    BY DEF Against
  <2> QED BY <2>1, PlayersFinite, FS_Subset, FS_CardinalityType
<1>2. Against(votes) = {p \in Players : votes[p] = "UNACCEPTABLE"}
  BY DEF Against
<1>3. \A a, n \in Int : 2 * a > n <=> a > n - a
  OBVIOUS
<1> HIDE DEF against
<1>4. Rejects(votes) <=> 2 * Cardinality(against) > Cardinality(Players)
  BY DEF Rejects, against
<1>5. Rejects(votes) <=> Cardinality(against) > Cardinality(Players) - Cardinality(against)
  BY <1>1, <1>3, <1>4
<1> QED BY <1>2, <1>5 DEF against

\* A veto ends with everybody's vote, whatever reactions, thefts and operations
\* came between the objection and the last vote: its card is out of the game,
\* and exactly a strict majority takes the campaign and blocks its owner
\* (castVetoVote, resolveVeto, applyVeto).
THEOREM Settled == Spec => VetoSettled
<1> DEFINE Majorities(last, v) ==
      LET votes == [veto.votes EXCEPT ![last] = v]
          against == Cardinality({p \in Players : votes[p] = "UNACCEPTABLE"})
          rejected == against > Cardinality(Players) - against
      IN  /\ \A p \in Players : votes[p] # "NONE"
          /\ card'[veto.card].zone = "REMOVED_FROM_GAME"
          /\ rejected <=> mat'[veto.of] # mat[veto.of]
          /\ rejected => veto.of \in blocked' /\ mat'[veto.of] = {}
<1>1. ASSUME TypeInv, [Next]_vars, veto # NoVeto, veto' = NoVeto
      PROVE  \E last \in Players, v \in {"ACCEPTABLE", "UNACCEPTABLE"} : Majorities(last, v)
  <2>1. PICK p \in Players, v \in {"ACCEPTABLE", "UNACCEPTABLE"} :
          Vote(p, v) /\ Verdict([veto.votes EXCEPT ![p] = v])
    BY <1>1, VetoEnds
  <2> DEFINE votes == [veto.votes EXCEPT ![p] = v]
             c == veto.card
             spent == Removed(Discarded(card, {c}), c)
  <2>2. /\ table \in Tables /\ card \in [Deal -> Records] /\ c \in Deal /\ IsStarter(c)
        /\ veto.of \in Players /\ mat \in [Players -> SUBSET Deal]
    BY <1>1 DEF TypeInv, CardsOK, BoardOK, VetoOK
  <2>3. \A q \in Players : votes[q] # "NONE"
    <3>1. CASE \E q \in Players : votes[q] = "NONE"
      <4>1. veto' = [veto EXCEPT !.votes = votes] /\ veto.status = "VOTING"
        BY <2>1, <3>1 DEF Vote
      <4>2. veto'.status = "VOTING"
        BY <1>1, <4>1 DEF TypeInv, VetoOK
      <4> QED BY <1>1, <4>2 DEF NoVeto
    <3> QED BY <3>1
  <2>4. /\ spent \in [Deal -> Records]
        /\ spent[c].zone = "REMOVED_FROM_GAME"
        /\ spent[c].back /\ spent[c].by # c[1] => FALSE
    <3>1. PICK thrown : thrown = Discarded(card, {c})
      OBVIOUS
    <3>2. thrown \in [Deal -> Records]
      BY <2>2, <3>1, DiscardedOK
    <3>3. thrown[c].back => thrown[c].by = c[1]
      BY <2>2, <3>1 DEF Discarded, Records
    <3>4. spent = [thrown EXCEPT ![c].zone = "REMOVED_FROM_GAME"]
      BY <3>1 DEF Removed
    <3>5. spent[c] = [thrown[c] EXCEPT !.zone = "REMOVED_FROM_GAME"]
      BY <2>2, <3>2, <3>4
    <3>6. thrown[c] \in Records
      BY <2>2, <3>2
    <3>7. spent \in [Deal -> Records]
      BY <3>2, <3>4 DEF Records, Zones
    <3> HIDE DEF spent
    <3> QED BY <3>3, <3>5, <3>6, <3>7 DEF Records
  <2>5. ASSUME NEW cards \in [Deal -> Records], cards[c].zone = "REMOVED_FROM_GAME",
               WriteBack(cards)
        PROVE  card'[c].zone = "REMOVED_FROM_GAME"
    <3>1. card' = Flattened(cards)
      BY <2>5 DEF WriteBack
    <3>2. Flattened(cards)[c] = cards[c]
      BY <2>2, <2>5 DEF Flattened
    <3> QED BY <2>5, <3>1, <3>2
  <2>6. CASE Rejects(votes)
    <3>1. /\ mat[veto.of] # {}
          /\ WriteBack(Discarded(spent, mat[veto.of]))
          /\ mat' = [mat EXCEPT ![veto.of] = {}]
          /\ blocked' = blocked \cup {veto.of}
      BY <2>1, <2>6 DEF Verdict
    <3>2. Discarded(spent, mat[veto.of])[c].zone = "REMOVED_FROM_GAME"
      <4> HIDE DEF spent
      <4>1. CASE c \notin mat[veto.of]
        <5>1. Discarded(spent, mat[veto.of])[c] = spent[c]
          BY <2>2, <2>4, <4>1 DEF Discarded
        <5> QED BY <2>4, <5>1
      <4>2. CASE c \in mat[veto.of]
        <5>1. c[2] # "falseIdentities" \/ spent[c].zone # "CAMPAIGN"
          BY <2>4
        <5>2. Discarded(spent, mat[veto.of])[c] = [spent[c] EXCEPT !.zone = "REMOVED_FROM_GAME"]
          BY <2>2, <2>4, <4>2, <5>1 DEF Discarded
        <5>3. spent[c] \in Records
          BY <2>2, <2>4
        <5> QED BY <5>2, <5>3 DEF Records
      <4> QED BY <4>1, <4>2
    <3>3. Discarded(spent, mat[veto.of]) \in [Deal -> Records]
      <4> HIDE DEF spent
      <4> QED BY <2>2, <2>4, DiscardedOK
    <3>4. card'[c].zone = "REMOVED_FROM_GAME"
      <4> HIDE DEF spent, c
      <4> QED BY <2>5, <3>1, <3>2, <3>3
    <3>5. mat'[veto.of] = {} /\ mat'[veto.of] # mat[veto.of] /\ veto.of \in blocked'
      BY <2>2, <3>1
    <3>6. Majorities(p, v)
      <4> HIDE DEF spent
      <4> QED BY <2>3, <2>6, <3>4, <3>5, Majority
    <3> HIDE DEF Majorities
    <3> QED BY <3>6
  <2>7. CASE ~ Rejects(votes)
    <3>1. WriteBack(spent) /\ mat' = mat
      BY <2>1, <2>7 DEF Verdict
    <3>2. card'[c].zone = "REMOVED_FROM_GAME"
      <4> HIDE DEF spent, c
      <4> QED BY <2>4, <2>5, <3>1
    <3>3. Majorities(p, v)
      <4> HIDE DEF spent
      <4> QED BY <2>3, <2>7, <3>1, <3>2, Majority
    <3> HIDE DEF Majorities
    <3> QED BY <3>3
  <2> QED BY <2>6, <2>7
<1>2. TypeInv /\ [Next]_vars =>
        [veto # NoVeto /\ veto' = NoVeto =>
           \E last \in Players, v \in {"ACCEPTABLE", "UNACCEPTABLE"} : Majorities(last, v)]_vars
  <2> HIDE DEF Majorities
  <2> QED BY <1>1
<1> QED BY <1>2, TypeInit, TypeStep, PTL DEF Spec, VetoSettled

(***************************************************************************)
(* The lists of the players and the records of the cards.                  *)
(***************************************************************************)

\* The hands alone.
HandExact(c) == \A p \in Players : c \in strategy[p].hand <=> Holds(p, c)

\* While plans are made, every card is in place, none has been taken from
\* anybody, and no starter is in a deck or a discard pile.
Planned ==
  phase = "ACTION_STAGE_PLAN" =>
    /\ \A p \in Players : \A c \in strategy[p].discard :
         card[c].by = p /\ ~IsStarter(c) /\ card[c].zone # "CAMPAIGN"
    /\ \A c \in Deal : card[c].back = FALSE /\ (IsStarter(c) => card[c].zone \notin Stacked)

OwnSearches == {"priority", "interagency", "discard"}

\* What is asked of a player about his own cards, and how many groups there are.
Asked ==
  /\ choice # NoChoice => 1 \in DOMAIN choice.groups
  /\ choice.effect \in {"interagency", "discard"} => 2 \in DOMAIN choice.groups
  /\ choice.effect \in OwnSearches =>
       choice.actor = choice.target /\ choice.chooser = choice.target
  /\ choice.effect = "discard" => choice.source \in Deal /\ choice.source[2] = "discard"

\* What holds of every table in every state, retrievals or not.
Calm ==
  /\ phase = "ACTION_STAGE_PLAN" => \A c \in Deal : InPlace(c)
  /\ Planned
  /\ Asked

\* Nothing has been done to a card that was in no hand and not in S.
Leaves(cards, S) == \A d \in Deal : card[d].zone # "HAND" /\ d \notin S => cards[d] = card[d]

\* Discarding cards of hands, or cards of S, leaves the others.
LEMMA LeavesDiscarded ==
  ASSUME NEW cards, NEW S, NEW T, DOMAIN cards = Deal, Leaves(cards, S),
         \A d \in T : d \in Deal => card[d].zone = "HAND" \/ d \in S
  PROVE  Leaves(Discarded(cards, T), S) /\ DOMAIN Discarded(cards, T) = Deal
BY DEF Leaves, Discarded

\* So does removing a card of a hand.
LEMMA LeavesRemoved ==
  ASSUME NEW cards, NEW S, NEW c \in Deal, DOMAIN cards = Deal, Leaves(cards, S),
         card[c].zone = "HAND"
  PROVE  Leaves(Removed(cards, c), S) /\ DOMAIN Removed(cards, c) = Deal
BY DEF Leaves, Removed

\* The piles that are written back.
LEMMA WrittenPiles ==
  ASSUME TypeInv, NEW cards, WriteBack(cards), NEW q \in Players
  PROVE  /\ strategy'[q].hand = Pile(card', q, "HAND")
         /\ strategy'[q].discard = Pile(card', q, "DISCARD")
         /\ strategy'[q].deck = strategy[q].deck
<1>1. strategy \in [Players -> PilesOf(Deal)]
  BY DEF TypeInv, CardsOK
<1>2. strategy' = Piled(strategy, card')
  BY DEF WriteBack
<1> QED BY <1>1, <1>2 DEF Piled, PilesOf

\* After the way through the M2 engine the hands are what the records say.
LEMMA HandWritten ==
  ASSUME TypeInv, NEW e \in Deal, NEW cards, DOMAIN cards = Deal, WriteBack(cards)
  PROVE  HandExact(e)'
<1>1. DOMAIN card' = Deal
  BY DEF WriteBack, Flattened
<1>2. \A q \in Players : strategy'[q].hand = Pile(card', q, "HAND")
  BY WrittenPiles
<1> QED BY <1>1, <1>2 DEF HandExact, Holds, Hand

\* A card stays in place if it is left alone while it is in a deck, and if what
\* it becomes is where the campaigns have it.
LEMMA WrittenInPlace ==
  ASSUME TypeInv, NEW e \in Deal, InPlace(e), NEW cards, DOMAIN cards = Deal, WriteBack(cards),
         \A q \in Players : e \in strategy[q].deck => cards[e] = card[e],
         \A q \in Players : e \in mat'[q] => cards[e].by = q /\ cards[e].zone = "CAMPAIGN"
  PROVE  InPlace(e)'
<1>1. card' = Flattened(cards) /\ DOMAIN card' = Deal /\ card[e] \in Records
  BY DEF WriteBack, Flattened, TypeInv, CardsOK
<1>2. HandExact(e)'
  BY HandWritten
<1>3. ASSUME NEW q \in Players, e \in strategy'[q].deck
      PROVE  card'[e].by = q /\ card'[e].zone \in Stacked
  <2>1. cards[e] = card[e] /\ card[e].by = q /\ card[e].zone \in Stacked
    BY <1>3, WrittenPiles DEF InPlace
  <2>2. card'[e] = [card[e] EXCEPT !.zone = "DISCARD"] \/ card'[e] = card[e]
    BY <1>1, <2>1 DEF Flattened
  <2> QED BY <1>1, <2>1, <2>2 DEF Records, Stacked
<1>4. ASSUME NEW q \in Players, e \in mat'[q]
      PROVE  card'[e].by = q /\ card'[e].zone = "CAMPAIGN"
  BY <1>1, <1>4 DEF Flattened
<1> QED BY <1>2, <1>3, <1>4 DEF InPlace, HandExact

\* So it does when something is done to cards of hands only.
LEMMA HandsInPlace ==
  ASSUME TypeInv, NEW e \in Deal, InPlace(e), NEW cards, DOMAIN cards = Deal, Leaves(cards, {}),
         WriteBack(cards), mat' = mat
  PROVE  InPlace(e)'
<1>1. card[e].zone # "HAND" => cards[e] = card[e]
  BY DEF Leaves
<1>2. \A q \in Players : e \in strategy[q].deck => cards[e] = card[e]
  BY <1>1 DEF InPlace, Stacked
<1>3. \A q \in Players : e \in mat'[q] => cards[e].by = q /\ cards[e].zone = "CAMPAIGN"
  BY <1>1 DEF InPlace
<1> QED BY <1>2, <1>3, WrittenInPlace

\* And when the campaign of a player is taken as well.
LEMMA CampaignInPlace ==
  ASSUME TypeInv, NEW e \in Deal, InPlace(e), NEW cards, NEW q \in Players, DOMAIN cards = Deal,
         Leaves(cards, mat[q]), WriteBack(cards), mat' = [mat EXCEPT ![q] = {}]
  PROVE  InPlace(e)'
<1>1. card[e].zone # "HAND" /\ e \notin mat[q] => cards[e] = card[e]
  BY DEF Leaves
<1>2. mat \in [Players -> SUBSET Deal]
  BY DEF TypeInv, BoardOK
<1>3. \A r \in Players : e \in strategy[r].deck => cards[e] = card[e]
  BY <1>1 DEF InPlace, Stacked
<1>4. ASSUME NEW r \in Players, e \in mat'[r] PROVE cards[e].by = r /\ cards[e].zone = "CAMPAIGN"
  <2>1. e \in mat[r] /\ r # q
    BY <1>2, <1>4
  <2>2. card[e].by = r /\ card[e].zone = "CAMPAIGN" /\ e \notin mat[q]
    BY <2>1 DEF InPlace
  <2> QED BY <1>1, <2>2
<1> QED BY <1>3, <1>4, WrittenInPlace

\* Nothing has been done to the cards as they are.
LEMMA LeavesAll ==
  ASSUME TypeInv, NEW S PROVE Leaves(card, S) /\ DOMAIN card = Deal
BY DEF TypeInv, CardsOK, Leaves

\* What is held is in a hand.
LEMMA HeldCard ==
  ASSUME TypeInv, NEW p, NEW c, Holds(p, c)
  PROVE  c \in Deal /\ card[c].by = p /\ card[c].zone = "HAND" /\ card[c] \in Records
BY DEF TypeInv, CardsOK, Holds, Hand, Pile

\* The cards and the piles stay as they are.
LEMMA StillInPlace ==
  ASSUME NEW e, InPlace(e), UNCHANGED <<card, strategy, mat>> PROVE InPlace(e)'
BY DEF InPlace, Holds, Hand

\* The effects that are done at once and go through the M2 engine.
LEMMA AtOnceInPlace ==
  ASSUME TypeInv, NEW e \in Deal, InPlace(e), NEW p \in Players, NEW c \in DOMAIN card, Holds(p, c),
         \/ PayEffect(p, c) \/ CyberTheft(p, c) \/ Budget(p, c)
         \/ \E q \in Players : Trade(p, c, q) \/ Corrupt(p, c, q) \/ Expose(p, c, q)
  PROVE  InPlace(e)'
<1>1. c \in Deal /\ card[c].zone = "HAND"
  BY HeldCard
<1>2. Leaves(card, {}) /\ DOMAIN card = Deal
  BY LeavesAll
<1>3. Leaves(Discarded(card, {c}), {}) /\ DOMAIN Discarded(card, {c}) = Deal
  <2>1. \A d \in {c} : d \in Deal => card[d].zone = "HAND" \/ d \in {}
    BY <1>1
  <2> QED BY <1>2, <2>1, LeavesDiscarded
<1>4. CASE WriteBack(Discarded(card, {c})) /\ mat' = mat
  BY <1>3, <1>4, HandsInPlace
<1>5. ASSUME NEW q \in Players, Expose(p, c, q) PROVE InPlace(e)'
  <2>1. Leaves(card, mat[q])
    BY LeavesAll
  <2>2. PICK thrown : thrown = Discarded(card, mat[q])
    OBVIOUS
  <2>3. Leaves(thrown, mat[q]) /\ DOMAIN thrown = Deal
    <3>1. \A d \in mat[q] : d \in Deal => card[d].zone = "HAND" \/ d \in mat[q]
      OBVIOUS
    <3> QED BY <1>2, <2>1, <2>2, <3>1, LeavesDiscarded
  <2>4. Leaves(Discarded(thrown, {c}), mat[q]) /\ DOMAIN Discarded(thrown, {c}) = Deal
    <3>1. \A d \in {c} : d \in Deal => card[d].zone = "HAND" \/ d \in mat[q]
      BY <1>1
    <3> QED BY <2>3, <3>1, LeavesDiscarded
  <2>5. WriteBack(Discarded(thrown, {c})) /\ mat' = [mat EXCEPT ![q] = {}]
    BY <1>5, <2>2 DEF Expose
  <2> QED BY <2>4, <2>5, CampaignInPlace
<1>6. CASE Budget(p, c)
  <2>1. WriteBack(Removed(card, c)) /\ mat' = mat
    BY <1>6 DEF Budget
  <2>2. Leaves(Removed(card, c), {}) /\ DOMAIN Removed(card, c) = Deal
    BY <1>1, <1>2, LeavesRemoved
  <2> QED BY <2>1, <2>2, HandsInPlace
<1>7. CASE PayEffect(p, c) \/ CyberTheft(p, c) \/ \E q \in Players : Trade(p, c, q) \/ Corrupt(p, c, q)
  BY <1>4, <1>7 DEF PayEffect, CyberTheft, Trade, Corrupt
<1> QED BY <1>5, <1>6, <1>7

\* Draws take cards of the deck, and give a card that the hand had not only once.
LEMMA DrawnMoves ==
  ASSUME NEW C, NEW s \in PilesOf(C), NEW e, e \notin s.hand \cap s.deck, NEW n \in Nat,
         NEW u \in Drawn(s, n)
  PROVE  /\ u \in PilesOf(C) /\ e \notin u.hand \cap u.deck
         /\ u.deck \subseteq s.deck /\ u.hand \subseteq s.hand \cup s.deck
         /\ u.discard \subseteq s.discard \cup s.hand \cup s.deck
<1> DEFINE T == {t \in PilesOf(C) : /\ e \notin t.hand \cap t.deck
                                    /\ t.deck \subseteq s.deck /\ t.hand \subseteq s.hand \cup s.deck
                                    /\ t.discard \subseteq s.discard \cup s.hand \cup s.deck}
<1>1. s \in T
  OBVIOUS
<1>2. ASSUME NEW t \in T, NEW x \in DrawAny(t) PROVE x \in T
  <2>1. PICK c \in t.deck : x \in DrawCard(t, c)
    BY <1>2 DEF DrawAny
  <2> DEFINE drawn == [t EXCEPT !.deck = @ \ {c}]
             protocols == {d \in t.hand : d[2] = "protocols"}
  <2>2. /\ drawn \in PilesOf(C) /\ c \in C /\ drawn.hand = t.hand /\ drawn.deck = t.deck \ {c}
        /\ t \in PilesOf(C) /\ drawn.discard = t.discard
    BY DEF PilesOf
  <2>3. \/ \E d \in protocols : x = [drawn EXCEPT !.hand = @ \ {d}, !.discard = @ \cup {c, d}]
        \/ x = [drawn EXCEPT !.hand = @ \cup {c}]
    BY <2>1 DEF DrawCard
  <2>4. CASE x = [drawn EXCEPT !.hand = @ \cup {c}]
    <3>1. /\ x \in PilesOf(C) /\ x.hand = t.hand \cup {c} /\ x.deck = t.deck \ {c}
          /\ x.discard = t.discard
      <4> HIDE DEF drawn
      <4> QED BY <2>2, <2>4 DEF PilesOf
    <3> QED BY <2>1, <3>1
  <2>5. ASSUME NEW d \in t.hand, x = [drawn EXCEPT !.hand = @ \ {d}, !.discard = @ \cup {c, d}]
        PROVE  x \in T
    <3>1. /\ x \in PilesOf(C) /\ x.hand = t.hand \ {d} /\ x.deck = t.deck \ {c}
          /\ x.discard = t.discard \cup {c, d}
      <4> HIDE DEF drawn
      <4> QED BY <2>2, <2>5 DEF PilesOf
    <3> QED BY <2>1, <3>1
  <2> QED BY <2>3, <2>4, <2>5
<1>3. \A t \in T : DrawAny(t) \subseteq T
  BY <1>2
<1>4. Drawn(s, n) \subseteq T
  <2> HIDE DEF T
  <2> QED BY <1>1, <1>3, DrawnStays
<1> QED BY <1>4

\* Piles of one player that change together with the record of a card.
LEMMA HandedOut ==
  ASSUME TypeInv, NEW e \in Deal, InPlace(e), NEW p \in Players, NEW s \in PilesOf(Deal),
         mat' = mat, DOMAIN card' = Deal, strategy'[p] = s,
         \A q \in Players : q # p => /\ strategy'[q].hand = strategy[q].hand
                                     /\ strategy'[q].deck = strategy[q].deck,
         card'[e].by = card[e].by,
         card'[e].zone # card[e].zone => card[e].by = p /\ card[e].zone # "CAMPAIGN",
         card[e].by = p => (card'[e].zone = "HAND" <=> e \in s.hand),
         e \in s.hand => card[e].by = p,
         e \in s.deck => card[e].by = p /\ card'[e].zone \in Stacked
  PROVE  InPlace(e)'
<1>1. DOMAIN card = Deal
  BY DEF TypeInv, CardsOK
<1>2. ASSUME NEW q \in Players PROVE e \in strategy'[q].hand <=> card'[e].by = q /\ card'[e].zone = "HAND"
  <2>1. CASE q = p
    BY <2>1
  <2>2. CASE q # p
    <3>1. e \in strategy[q].hand <=> card[e].by = q /\ card[e].zone = "HAND"
      BY <1>1 DEF InPlace, Holds, Hand, Pile
    <3> QED BY <2>2, <3>1
  <2> QED BY <2>1, <2>2
<1>3. ASSUME NEW q \in Players, e \in strategy'[q].deck
      PROVE  card'[e].by = q /\ card'[e].zone \in Stacked
  <2>1. CASE q = p
    BY <1>3, <2>1
  <2>2. CASE q # p
    <3>1. card[e].by = q /\ card[e].zone \in Stacked
      BY <1>3, <2>2 DEF InPlace
    <3> QED BY <2>2, <3>1
  <2> QED BY <2>1, <2>2
<1>4. ASSUME NEW q \in Players, e \in mat'[q]
      PROVE  card'[e].by = q /\ card'[e].zone = "CAMPAIGN"
  <2>1. card[e].by = q /\ card[e].zone = "CAMPAIGN"
    BY <1>4 DEF InPlace
  <2> QED BY <2>1
<1>5. \A q \in Players : (Holds(q, e))' <=> card'[e].by = q /\ card'[e].zone = "HAND"
  BY DEF Holds, Hand, Pile
<1> QED BY <1>2, <1>3, <1>4, <1>5 DEF InPlace

\* What it is for a card of the deal to be in place.
LEMMA PlaceFacts ==
  ASSUME TypeInv, NEW e \in Deal, InPlace(e), NEW p \in Players
  PROVE  /\ e \in strategy[p].hand <=> card[e].by = p /\ card[e].zone = "HAND"
         /\ e \in strategy[p].deck => card[e].by = p /\ card[e].zone \in Stacked
         /\ card[e].zone = "HAND" => card[e].zone \notin Stacked
BY DEF TypeInv, CardsOK, InPlace, Holds, Hand, Pile, Stacked

\* The three cards of a draw: piles and records agree about a card, whether it
\* was drawn, intercepted or left.
LEMMA DrawThreeInPlace ==
  ASSUME TypeInv, NEW e \in Deal, InPlace(e), NEW p \in Players, NEW c \in DOMAIN card, Holds(p, c),
         DrawThree(p, c)
  PROVE  InPlace(e)'
<1> DEFINE new == [strategy[p] EXCEPT !.hand = @ \ {c}, !.discard = @ \cup {c}]
           n == Min({3, Cardinality(strategy[p].deck)})
           off(s) == (strategy[p].deck \ s.deck) \cup ((strategy[p].hand \ {c}) \ s.hand)
           zone(s, d) == IF d \in off(s) \ {c} /\ d \in s.hand THEN "HAND"
                         ELSE IF d \in off(s) \cup {c} THEN "DISCARD" ELSE card[d].zone
<1>1. PICK s \in Drawn(new, n) :
        /\ strategy' = [strategy EXCEPT ![p] = s]
        /\ card' = [d \in DOMAIN card |-> [card[d] EXCEPT !.zone = zone(s, d)]]
  BY DEF DrawThree
<1>2. /\ card \in [Deal -> Records] /\ DOMAIN card = Deal
      /\ strategy \in [Players -> PilesOf(Deal)] /\ strategy[p] \in PilesOf(Deal)
      /\ card[e] \in Records
  BY DEF TypeInv, CardsOK
<1>3. /\ e \in strategy[p].hand <=> card[e].by = p /\ card[e].zone = "HAND"
      /\ e \in strategy[p].deck => card[e].by = p /\ card[e].zone \in Stacked
      /\ e \in strategy[p].hand => e \notin strategy[p].deck
      /\ c \in Deal /\ card[c].by = p /\ card[c].zone = "HAND"
  BY PlaceFacts, HeldCard
<1>4. /\ new \in PilesOf(Deal) /\ new.hand = strategy[p].hand \ {c} /\ new.deck = strategy[p].deck
  <2>1. \A t \in PilesOf(Deal) : LET u == [t EXCEPT !.hand = @ \ {c}, !.discard = @ \cup {c}]
                                 IN  u \in PilesOf(Deal) /\ u.hand = t.hand \ {c} /\ u.deck = t.deck
    BY <1>2 DEF PilesOf
  <2> QED BY <1>2, <2>1
<1>5. n \in Nat
  <2>1. strategy[p].deck \subseteq Deal
    BY <1>2 DEF PilesOf
  <2>2. Cardinality(strategy[p].deck) \in Nat
    BY <2>1, TableFacts, FS_Subset, FS_CardinalityType DEF TypeInv
  <2>3. n \in {3, Cardinality(strategy[p].deck)}
    <3>1. 3 \in Int /\ Cardinality(strategy[p].deck) \in Int
      BY <2>2
    <3> QED BY <3>1, OfTwo
  <2> HIDE DEF n
  <2> QED BY <2>2, <2>3
<1>6. /\ s \in PilesOf(Deal) /\ e \notin s.hand \cap s.deck /\ s.deck \subseteq strategy[p].deck
      /\ s.hand \subseteq (strategy[p].hand \ {c}) \cup strategy[p].deck
  <2>1. e \notin new.hand \cap new.deck
    <3> HIDE DEF new
    <3> QED BY <1>3, <1>4
  <2> HIDE DEF new, n
  <2> QED BY <1>1, <1>4, <1>5, <2>1, DrawnMoves
<1>7. card'[e].by = card[e].by /\ card'[e].zone = zone(s, e)
  <2>1. card'[e] = [card[e] EXCEPT !.zone = zone(s, e)]
    <3> HIDE DEF zone
    <3> QED BY <1>1, <1>2
  <2> HIDE DEF zone
  <2> QED BY <1>2, <2>1 DEF Records
<1>8. DOMAIN card' = Deal
  <2> HIDE DEF zone
  <2> QED BY <1>1, <1>2
<1>9. strategy'[p] = s /\ \A q \in Players : q # p => strategy'[q] = strategy[q]
  BY <1>1, <1>2
<1>10. e \in off(s) \cup {c} => card[e].by = p /\ card[e].zone # "CAMPAIGN"
  BY <1>3 DEF Stacked
<1>11. card'[e].zone # card[e].zone => card[e].by = p /\ card[e].zone # "CAMPAIGN"
  BY <1>7, <1>10
<1>12. e \in s.hand => card[e].by = p /\ e # c
  BY <1>3, <1>6 DEF Stacked
<1>13. card[e].by = p => (card'[e].zone = "HAND" <=> e \in s.hand)
  BY <1>3, <1>6, <1>7, <1>12
<1>14. ASSUME e \in s.deck PROVE card[e].by = p /\ card'[e].zone \in Stacked
  <2>1. e \notin off(s) \cup {c} /\ card[e].by = p /\ card[e].zone \in Stacked
    BY <1>3, <1>6, <1>14 DEF Stacked
  <2> QED BY <1>7, <2>1
<1>15. mat' = mat
  BY DEF DrawThree, boardVars
<1> HIDE DEF zone, off
<1> QED BY <1>6, <1>7, <1>8, <1>9, <1>11, <1>12, <1>13, <1>14, <1>15, HandedOut

\* The policy shift, while nothing has been taken from anybody: the new hand is
\* dealt from the cards of the player who plays it.
LEMMA ShiftInPlace ==
  ASSUME TypeInv, Calm, NEW p \in Players, NEW c \in DOMAIN card, Holds(p, c), table' = table,
         phase = "ACTION_STAGE_PLAN", PolicyShift(p, c)
  PROVE  Planned' /\ \A e \in Deal : InPlace(e)'
<1> DEFINE hand == strategy[p].hand \ {c}
           home == {d \in hand : card[d].back /\ d[1] # p}
           gone == {d \in hand \ home : IsStarter(d)}
           pool == strategy[p].deck \cup strategy[p].discard \cup (hand \ (home \cup gone))
           new  == [strategy[p] EXCEPT !.hand = {}, !.discard = {}, !.deck = pool]
           hit(s) == pool \ s.deck
           zone(s, d) == IF d \in gone \cup {c} THEN "REMOVED_FROM_GAME"
                         ELSE IF d \in s.hand THEN "HAND"
                         ELSE IF d \in hit(s) THEN "DISCARD"
                         ELSE IF d \in pool THEN "OPERATIONS_DECK"
                         ELSE card[d].zone
           Shift(s) ==
             /\ strategy' = [q \in Players |->
                  IF q = p THEN s
                  ELSE [strategy[q] EXCEPT !.hand = @ \cup {d \in home : d[1] = q}]]
             /\ card' = [d \in DOMAIN card |->
                  IF d \in home THEN [by |-> d[1], zone |-> "HAND", back |-> FALSE]
                  ELSE [card[d] EXCEPT !.zone = zone(s, d)]]
<1>1. c[2] = "policyShift"
  BY DEF PolicyShift
<1>2. PICK n \in 0 .. Cardinality(pool) : \E s \in Drawn(new, n) : Shift(s)
  BY DEF PolicyShift
<1>3. PICK s \in Drawn(new, n) : Shift(s)
  BY <1>2
<1>4. /\ card \in [Deal -> Records] /\ DOMAIN card = Deal
      /\ strategy \in [Players -> PilesOf(Deal)] /\ strategy[p] \in PilesOf(Deal)
      /\ \A d \in Deal : card[d] \in Records
  BY DEF TypeInv, CardsOK
<1>5. \A d \in Deal : card[d].back = FALSE /\ (IsStarter(d) => card[d].zone \notin Stacked)
  BY DEF Calm, Planned
<1>6. /\ \A d \in Deal : d \in strategy[p].hand <=> card[d].by = p /\ card[d].zone = "HAND"
      /\ \A d \in strategy[p].deck : d \in Deal /\ card[d].by = p /\ card[d].zone \in Stacked
      /\ \A d \in strategy[p].discard : d \in Deal /\ card[d].by = p /\ ~IsStarter(d)
                                        /\ card[d].zone # "CAMPAIGN"
      /\ strategy[p].hand \subseteq Deal /\ c \in strategy[p].hand
  <2>1. \A d \in Deal : /\ d \in strategy[p].hand <=> card[d].by = p /\ card[d].zone = "HAND"
                        /\ d \in strategy[p].deck => card[d].by = p /\ card[d].zone \in Stacked
    BY PlaceFacts DEF Calm
  <2>2. \A d \in strategy[p].discard : card[d].by = p /\ ~IsStarter(d) /\ card[d].zone # "CAMPAIGN"
    BY DEF Calm, Planned
  <2>3. c \in Deal /\ card[c].by = p /\ card[c].zone = "HAND"
    BY HeldCard
  <2> QED BY <1>4, <2>1, <2>2, <2>3 DEF PilesOf
<1>7. home = {} /\ hand \subseteq Deal
  BY <1>5, <1>6
<1>8. IsStarter(c) /\ c \notin pool /\ gone \cap pool = {} /\ \A d \in pool : ~IsStarter(d)
  <2>1. IsStarter(c)
    BY <1>1, ShiftAssumption DEF ShiftAssumption, IsStarter
  <2>2. \A d \in pool : ~IsStarter(d)
    <3>1. \A d \in strategy[p].deck : ~IsStarter(d)
      BY <1>5, <1>6
    <3>2. \A d \in strategy[p].discard : ~IsStarter(d)
      BY <1>6
    <3>3. \A d \in hand \ (home \cup gone) : ~IsStarter(d)
      OBVIOUS
    <3> HIDE DEF home, gone, hand
    <3> QED BY <3>1, <3>2, <3>3
  <2>3. \A d \in gone : IsStarter(d)
    OBVIOUS
  <2> HIDE DEF pool, gone
  <2> QED BY <2>1, <2>2, <2>3
<1>9. \A d \in pool \cup gone \cup {c} : d \in Deal /\ card[d].by = p /\ card[d].zone # "CAMPAIGN"
  BY <1>6 DEF Stacked
<1>10. /\ new \in PilesOf(Deal) /\ new.hand = {} /\ new.deck = pool /\ new.discard = {}
  <2>1. pool \subseteq Deal
    BY <1>9
  <2> HIDE DEF pool
  <2> QED BY <1>4, <2>1 DEF PilesOf
<1>11. n \in Nat
  BY <1>2
<1>12. \A e : e \notin new.hand \cap new.deck
  <2> HIDE DEF new
  <2> QED BY <1>10
<1>13. /\ s \in PilesOf(Deal) /\ \A e : e \notin s.hand \cap s.deck
       /\ s.deck \subseteq pool /\ s.hand \subseteq pool /\ s.discard \subseteq pool
  <2>1. /\ s \in PilesOf(Deal) /\ \A e : e \notin s.hand \cap s.deck
        /\ s.deck \subseteq new.deck /\ s.hand \subseteq new.hand \cup new.deck
        /\ s.discard \subseteq new.discard \cup new.hand \cup new.deck
    <3> HIDE DEF new, pool, Shift
    <3> QED BY <1>3, <1>10, <1>11, <1>12, DrawnMoves
  <2> HIDE DEF new, pool
  <2> QED BY <1>10, <2>1
<1>14. DOMAIN card' = Deal
  <2> HIDE DEF zone, home
  <2> QED BY <1>3, <1>4
<1>15. \A d \in Deal : card'[d].by = card[d].by /\ card'[d].zone = zone(s, d) /\ card'[d].back = FALSE
  <2>1. \A d \in Deal : card'[d] = [card[d] EXCEPT !.zone = zone(s, d)]
    <3> HIDE DEF zone, home
    <3> QED BY <1>3, <1>4, <1>7
  <2> HIDE DEF zone
  <2> QED BY <1>4, <1>5, <2>1 DEF Records
<1>16. /\ strategy'[p] = s
       /\ \A q \in Players : q # p => /\ strategy'[q].hand = strategy[q].hand
                                      /\ strategy'[q].deck = strategy[q].deck
                                      /\ strategy'[q].discard = strategy[q].discard
  <2>1. strategy'[p] = s
    BY <1>3
  <2>2. ASSUME NEW q \in Players, q # p
        PROVE  strategy'[q] = [strategy[q] EXCEPT !.hand = @ \cup {d \in home : d[1] = q}]
    <3> HIDE DEF home
    <3> QED BY <1>3, <2>2
  <2>3. ASSUME NEW q \in Players, q # p
        PROVE  strategy'[q] = [strategy[q] EXCEPT !.hand = @ \cup {}]
    <3>1. {d \in home : d[1] = q} = {}
      <4> HIDE DEF home
      <4> QED BY <1>7
    <3> HIDE DEF home
    <3> QED BY <2>2, <2>3, <3>1
  <2> QED BY <1>4, <2>1, <2>3 DEF PilesOf
<1>17. \A d \in Deal : card'[d].zone # card[d].zone => card[d].by = p /\ card[d].zone # "CAMPAIGN"
  <2>1. \A d \in Deal : d \notin pool \cup gone \cup {c} => zone(s, d) = card[d].zone
    <3> HIDE DEF pool, gone
    <3> QED BY <1>13
  <2> HIDE DEF pool, gone, zone
  <2> QED BY <1>9, <1>15, <2>1
<1>18. ASSUME NEW d \in Deal, card[d].by = p PROVE card'[d].zone = "HAND" <=> d \in s.hand
  <2>1. CASE d \in gone \cup {c}
    <3>1. d \notin pool
      <4> HIDE DEF pool, gone
      <4> QED BY <1>8, <2>1
    <3>2. zone(s, d) = "REMOVED_FROM_GAME"
      <4> HIDE DEF pool, gone
      <4> QED BY <2>1
    <3> HIDE DEF pool, gone, zone
    <3> QED BY <1>13, <1>15, <3>1, <3>2
  <2>2. CASE d \notin gone \cup {c} /\ d \in pool
    <3>1. zone(s, d) = "HAND" <=> d \in s.hand
      <4> HIDE DEF pool, gone
      <4> QED BY <2>2
    <3> HIDE DEF zone
    <3> QED BY <1>15, <3>1
  <2>3. CASE d \notin gone \cup {c} /\ d \notin pool
    <3>1. zone(s, d) = card[d].zone /\ d \notin s.hand
      <4> HIDE DEF pool, gone
      <4> QED BY <1>13, <2>3
    <3>2. d \notin strategy[p].hand
      <4>1. d \notin hand \ (home \cup gone)
        BY <2>3
      <4>2. d \notin home /\ d \notin gone /\ d # c
        <5> HIDE DEF gone, home
        <5> QED BY <1>7, <2>3
      <4>3. d \notin hand
        <5> HIDE DEF gone, home, hand
        <5> QED BY <4>1, <4>2
      <4> QED BY <4>2, <4>3
    <3>3. card[d].zone # "HAND"
      BY <1>6, <1>18, <3>2
    <3> HIDE DEF zone
    <3> QED BY <1>15, <3>1, <3>3
  <2> QED BY <2>1, <2>2, <2>3
<1>19. ASSUME NEW d \in s.deck PROVE card[d].by = p /\ card'[d].zone \in Stacked
  <2>1. d \in pool /\ d \notin gone \cup {c} /\ d \notin s.hand /\ d \notin hit(s)
    <3> HIDE DEF pool, gone
    <3> QED BY <1>8, <1>13
  <2>2. zone(s, d) = "OPERATIONS_DECK"
    <3> HIDE DEF pool, gone, hit
    <3> QED BY <2>1
  <2> HIDE DEF pool, zone, gone, hit
  <2> QED BY <1>9, <1>15, <2>1, <2>2 DEF Stacked
<1>20. \A d \in s.hand : card[d].by = p
  <2> HIDE DEF pool
  <2> QED BY <1>9, <1>13
<1>21. mat' = mat
  BY DEF PolicyShift, boardVars
<1>22. ASSUME NEW e \in Deal PROVE InPlace(e)'
  <2>1. InPlace(e)
    BY DEF Calm
  <2> HIDE DEF zone, pool, new, gone, home, hand, Shift, hit
  <2> QED BY <1>13, <1>14, <1>15, <1>16, <1>17, <1>18, <1>19, <1>20, <1>21, <2>1, HandedOut
<1>23. ASSUME NEW d \in Deal, IsStarter(d) PROVE card'[d].zone \notin Stacked
  <2>1. d \notin pool
    <3> HIDE DEF pool
    <3> QED BY <1>8, <1>23
  <2>2. zone(s, d) \in {"REMOVED_FROM_GAME", "HAND", card[d].zone}
    <3> HIDE DEF pool, gone
    <3> QED BY <2>1
  <2>3. card'[d].zone \in {"REMOVED_FROM_GAME", "HAND", card[d].zone}
    <3> HIDE DEF zone
    <3> QED BY <1>15, <2>2
  <2> QED BY <1>5, <1>23, <2>3 DEF Stacked
<1>24. ASSUME NEW q \in Players, NEW d \in strategy'[q].discard
       PROVE  card'[d].by = q /\ ~IsStarter(d) /\ card'[d].zone # "CAMPAIGN"
  <2>1. CASE q = p
    <3>1. d \in pool
      <4> HIDE DEF pool
      <4> QED BY <1>13, <1>16, <1>24, <2>1
    <3>2. d \in Deal /\ card[d].by = p /\ card[d].zone # "CAMPAIGN" /\ ~IsStarter(d)
      <4> HIDE DEF pool, gone
      <4> QED BY <1>8, <1>9, <3>1
    <3>3. zone(s, d) # "CAMPAIGN"
      <4> HIDE DEF pool, gone
      <4> QED BY <3>2
    <3> HIDE DEF pool, gone, zone
    <3> QED BY <1>15, <2>1, <3>2, <3>3
  <2>2. CASE q # p
    <3>1. d \in strategy[q].discard
      BY <1>16, <1>24, <2>2
    <3>2. d \in Deal /\ card[d].by = q /\ ~IsStarter(d) /\ card[d].zone # "CAMPAIGN"
      BY <1>4, <3>1 DEF Calm, Planned, PilesOf
    <3> HIDE DEF zone
    <3> QED BY <1>15, <1>17, <2>2, <3>2
  <2> QED BY <2>1, <2>2
<1>25. Planned'
  <2>1. \A d : (IsStarter(d))' <=> IsStarter(d)
    BY DEF IsStarter
  <2>2. Deal' = Deal
    BY DEF Deal
  <2>3. \A d \in Deal : card'[d].back = FALSE
    <3> HIDE DEF zone
    <3> QED BY <1>15
  <2> HIDE DEF Stacked
  <2> QED BY <1>23, <1>24, <2>1, <2>2, <2>3 DEF Planned
<1> QED BY <1>22, <1>25

\* What is written back while plans are made.
LEMMA WrittenPlanned ==
  ASSUME TypeInv, NEW cards, DOMAIN cards = Deal, WriteBack(cards), table' = table,
         \A d \in Deal : cards[d].back = FALSE /\ (IsStarter(d) => cards[d].zone \notin Stacked)
                         /\ cards[d] \in Records
  PROVE  Planned'
<1>1. card' = Flattened(cards) /\ DOMAIN card' = Deal /\ Deal' = Deal
  BY DEF WriteBack, Flattened, Deal
<1>2. ASSUME NEW d \in Deal
      PROVE  card'[d].back = FALSE /\ (IsStarter(d) => card'[d].zone \notin Stacked)
  <2>1. cards[d].back = FALSE /\ (IsStarter(d) => cards[d].zone \notin Stacked) /\ cards[d] \in Records
    OBVIOUS
  <2>2. \/ card'[d] = cards[d]
        \/ cards[d].zone = "OPERATIONS_DECK" /\ card'[d] = [cards[d] EXCEPT !.zone = "DISCARD"]
    BY <1>1, <2>1 DEF Flattened, Records, Zones
  <2> QED BY <2>1, <2>2 DEF Records, Stacked
<1>3. ASSUME NEW q \in Players, NEW d \in strategy'[q].discard
      PROVE  card'[d].by = q /\ ~IsStarter(d) /\ card'[d].zone # "CAMPAIGN"
  <2>1. d \in Pile(card', q, "DISCARD")
    BY <1>3, WrittenPiles
  <2>2. d \in Deal /\ card'[d].by = q /\ card'[d].zone = "DISCARD"
    BY <1>1, <2>1 DEF Pile
  <2>3. ~IsStarter(d)
    BY <1>2, <2>2 DEF Stacked
  <2> QED BY <2>2, <2>3
<1>4. \A d : (IsStarter(d))' <=> IsStarter(d)
  BY DEF IsStarter
<1> QED BY <1>1, <1>2, <1>3, <1>4 DEF Planned

\* The budget, which may be played while plans are made.
LEMMA BudgetPlanned ==
  ASSUME TypeInv, Planned, NEW p \in Players, NEW c \in DOMAIN card, Holds(p, c), Budget(p, c),
         table' = table, phase = "ACTION_STAGE_PLAN"
  PROVE  Planned'
<1>1. PICK cards : cards = Removed(card, c)
  OBVIOUS
<1>2. WriteBack(cards) /\ DOMAIN cards = Deal
  BY <1>1 DEF Budget, Removed, TypeInv, CardsOK
<1>3. ASSUME NEW d \in Deal
      PROVE  cards[d].back = FALSE /\ (IsStarter(d) => cards[d].zone \notin Stacked) /\ cards[d] \in Records
  <2>1. card[d] \in Records /\ card[d].back = FALSE /\ (IsStarter(d) => card[d].zone \notin Stacked)
    BY DEF TypeInv, CardsOK, Planned
  <2>2. cards[d] = card[d] \/ cards[d] = [card[d] EXCEPT !.zone = "REMOVED_FROM_GAME"]
    BY <1>1, <1>2 DEF Removed, TypeInv, CardsOK
  <2> QED BY <2>1, <2>2 DEF Records, Zones, Stacked
<1> QED BY <1>2, <1>3, WrittenPlanned

\* Nothing happens to the cards.
LEMMA PlannedStays ==
  ASSUME Planned, UNCHANGED <<table, phase, card, strategy>> PROVE Planned'
BY DEF Planned, Deal, IsStarter

\* What is asked when a choice is asked for.
LEMMA AskedNow ==
  ASSUME NEW effect, NEW actor, NEW chooser, NEW target, NEW source, NEW groups,
         Ask(effect, actor, chooser, target, source, groups),
         1 \in DOMAIN groups,
         effect \in {"interagency", "discard"} => 2 \in DOMAIN groups,
         effect \in OwnSearches => actor = target /\ chooser = target,
         effect = "discard" => source \in Deal /\ source[2] = "discard",
         table' = table
  PROVE  Asked'
<1>1. /\ choice'.effect = effect /\ choice'.actor = actor /\ choice'.chooser = chooser
      /\ choice'.target = target /\ choice'.source = source /\ choice'.groups = groups
  BY DEF Ask
<1>2. Deal' = Deal
  BY DEF Deal
<1> QED BY <1>1, <1>2 DEF Asked, OwnSearches

\* The discard down to the limit is asked of the player for his own cards.
LEMMA AskedLimit ==
  ASSUME NEW effect \in {"draw", "priority"}, NEW p, NEW source, NEW hand,
         AskForLimit(effect, p, source, hand)
  PROVE  Asked'
<1>1. /\ choice'.effect = effect /\ choice'.actor = p /\ choice'.chooser = p
      /\ choice'.target = p
      /\ choice'.groups = <<Group(hand, Cardinality(hand) - HandLimit)>>
  BY DEF AskForLimit
<1>2. 1 \in DOMAIN choice'.groups
  BY <1>1
<1> QED BY <1>1, <1>2 DEF Asked, OwnSearches

\* Nothing is asked.
LEMMA AskedNothing ==
  ASSUME Asked, choice' \in {choice, NoChoice}, table' = table PROVE Asked'
<1>1. Deal' = Deal
  BY DEF Deal
<1> QED BY <1>1 DEF Asked, NoChoice, OwnSearches

\* Requests: the priority policy, what asks for cards, and the honey pot.
LEMMA AskingInPlace ==
  ASSUME TypeInv, NEW e \in Deal, InPlace(e), NEW p \in Players, NEW c \in DOMAIN card, Holds(p, c),
         Search(p, c) \/ \E q \in Players : Request(p, c, q) \/ Honeypot(p, c, q)
  PROVE  InPlace(e)'
<1>1. CASE UNCHANGED <<card, strategy, mat>>
  BY <1>1, StillInPlace
<1>2. CASE WriteBack(Discarded(card, {c})) /\ mat' = mat
  <2>1. \A d \in {c} : d \in Deal => card[d].zone = "HAND" \/ d \in {}
    BY HeldCard
  <2>2. Leaves(card, {}) /\ DOMAIN card = Deal
    BY LeavesAll
  <2>3. Leaves(Discarded(card, {c}), {}) /\ DOMAIN Discarded(card, {c}) = Deal
    BY <2>1, <2>2, LeavesDiscarded
  <2> QED BY <1>2, <2>3, HandsInPlace
<1>3. ASSUME Search(p, c) \/ \E q \in Players : Request(p, c, q) PROVE UNCHANGED <<card, strategy, mat>>
  BY <1>3 DEF Search, Request, cardVars, boardVars
<1>4. ASSUME NEW q \in Players, Honeypot(p, c, q)
      PROVE  mat' = mat /\ (UNCHANGED <<card, strategy>> \/ WriteBack(Discarded(card, {c})))
  BY <1>4 DEF Honeypot, cardVars, boardVars
<1> QED BY <1>1, <1>2, <1>3, <1>4

\* What they ask.
LEMMA AskingAsked ==
  ASSUME TypeInv, Asked, NEW p \in Players, NEW c \in DOMAIN card, table' = table,
         Search(p, c) \/ \E q \in Players : Request(p, c, q) \/ Honeypot(p, c, q)
  PROVE  Asked'
<1>0. c \in Deal
  BY DEF TypeInv, CardsOK
<1>1. CASE Search(p, c)
  <2>1. PICK groups : groups = <<Group(strategy[p].deck, 2)>>
    OBVIOUS
  <2>2. 1 \in DOMAIN groups /\ Ask("priority", p, p, p, c, groups)
    BY <1>1, <2>1 DEF Search
  <2> QED BY <2>2, AskedNow
<1>2. ASSUME NEW q \in Players, Request(p, c, q) PROVE Asked'
  <2>2. \/ \E a : Ask("doubleAgent", p, p, q, c, <<a>>)
        \/ q = p /\ c[2] = "discard" /\ \E a, b : Ask("discard", p, p, p, c, <<a, b>>)
        \/ \E a : Ask("spy", p, p, q, c, <<a>>)
        \/ \E a, b : Ask("interagency", p, p, p, c, <<a, b>>)
    <3>1. c[2] \in {"doubleAgent", "discard", "spy", "interagency"}
      BY <1>2 DEF Request
    <3>2. CASE c[2] = "doubleAgent"
      BY <1>2, <3>2 DEF Request
    <3>3. CASE c[2] = "discard"
      BY <1>2, <3>3 DEF Request
    <3>4. CASE c[2] = "spy"
      BY <1>2, <3>4 DEF Request
    <3>5. CASE c[2] = "interagency"
      BY <1>2, <3>5 DEF Request
    <3> QED BY <3>1, <3>2, <3>3, <3>4, <3>5
  <2>3. ASSUME NEW effect \in {"doubleAgent", "spy"}, NEW a, Ask(effect, p, p, q, c, <<a>>)
        PROVE  Asked'
    <3>1. PICK groups : groups = <<a>>
      OBVIOUS
    <3>2. 1 \in DOMAIN groups /\ Ask(effect, p, p, q, c, groups)
      BY <2>3, <3>1
    <3>3. effect \notin OwnSearches /\ effect \notin {"interagency", "discard"} /\ effect # "discard"
      BY DEF OwnSearches
    <3> QED BY <3>2, <3>3, AskedNow
  <2>4. ASSUME NEW effect, NEW a, NEW b, Ask(effect, p, p, p, c, <<a, b>>),
               effect = "discard" => c[2] = "discard"
        PROVE  Asked'
    <3>1. PICK groups : groups = <<a, b>>
      OBVIOUS
    <3>2. 1 \in DOMAIN groups /\ 2 \in DOMAIN groups /\ Ask(effect, p, p, p, c, groups)
      BY <2>4, <3>1
    <3>3. p = p /\ (effect = "discard" => c \in Deal /\ c[2] = "discard")
      BY <1>0, <2>4
    <3> QED BY <3>2, <3>3, AskedNow
  <2>5. Asked'
    BY <2>2, <2>3, <2>4
  <2> QED BY <2>5
<1>3. ASSUME NEW q \in Players, Honeypot(p, c, q) PROVE Asked'
  <2>1. CASE \E a : Ask("honeypot", p, q, q, c, <<a>>)
    <3>1. PICK a : Ask("honeypot", p, q, q, c, <<a>>)
      BY <2>1
    <3>2. PICK groups : groups = <<a>>
      OBVIOUS
    <3>3. 1 \in DOMAIN groups /\ Ask("honeypot", p, q, q, c, groups)
      BY <3>1, <3>2
    <3> QED BY <3>3, AskedNow DEF OwnSearches
  <2>2. CASE choice' = choice
    BY <2>2, AskedNothing
  <2> QED BY <1>3, <2>1, <2>2 DEF Honeypot
<1> QED BY <1>1, <1>2, <1>3

\* The stages in which effects are played.
LEMMA EffectStages ==
  ASSUME TypeInv, NEW p \in Players, NEW c \in DOMAIN card, PlayEffect(p, c)
  PROVE  /\ Holds(p, c) /\ table' = table /\ phase' = phase
         /\ phase = "ACTION_STAGE_PLAN" =>
              \/ Budget(p, c) /\ choice' = choice
              \/ PolicyShift(p, c) /\ choice' = choice
              \/ Search(p, c)
         /\ PolicyShift(p, c) => phase = "ACTION_STAGE_PLAN"
<1>1. Holds(p, c) /\ table' = table /\ phase' = phase
  BY DEF PlayEffect
<1>2. phase = "ACTION_STAGE_PLAN" => c[2] \in InPlan
  BY DEF PlayEffect
<1>3. PolicyShift(p, c) => phase = "ACTION_STAGE_PLAN"
  BY DEF PlayEffect, PolicyShift, InPlan
<1>4. ASSUME c[2] \in InPlan
      PROVE  /\ ~PayEffect(p, c) /\ ~CyberTheft(p, c) /\ ~DrawThree(p, c)
             /\ \A q \in Players : ~Trade(p, c, q) /\ ~Corrupt(p, c, q) /\ ~Expose(p, c, q)
             /\ \A q \in Players : ~Request(p, c, q) /\ ~Honeypot(p, c, q)
  <2>1. ~PayEffect(p, c) /\ ~CyberTheft(p, c)
    BY <1>4 DEF PayEffect, Price, CyberTheft, InPlan
  <2>2. ~DrawThree(p, c)
    BY <1>4 DEF DrawThree, InPlan
  <2>3. \A q \in Players : ~Trade(p, c, q) /\ ~Corrupt(p, c, q) /\ ~Expose(p, c, q)
    BY <1>4 DEF Trade, Corrupt, Expose, InPlan
  <2>4. \A q \in Players : ~Request(p, c, q)
    BY <1>4 DEF Request, InPlan
  <2>5. \A q \in Players : ~Honeypot(p, c, q)
    BY <1>4 DEF Honeypot, InPlan
  <2> QED BY <2>1, <2>2, <2>3, <2>4, <2>5
<1> QED BY <1>1, <1>2, <1>3, <1>4 DEF PlayEffect

\* An effect that is played.
LEMMA EffectInPlace ==
  ASSUME TypeInv, Calm, NEW e \in Deal, InPlace(e), NEW p \in Players, NEW c \in DOMAIN card,
         PlayEffect(p, c)
  PROVE  InPlace(e)'
<1>1. Holds(p, c) /\ table' = table /\ (PolicyShift(p, c) => phase = "ACTION_STAGE_PLAN")
  BY EffectStages
<1>2. CASE \/ PayEffect(p, c) \/ CyberTheft(p, c) \/ Budget(p, c)
           \/ \E q \in Players : Trade(p, c, q) \/ Corrupt(p, c, q) \/ Expose(p, c, q)
  BY <1>1, <1>2, AtOnceInPlace
<1>3. CASE PolicyShift(p, c)
  BY <1>1, <1>3, ShiftInPlace
<1>4. CASE DrawThree(p, c)
  BY <1>1, <1>4, DrawThreeInPlace
<1>5. CASE Search(p, c) \/ \E q \in Players : Request(p, c, q) \/ Honeypot(p, c, q)
  BY <1>1, <1>5, AskingInPlace
<1> QED BY <1>2, <1>3, <1>4, <1>5 DEF PlayEffect

\* What it leaves of the planning stage and what it asks.
LEMMA EffectCalm ==
  ASSUME TypeInv, Calm, NEW p \in Players, NEW c \in DOMAIN card, PlayEffect(p, c)
  PROVE  Planned' /\ Asked'
<1>1. /\ Holds(p, c) /\ table' = table /\ phase' = phase
      /\ phase = "ACTION_STAGE_PLAN" => Budget(p, c) \/ PolicyShift(p, c) \/ Search(p, c)
  BY EffectStages
<1>2. Planned'
  <2>1. CASE phase = "ACTION_STAGE_PLAN" /\ Budget(p, c)
    BY <1>1, <2>1, BudgetPlanned DEF Calm
  <2>2. CASE phase = "ACTION_STAGE_PLAN" /\ PolicyShift(p, c)
    BY <1>1, <2>2, ShiftInPlace
  <2>3. CASE phase = "ACTION_STAGE_PLAN" /\ Search(p, c)
    <3>1. UNCHANGED <<card, strategy>>
      BY <2>3 DEF Search, cardVars
    <3> QED BY <1>1, <3>1, PlannedStays DEF Calm
  <2>4. CASE phase # "ACTION_STAGE_PLAN"
    BY <1>1, <2>4 DEF Planned
  <2> QED BY <1>1, <2>1, <2>2, <2>3, <2>4
<1>3. Asked'
  <2>1. CASE choice' = choice
    BY <1>1, <2>1, AskedNothing DEF Calm
  <2>2. CASE DrawThree(p, c)
    <3>1. choice' = choice \/ \E hand : AskForLimit("draw", p, c, hand)
      BY <2>2 DEF DrawThree
    <3> QED BY <2>1, <3>1, AskedLimit
  <2>3. CASE Search(p, c) \/ \E q \in Players : Request(p, c, q) \/ Honeypot(p, c, q)
    BY <1>1, <2>3, AskingAsked DEF Calm
  <2> QED BY <2>1, <2>2, <2>3 DEF PlayEffect
<1> QED BY <1>2, <1>3

(***************************************************************************)
(* Answers.                                                                *)
(***************************************************************************)

\* A card is where an answer may take it from.
Rightly(c) ==
  \/ c = choice.source /\ card[c].by = choice.actor
  \/ /\ \E i \in DOMAIN choice.groups : c \in choice.groups[i].from
     /\ card[c].by = choice.target

\* The record of a card that an answer has changed is one it may change.
Right(c) == Flattened(card)[c] # Flattened(card')[c] => Rightly(c)

\* What is chosen has been offered.
LEMMA PickedCards ==
  ASSUME NEW s \in Picks, NEW i \in DOMAIN choice.groups
  PROVE  s[i] \subseteq choice.groups[i].from /\ DOMAIN s = DOMAIN choice.groups
BY DEF Picks

\* The records of the cards that an answer leaves alone.
LEMMA SettledRecords ==
  ASSUME TypeInv, NEW cards, DOMAIN cards = Deal, Settle(cards), NEW c \in Deal,
         cards[c] = card[c], c # choice.source \/ choice.limit
  PROVE  Flattened(card)[c] = Flattened(card')[c]
<1> DEFINE X == IF choice.limit THEN cards ELSE Discarded(cards, {choice.source})
<1>1. X[c] = card[c] /\ DOMAIN X = Deal
  BY DEF Discarded
<1>2. card' = Flattened(X)
  BY DEF Settle, WriteBack
<1>3. card[c] \in Records /\ DOMAIN card = Deal
  BY DEF TypeInv, CardsOK
<1> HIDE DEF X
<1>4. card'[c] = Flattened(card)[c] /\ DOMAIN card' = Deal
  BY <1>1, <1>2, <1>3 DEF Flattened
<1>5. Flattened(card)[c].zone \notin {"OPERATIONS_DECK", "OPERATIONS_POOL", "STARTER_POOL"}
  BY <1>3 DEF Flattened, Records
<1> QED BY <1>4, <1>5 DEF Flattened

\* An answer that does something to cards of hands only.
LEMMA SettledInPlace ==
  ASSUME TypeInv, NEW e \in Deal, InPlace(e), NEW cards, DOMAIN cards = Deal, Leaves(cards, {}),
         Settle(cards)
  PROVE  InPlace(e)'
<1>1. mat' = mat
  BY DEF Settle
<1>2. CASE choice.limit
  BY <1>1, <1>2, HandsInPlace DEF Settle
<1>3. CASE ~choice.limit
  <2>1. WriteBack(Discarded(cards, {choice.source})) /\ Holds(choice.actor, choice.source)
    BY <1>3 DEF Settle
  <2>2. \A d \in {choice.source} : d \in Deal => card[d].zone = "HAND" \/ d \in {}
    BY <2>1, HeldCard
  <2>3. /\ Leaves(Discarded(cards, {choice.source}), {})
        /\ DOMAIN Discarded(cards, {choice.source}) = Deal
    BY <2>2, LeavesDiscarded
  <2> QED BY <1>1, <2>1, <2>3, HandsInPlace
<1> QED BY <1>2, <1>3

\* A card that an answer has done something to was the target's, and offered.
LEMMA SettledRight ==
  ASSUME TypeInv, NEW cards, DOMAIN cards = Deal, Settle(cards), NEW c \in Deal,
         \/ cards[c] = card[c]
         \/ /\ card[c].by = choice.target
            /\ \E i \in DOMAIN choice.groups : c \in choice.groups[i].from
  PROVE  Right(c)
<1> SUFFICES ASSUME Flattened(card)[c] # Flattened(card')[c], cards[c] = card[c] PROVE Rightly(c)
  BY DEF Right, Rightly
<1>1. c = choice.source /\ ~choice.limit
  BY SettledRecords
<1>2. Holds(choice.actor, choice.source)
  BY <1>1 DEF Settle
<1> QED BY <1>1, <1>2, HeldCard DEF Rightly

\* What has been chosen is taken from the hand of the target, where it is.
LEMMA ChosenCards ==
  ASSUME TypeInv, Asked, choice # NoChoice, NEW s \in Picks, Current(s[1], choice.target, "HAND")
  PROVE  \A d \in s[1] : /\ d \in Deal /\ card[d].by = choice.target /\ card[d].zone = "HAND"
                         /\ \E i \in DOMAIN choice.groups : d \in choice.groups[i].from
<1>1. 1 \in DOMAIN choice.groups /\ DOMAIN card = Deal
  BY DEF Asked, TypeInv, CardsOK
<1>2. s[1] \subseteq choice.groups[1].from
  BY <1>1, PickedCards
<1> QED BY <1>1, <1>2 DEF Current, Pile

\* Spy.
LEMMA SpyRight ==
  ASSUME TypeInv, Asked, choice # NoChoice, NEW s \in Picks, AnswerSpy(s),
         NEW e \in Deal, InPlace(e)
  PROVE  InPlace(e)' /\ Right(e)
<1> DEFINE taken == [d \in DOMAIN card |->
                       IF d \in s[1] THEN [by |-> choice.actor, zone |-> "HAND",
                                           back |-> d[1] # choice.actor]
                       ELSE card[d]]
<1>1. Settle(taken) /\ Current(s[1], choice.target, "HAND")
  BY DEF AnswerSpy
<1>2. DOMAIN taken = Deal /\ \A d \in Deal : d \notin s[1] => taken[d] = card[d]
  BY DEF TypeInv, CardsOK
<1> HIDE DEF taken
<1>3. \A d \in s[1] : /\ d \in Deal /\ card[d].by = choice.target /\ card[d].zone = "HAND"
                      /\ \E i \in DOMAIN choice.groups : d \in choice.groups[i].from
  BY <1>1, ChosenCards
<1>4. Leaves(taken, {})
  BY <1>2, <1>3 DEF Leaves
<1>5. InPlace(e)'
  BY <1>1, <1>2, <1>4, SettledInPlace
<1>6. Right(e)
  BY <1>1, <1>2, <1>3, SettledRight
<1> QED BY <1>5, <1>6

\* Honey pot, double agent and the limit of the hand.
LEMMA DiscardRight ==
  ASSUME TypeInv, Asked, choice # NoChoice, NEW s \in Picks, AnswerDiscard(s),
         NEW e \in Deal, InPlace(e)
  PROVE  InPlace(e)' /\ Right(e)
<1>1. PICK cards : cards = Discarded(card, s[1])
  OBVIOUS
<1>2. Settle(cards) /\ Current(s[1], choice.target, "HAND")
  BY <1>1 DEF AnswerDiscard
<1>3. DOMAIN cards = Deal /\ \A d \in Deal : d \notin s[1] => cards[d] = card[d]
  BY <1>1 DEF Discarded, TypeInv, CardsOK
<1>4. \A d \in s[1] : /\ d \in Deal /\ card[d].by = choice.target /\ card[d].zone = "HAND"
                      /\ \E i \in DOMAIN choice.groups : d \in choice.groups[i].from
  BY <1>2, ChosenCards
<1>5. Leaves(cards, {})
  BY <1>3, <1>4 DEF Leaves
<1>6. InPlace(e)'
  BY <1>2, <1>3, <1>5, SettledInPlace
<1>7. Right(e)
  BY <1>2, <1>3, <1>4, SettledRight
<1> QED BY <1>6, <1>7

\* The limit of the hand is asked for while plans are made, too.
LEMMA DiscardPlanned ==
  ASSUME TypeInv, Planned, Asked, choice # NoChoice, NEW s \in Picks, AnswerDiscard(s),
         table' = table, phase' = phase, phase = "ACTION_STAGE_PLAN" => choice.effect = "priority"
  PROVE  Planned'
<1> SUFFICES ASSUME phase = "ACTION_STAGE_PLAN" PROVE Planned'
  BY DEF Planned
<1>1. choice.limit /\ Current(s[1], choice.target, "HAND")
  BY DEF AnswerDiscard
<1>2. PICK cards : cards = Discarded(card, s[1])
  OBVIOUS
<1>3. WriteBack(cards)
  BY <1>1, <1>2 DEF AnswerDiscard, Settle
<1>4. DOMAIN cards = Deal /\ DOMAIN card = Deal
  BY <1>2 DEF Discarded, TypeInv, CardsOK
<1>5. \A d \in s[1] : card[d].zone = "HAND"
  BY <1>1, ChosenCards
<1>6. ASSUME NEW d \in Deal
      PROVE  cards[d].back = FALSE /\ (IsStarter(d) => cards[d].zone \notin Stacked) /\ cards[d] \in Records
  <2>1. card[d] \in Records /\ card[d].back = FALSE /\ (IsStarter(d) => card[d].zone \notin Stacked)
    BY DEF TypeInv, CardsOK, Planned
  <2>2. cards[d] = card[d] \/
        cards[d] = [card[d] EXCEPT !.zone = IF IsStarter(d) THEN "REMOVED_FROM_GAME" ELSE "DISCARD"]
    BY <1>2, <1>4, <1>5, <2>1 DEF Discarded
  <2> QED BY <2>1, <2>2 DEF Records, Zones, Stacked
<1> QED BY <1>3, <1>4, <1>6, WrittenPlanned

\* Discard: two cards of the hand for one of the discard pile.  If a deck lists
\* that one, it is the retrieval that puts a card out of place.
LEMMA RetrieveRight ==
  ASSUME TypeInv, Asked, choice # NoChoice, NEW p \in Players, Answer(p),
         NEW s \in Picks, AnswerRetrieve(s), NEW e \in Deal, InPlace(e)
  PROVE  (InPlace(e)' \/ Retrieved(e)) /\ HandExact(e)' /\ Right(e)
<1> DEFINE thrown == Discarded(card, s[1])
           cards == [d \in DOMAIN card |-> IF d \in s[2] THEN [thrown[d] EXCEPT !.zone = "HAND"]
                                           ELSE thrown[d]]
           X == IF choice.limit THEN cards ELSE Discarded(cards, {choice.source})
<1>1. /\ Settle(cards) /\ choice.effect = "discard"
      /\ s[1] \subseteq Pile(card, choice.actor, "HAND")
      /\ s[2] \subseteq Pile(card, choice.actor, "DISCARD")
  BY DEF AnswerRetrieve, Current
<1>2. DOMAIN card = Deal /\ card \in [Deal -> Records]
  BY DEF TypeInv, CardsOK
<1>3. /\ \A d \in s[1] : d \in Deal /\ card[d].by = choice.actor /\ card[d].zone = "HAND"
      /\ \A d \in s[2] : d \in Deal /\ card[d].by = choice.actor /\ card[d].zone = "DISCARD"
  BY <1>1, <1>2 DEF Pile
<1>4. /\ choice.actor = choice.target
      /\ 1 \in DOMAIN choice.groups /\ 2 \in DOMAIN choice.groups
  BY <1>1 DEF Asked, OwnSearches
<1>5. DOMAIN cards = Deal /\ \A d \in Deal : d \notin s[1] \cup s[2] => cards[d] = card[d]
  BY <1>2 DEF Discarded
<1>6. \A d \in s[2] : cards[d] = [card[d] EXCEPT !.zone = "HAND"]
  <2>1. \A d \in s[2] : thrown[d] = card[d]
    BY <1>2, <1>3 DEF Discarded
  <2> HIDE DEF thrown
  <2> QED BY <1>2, <1>3, <2>1
<1>7. Right(e)
  <2>1. \/ cards[e] = card[e]
        \/ /\ card[e].by = choice.target
           /\ \E i \in DOMAIN choice.groups : e \in choice.groups[i].from
    <3> HIDE DEF cards
    <3> QED BY <1>3, <1>4, <1>5, PickedCards
  <2> HIDE DEF cards
  <2> QED BY <1>1, <1>5, <2>1, SettledRight
<1>8. WriteBack(X) /\ mat' = mat /\ (choice.limit \/ card[choice.source].zone = "HAND")
  <2> HIDE DEF cards
  <2> QED BY <1>1, HeldCard DEF Settle
<1>9. DOMAIN X = Deal /\ \A d \in Deal : d # choice.source \/ choice.limit => X[d] = cards[d]
  <2> HIDE DEF cards
  <2> QED BY <1>5 DEF Discarded
<1>10. card' = Flattened(X)
  <2> HIDE DEF X
  <2> QED BY <1>8 DEF WriteBack
<1>11. HandExact(e)'
  <2> HIDE DEF X
  <2> QED BY <1>8, <1>9, HandWritten
<1>12. CASE e \notin s[2]
  <2>1. card[e].zone # "HAND" => X[e] = card[e]
    <3> HIDE DEF cards, X
    <3> QED BY <1>3, <1>5, <1>8, <1>9, <1>12
  <2>2. \A q \in Players : e \in strategy[q].deck => X[e] = card[e]
    <3> HIDE DEF X
    <3> QED BY <2>1 DEF InPlace, Stacked
  <2>3. \A q \in Players : e \in mat'[q] => X[e].by = q /\ X[e].zone = "CAMPAIGN"
    <3> HIDE DEF X
    <3> QED BY <1>8, <2>1 DEF InPlace
  <2>4. InPlace(e)'
    <3> HIDE DEF X
    <3> QED BY <1>8, <1>9, <2>2, <2>3, WrittenInPlace
  <2> QED BY <1>7, <1>11, <2>4
<1>13. CASE e \in s[2] /\ \A q \in Players : e \notin strategy[q].deck
  <2>1. \A q \in Players : e \notin mat'[q]
    BY <1>3, <1>8, <1>13 DEF InPlace
  <2>2. InPlace(e)'
    <3> HIDE DEF X
    <3> QED BY <1>8, <1>9, <1>13, <2>1, WrittenInPlace
  <2> QED BY <1>7, <1>11, <2>2
<1>14. ASSUME e \in s[2], NEW q \in Players, e \in strategy[q].deck PROVE Retrieved(e)
  <2>1. X[e] = [card[e] EXCEPT !.zone = "HAND"]
    <3> HIDE DEF cards, X
    <3> QED BY <1>3, <1>6, <1>8, <1>9, <1>14
  <2>2. card'[e].zone = "HAND"
    <3> HIDE DEF X
    <3> QED BY <1>2, <1>9, <1>10, <2>1 DEF Flattened, Records
  <2>3. e \in strategy'[q].deck
    <3> HIDE DEF X
    <3> QED BY <1>8, <1>14, WrittenPiles
  <2> QED BY <1>1, <1>3, <1>14, <2>2, <2>3 DEF Retrieved
<1> QED BY <1>7, <1>11, <1>12, <1>13, <1>14

\* The record of a card whose zone stays.
LEMMA SameRecord ==
  ASSUME NEW r \in Records PROVE [r EXCEPT !.zone = r.zone] = r
BY DEF Records

\* The two cards of the priority policy.
LEMMA SearchRight ==
  ASSUME TypeInv, Calm, choice # NoChoice, NEW p \in Players, choice.chooser = p,
         NEW s \in Picks, AnswerSearch(p, s), table' = table, phase' = phase,
         phase = "ACTION_STAGE_PLAN"
  PROVE  Planned' /\ Asked' /\ \A e \in Deal : InPlace(e)' /\ Right(e)
<1> DEFINE hand == (strategy[p].hand \ {choice.source}) \cup s[1]
           zone(d) == IF d \in s[1] THEN "HAND"
                      ELSE IF d = choice.source THEN "REMOVED_FROM_GAME" ELSE card[d].zone
<1>1. /\ choice.effect = "priority" /\ s[1] \subseteq strategy[p].deck
      /\ choice.source \in strategy[p].hand /\ mat' = mat
      /\ choice' = NoChoice \/ AskForLimit("priority", p, choice.source, hand)
  BY DEF AnswerSearch, boardVars
<1>2. p = choice.target /\ p = choice.actor /\ 1 \in DOMAIN choice.groups
  BY <1>1 DEF Calm, Asked, OwnSearches
<1>3. /\ card \in [Deal -> Records] /\ DOMAIN card = Deal
      /\ strategy \in [Players -> PilesOf(Deal)] /\ strategy[p] \in PilesOf(Deal)
      /\ \A d \in Deal : card[d] \in Records
  BY DEF TypeInv, CardsOK
<1>4. card' = [d \in Deal |-> [card[d] EXCEPT !.zone = zone(d)]]
  BY <1>3 DEF AnswerSearch
<1>5. PICK t, deck, held : /\ t = [strategy[p] EXCEPT !.deck = deck, !.hand = held]
                           /\ deck = strategy[p].deck \ s[1] /\ held = hand
  OBVIOUS
<1>6. t.deck = strategy[p].deck \ s[1] /\ t.hand = hand /\ t.discard = strategy[p].discard
  <2> HIDE DEF hand
  <2>1. t.deck = deck /\ t.hand = held /\ t.discard = strategy[p].discard
    BY <1>3, <1>5 DEF PilesOf
  <2> QED BY <1>5, <2>1
<1>7. strategy' = [strategy EXCEPT ![p] = t]
  <2>1. strategy' = [strategy EXCEPT ![p].deck = @ \ s[1], ![p].hand = hand]
    BY DEF AnswerSearch
  <2> HIDE DEF hand
  <2>2. strategy' = [strategy EXCEPT ![p].deck = deck, ![p].hand = held]
    BY <1>5, <2>1
  <2> QED BY <1>3, <1>5, <2>2
<1>8. /\ \A d \in Deal : d \in strategy[p].hand <=> card[d].by = p /\ card[d].zone = "HAND"
      /\ \A d \in strategy[p].deck : d \in Deal /\ card[d].by = p /\ card[d].zone \in Stacked
      /\ strategy[p].hand \subseteq Deal
  <2>1. \A d \in Deal : /\ d \in strategy[p].hand <=> card[d].by = p /\ card[d].zone = "HAND"
                        /\ d \in strategy[p].deck => card[d].by = p /\ card[d].zone \in Stacked
    BY PlaceFacts DEF Calm
  <2> QED BY <1>3, <2>1 DEF PilesOf
<1>9. /\ \A d \in s[1] : d \in Deal /\ card[d].by = p /\ card[d].zone \in Stacked
      /\ choice.source \in Deal /\ card[choice.source].by = p /\ card[choice.source].zone = "HAND"
  BY <1>1, <1>8
<1>10. t \in PilesOf(Deal)
  <2>1. deck \subseteq Deal /\ held \subseteq Deal
    BY <1>5, <1>8, <1>9
  <2> QED BY <1>3, <1>5, <2>1 DEF PilesOf
<1>11. \A d \in Deal : card'[d].by = card[d].by /\ card'[d].zone = zone(d) /\ card'[d].back = card[d].back
  <2> HIDE DEF zone
  <2> QED BY <1>3, <1>4 DEF Records
<1>12. \A d \in Deal : d \notin s[1] \cup {choice.source} => card'[d] = card[d]
  <2>1. \A d \in Deal : d \notin s[1] \cup {choice.source} =>
          card'[d] = [card[d] EXCEPT !.zone = card[d].zone]
    BY <1>4
  <2> QED BY <1>3, <2>1, SameRecord
<1>13. ASSUME NEW e \in Deal PROVE InPlace(e)'
  <2>0. InPlace(e)
    BY DEF Calm
  <2>1. DOMAIN card' = Deal
    <3> HIDE DEF zone
    <3> QED BY <1>4
  <2>2. strategy'[p] = t /\ \A q \in Players : q # p => strategy'[q] = strategy[q]
    BY <1>3, <1>7
  <2>3. \A d \in Deal : card'[d].zone # card[d].zone => card[d].by = p /\ card[d].zone # "CAMPAIGN"
    BY <1>9, <1>12 DEF Stacked
  <2>4. \A d \in Deal : card[d].by = p => (card'[d].zone = "HAND" <=> d \in t.hand)
    BY <1>6, <1>8, <1>9, <1>11 DEF Stacked
  <2>5. \A d \in t.hand : card[d].by = p
    BY <1>6, <1>8, <1>9
  <2>6. \A d \in t.deck : card[d].by = p /\ card'[d].zone \in Stacked
    BY <1>6, <1>8, <1>9, <1>11 DEF Stacked
  <2> HIDE DEF zone, hand
  <2> QED BY <1>1, <1>10, <1>11, <2>0, <2>1, <2>2, <2>3, <2>4, <2>5, <2>6, HandedOut
<1>14. Planned'
  <2>1. \A d \in Deal : card[d].back = FALSE /\ (IsStarter(d) => card[d].zone \notin Stacked)
    BY DEF Calm, Planned
  <2>2. \A d \in Deal : card'[d].back = FALSE /\ (IsStarter(d) => card'[d].zone \notin Stacked)
    BY <1>11, <2>1 DEF Stacked
  <2>3. \A q \in Players : strategy'[q].discard = strategy[q].discard
    BY <1>3, <1>6, <1>7
  <2>4. ASSUME NEW q \in Players, NEW d \in strategy'[q].discard
        PROVE  card'[d].by = q /\ ~IsStarter(d) /\ card'[d].zone # "CAMPAIGN"
    <3>1. d \in Deal /\ card[d].by = q /\ ~IsStarter(d) /\ card[d].zone # "CAMPAIGN"
      BY <1>3, <2>3, <2>4 DEF Calm, Planned, PilesOf
    <3> QED BY <1>11, <3>1
  <2>5. \A d : (IsStarter(d))' <=> IsStarter(d)
    BY DEF IsStarter
  <2>6. Deal' = Deal
    BY DEF Deal
  <2> HIDE DEF Stacked, zone, hand
  <2> QED BY <2>2, <2>4, <2>5, <2>6 DEF Planned
<1>15. Asked'
  <2> HIDE DEF hand
  <2> QED BY <1>1, AskedLimit, AskedNothing DEF Calm
<1>16. ASSUME NEW c \in Deal PROVE Right(c)
  <2> SUFFICES ASSUME Flattened(card)[c] # Flattened(card')[c] PROVE Rightly(c)
    BY DEF Right
  <2>1. c \in s[1] \cup {choice.source}
    <3>1. DOMAIN card' = Deal
      <4> HIDE DEF zone
      <4> QED BY <1>4
    <3> QED BY <1>3, <1>12, <3>1 DEF Flattened
  <2>2. CASE c \in s[1]
    BY <1>2, <1>9, <2>2, PickedCards DEF Rightly
  <2>3. CASE c = choice.source
    BY <1>2, <1>9, <2>3 DEF Rightly
  <2> QED BY <2>1, <2>2, <2>3
<1> QED BY <1>13, <1>14, <1>15, <1>16

\* Interagency: a card of the deck for one of the hand.
LEMMA SwapRight ==
  ASSUME TypeInv, Asked, choice # NoChoice, NEW p \in Players, choice.chooser = p,
         NEW s \in Picks, AnswerSwap(p, s), NEW e \in Deal, InPlace(e)
  PROVE  InPlace(e)' /\ Right(e)
<1> DEFINE t == [hand    |-> (strategy[p].hand \ (s[2] \cup {choice.source})) \cup s[1],
                 deck    |-> (strategy[p].deck \ s[1]) \cup s[2],
                 discard |-> strategy[p].discard \cup {choice.source}]
           zone(d) == IF d = choice.source THEN "DISCARD"
                      ELSE IF d \in s[2] THEN "OPERATIONS_DECK"
                      ELSE IF d \in s[1] THEN "HAND" ELSE card[d].zone
<1>1. /\ choice.effect = "interagency" /\ s[1] \subseteq strategy[p].deck
      /\ s[2] \cup {choice.source} \subseteq strategy[p].hand /\ mat' = mat
      /\ choice' = NoChoice /\ strategy' = [strategy EXCEPT ![p] = t]
  BY DEF AnswerSwap
<1>2. /\ p = choice.target /\ p = choice.actor
      /\ 1 \in DOMAIN choice.groups /\ 2 \in DOMAIN choice.groups
  BY <1>1 DEF Asked, OwnSearches
<1>3. /\ card \in [Deal -> Records] /\ DOMAIN card = Deal
      /\ strategy \in [Players -> PilesOf(Deal)] /\ strategy[p] \in PilesOf(Deal)
      /\ \A d \in Deal : card[d] \in Records
  BY DEF TypeInv, CardsOK
<1>4. card' = [d \in Deal |-> [card[d] EXCEPT !.zone = zone(d)]]
  BY <1>3 DEF AnswerSwap
<1>5. /\ e \in strategy[p].hand <=> card[e].by = p /\ card[e].zone = "HAND"
      /\ e \in strategy[p].deck => card[e].by = p /\ card[e].zone \in Stacked
      /\ strategy[p].hand \subseteq Deal /\ strategy[p].deck \subseteq Deal
      /\ strategy[p].discard \subseteq Deal
  BY <1>3, PlaceFacts DEF PilesOf
<1>6. /\ e \in s[1] => card[e].by = p /\ card[e].zone \in Stacked
      /\ e \in s[2] \cup {choice.source} => card[e].by = p /\ card[e].zone = "HAND"
  BY <1>1, <1>5
<1>7. t \in PilesOf(Deal)
  <2>1. s[1] \subseteq Deal /\ s[2] \subseteq Deal /\ choice.source \in Deal
    BY <1>1, <1>5
  <2> QED BY <1>5, <2>1 DEF PilesOf
<1>8. card'[e].by = card[e].by /\ card'[e].zone = zone(e)
  <2> HIDE DEF zone
  <2> QED BY <1>3, <1>4 DEF Records
<1>9. e \notin s[1] \cup s[2] \cup {choice.source} => card'[e] = card[e]
  <2>1. e \notin s[1] \cup s[2] \cup {choice.source} => card'[e] = [card[e] EXCEPT !.zone = card[e].zone]
    BY <1>4
  <2> QED BY <1>3, <2>1, SameRecord
<1>10. DOMAIN card' = Deal
  <2> HIDE DEF zone
  <2> QED BY <1>4
<1>11. InPlace(e)'
  <2>1. strategy'[p] = t /\ \A q \in Players : q # p => strategy'[q] = strategy[q]
    <3> HIDE DEF t
    <3> QED BY <1>1, <1>3
  <2>2. card'[e].zone # card[e].zone => card[e].by = p /\ card[e].zone # "CAMPAIGN"
    BY <1>6, <1>9 DEF Stacked
  <2>3. card[e].by = p => (card'[e].zone = "HAND" <=> e \in t.hand)
    BY <1>5, <1>6, <1>8 DEF Stacked
  <2>4. e \in t.hand => card[e].by = p
    BY <1>5, <1>6
  <2>5. e \in t.deck => card[e].by = p /\ card'[e].zone \in Stacked
    BY <1>5, <1>6, <1>8 DEF Stacked
  <2> HIDE DEF zone, t
  <2> QED BY <1>1, <1>7, <1>8, <1>10, <2>1, <2>2, <2>3, <2>4, <2>5, HandedOut
<1>12. Right(e)
  <2> SUFFICES ASSUME Flattened(card)[e] # Flattened(card')[e] PROVE Rightly(e)
    BY DEF Right
  <2>1. e \in s[1] \cup s[2] \cup {choice.source}
    BY <1>3, <1>9, <1>10 DEF Flattened
  <2>2. CASE e \in s[1] \cup s[2]
    BY <1>2, <1>6, <2>2, PickedCards DEF Rightly
  <2>3. CASE e = choice.source
    BY <1>2, <1>6, <2>3 DEF Rightly
  <2> QED BY <2>1, <2>2, <2>3
<1> QED BY <1>11, <1>12

\* Every answer: what becomes of a card that was in place.
LEMMA AnswerRight ==
  ASSUME TypeInv, Calm, NEW p \in Players, Answer(p), NEW e \in Deal, InPlace(e)
  PROVE  (InPlace(e)' \/ Retrieved(e)) /\ HandExact(e)' /\ Right(e)
<1>1. /\ choice # NoChoice /\ choice.chooser = p /\ table' = table /\ phase' = phase
      /\ choice.effect = "priority" => phase = "ACTION_STAGE_PLAN"
  BY DEF Answer
<1>2. PICK s \in Picks : \/ AnswerSearch(p, s) \/ AnswerSwap(p, s)
                         \/ AnswerSpy(s) \/ AnswerDiscard(s) \/ AnswerRetrieve(s)
  BY DEF Answer
<1>3. InPlace(e)' => HandExact(e)'
  BY DEF InPlace, HandExact
<1>4. Asked
  BY DEF Calm
<1>5. CASE AnswerSearch(p, s)
  <2>1. phase = "ACTION_STAGE_PLAN"
    BY <1>1, <1>5 DEF AnswerSearch
  <2> QED BY <1>1, <1>3, <1>5, <2>1, SearchRight
<1>6. CASE AnswerSwap(p, s)
  BY <1>1, <1>3, <1>4, <1>6, SwapRight
<1>7. CASE AnswerSpy(s)
  BY <1>1, <1>3, <1>4, <1>7, SpyRight
<1>8. CASE AnswerDiscard(s)
  BY <1>1, <1>3, <1>4, <1>8, DiscardRight
<1>9. CASE AnswerRetrieve(s)
  BY <1>1, <1>4, <1>9, RetrieveRight
<1> QED BY <1>2, <1>5, <1>6, <1>7, <1>8, <1>9

\* What it leaves of the planning stage and what it asks.
LEMMA AnswerCalm ==
  ASSUME TypeInv, Calm, NEW p \in Players, Answer(p)
  PROVE  Planned' /\ Asked'
<1>1. /\ choice # NoChoice /\ choice.chooser = p /\ table' = table /\ phase' = phase
      /\ phase = "ACTION_STAGE_PLAN" <=> choice.effect = "priority"
  BY DEF Answer
<1>2. PICK s \in Picks : \/ AnswerSearch(p, s) \/ AnswerSwap(p, s)
                         \/ AnswerSpy(s) \/ AnswerDiscard(s) \/ AnswerRetrieve(s)
  BY DEF Answer
<1>3. CASE AnswerSearch(p, s)
  <2>1. phase = "ACTION_STAGE_PLAN"
    BY <1>1, <1>3 DEF AnswerSearch
  <2> QED BY <1>1, <1>3, <2>1, SearchRight
<1>4. ASSUME AnswerSwap(p, s) \/ AnswerSpy(s) \/ AnswerDiscard(s) \/ AnswerRetrieve(s)
      PROVE  Asked'
  <2>1. choice' = NoChoice
    BY <1>4 DEF AnswerSwap, AnswerSpy, AnswerDiscard, AnswerRetrieve, Settle
  <2> QED BY <1>1, <2>1, AskedNothing DEF Calm
<1>5. ASSUME AnswerSwap(p, s) \/ AnswerSpy(s) \/ AnswerRetrieve(s) PROVE Planned'
  <2>1. phase # "ACTION_STAGE_PLAN"
    BY <1>1, <1>5 DEF AnswerSwap, AnswerSpy, AnswerRetrieve
  <2> QED BY <1>1, <2>1 DEF Planned
<1>6. CASE AnswerDiscard(s)
  <2>1. Planned'
    BY <1>1, <1>6, DiscardPlanned DEF Calm
  <2> QED BY <1>4, <1>6, <2>1
<1> QED BY <1>2, <1>3, <1>4, <1>5, <1>6

(***************************************************************************)
(* Every step.                                                             *)
(***************************************************************************)

\* A reaction.
LEMMA ReactInPlace ==
  ASSUME TypeInv, NEW e \in Deal, InPlace(e), NEW p \in Players, NEW c \in DOMAIN card, React(p, c)
  PROVE  InPlace(e)'
<1>1. /\ IsOpen
      /\ Negate(p, c) \/ FirstRefusal(p, c) \/ Intercept(p, c) \/ HackBack(p, c) \/ Object(p, c)
  BY DEF React, HasPriority
<1>2. window.by \in Players
  BY <1>1 DEF TypeInv, WindowOK
<1>3. card[c].zone = "HAND"
  BY HeldCard DEF React
<1>4. DOMAIN card = Deal /\ Leaves(card, {}) /\ Leaves(card, mat[window.by])
  BY LeavesAll
<1>5. PICK thrown : thrown = Discarded(card, {c})
  OBVIOUS
<1>6. /\ DOMAIN thrown = Deal /\ Leaves(thrown, {}) /\ Leaves(thrown, mat[window.by])
  BY <1>3, <1>4, <1>5, LeavesDiscarded
<1>7. CASE (Negate(p, c) \/ HackBack(p, c) \/ FirstRefusal(p, c)) /\ WriteBack(thrown) /\ mat' = mat
  BY <1>1, <1>6, <1>7, HandsInPlace
<1>8. CASE WriteBack(Discarded(thrown, mat[window.by])) /\ mat' = [mat EXCEPT ![window.by] = {}]
  <2>1. \A d \in mat[window.by] : d \in Deal => card[d].zone = "HAND" \/ d \in mat[window.by]
    OBVIOUS
  <2>2. /\ DOMAIN Discarded(thrown, mat[window.by]) = Deal
        /\ Leaves(Discarded(thrown, mat[window.by]), mat[window.by])
    BY <1>6, <2>1, LeavesDiscarded
  <2> QED BY <1>1, <1>2, <1>8, <2>2, CampaignInPlace
<1>9. CASE Intercept(p, c)
  <2>1. WriteBack(Discarded(card, {c, window.card})) /\ mat' = mat /\ Holds(window.by, window.card)
    BY <1>9 DEF Intercept
  <2>2. \A d \in {c, window.card} : d \in Deal => card[d].zone = "HAND" \/ d \in {}
    BY <1>3, <2>1, HeldCard
  <2>3. /\ DOMAIN Discarded(card, {c, window.card}) = Deal
        /\ Leaves(Discarded(card, {c, window.card}), {})
    BY <1>4, <2>2, LeavesDiscarded
  <2> QED BY <1>1, <2>1, <2>3, HandsInPlace
<1>10. CASE Object(p, c)
  <2>1. WriteBack(card) /\ mat' = mat
    BY <1>10 DEF Object
  <2> QED BY <1>1, <1>4, <2>1, HandsInPlace
<1>11. CASE FirstRefusal(p, c)
  BY <1>5, <1>7, <1>8, <1>11 DEF FirstRefusal
<1>12. CASE Negate(p, c) \/ HackBack(p, c)
  BY <1>5, <1>7, <1>12 DEF Negate, HackBack
<1> QED BY <1>1, <1>9, <1>10, <1>11, <1>12

\* The verdict on a veto.
LEMMA VerdictInPlace ==
  ASSUME TypeInv, NEW e \in Deal, InPlace(e), NEW votes, Verdict(votes), veto # NoVeto
  PROVE  InPlace(e)'
<1>1. veto.card \in Deal /\ veto.of \in Players /\ card[veto.card].zone = "HAND"
  BY DEF Verdict, TypeInv, VetoOK
<1>2. DOMAIN card = Deal /\ Leaves(card, {}) /\ Leaves(card, mat[veto.of])
  BY LeavesAll
<1>3. PICK thrown : thrown = Discarded(card, {veto.card})
  OBVIOUS
<1>4. DOMAIN thrown = Deal /\ Leaves(thrown, {}) /\ Leaves(thrown, mat[veto.of])
  BY <1>1, <1>2, <1>3, LeavesDiscarded
<1>5. PICK spent : spent = Removed(thrown, veto.card)
  OBVIOUS
<1>6. DOMAIN spent = Deal /\ Leaves(spent, {}) /\ Leaves(spent, mat[veto.of])
  BY <1>1, <1>4, <1>5, LeavesRemoved
<1>7. CASE Rejects(votes)
  <2>1. WriteBack(Discarded(spent, mat[veto.of])) /\ mat' = [mat EXCEPT ![veto.of] = {}]
    BY <1>3, <1>5, <1>7 DEF Verdict
  <2>2. \A d \in mat[veto.of] : d \in Deal => card[d].zone = "HAND" \/ d \in mat[veto.of]
    OBVIOUS
  <2>3. /\ DOMAIN Discarded(spent, mat[veto.of]) = Deal
        /\ Leaves(Discarded(spent, mat[veto.of]), mat[veto.of])
    BY <1>6, <2>2, LeavesDiscarded
  <2> QED BY <1>1, <2>1, <2>3, CampaignInPlace
<1>8. CASE ~Rejects(votes)
  <2>1. WriteBack(spent) /\ mat' = mat
    BY <1>3, <1>5, <1>8 DEF Verdict
  <2> QED BY <1>6, <2>1, HandsInPlace
<1> QED BY <1>7, <1>8

\* A core operation.
LEMMA OperateInPlace ==
  ASSUME TypeInv, NEW e \in Deal, InPlace(e), NEW o \in Operations(table), Operate(o)
  PROVE  InPlace(e)'
<1>1. o.by \in Players
  BY TableFacts DEF TypeInv
<1>2. DOMAIN card = Deal /\ Leaves(card, {}) /\ Leaves(card, mat[o.by]) /\ card \in [Deal -> Records]
  BY LeavesAll DEF TypeInv, CardsOK
<1>3. CASE Backlash(o) \/ Establish(o)
  <2>1. WriteBack(card) /\ mat' = mat
    BY <1>3 DEF Backlash, Establish
  <2> QED BY <1>2, <2>1, HandsInPlace
<1>4. CASE Modify(o)
  <2> DEFINE thrown == Discarded(card, {o.old})
             cards == [thrown EXCEPT ![o.new].zone = "CAMPAIGN"]
  <2>1. /\ o.old \in mat[o.by] /\ Holds(o.by, o.new) /\ WriteBack(cards)
        /\ mat' = [mat EXCEPT ![o.by] = (@ \ {o.old}) \cup {o.new}]
    BY <1>4 DEF Modify
  <2>2. o.new \in Deal /\ card[o.new].by = o.by /\ card[o.new].zone = "HAND"
    BY <2>1, HeldCard
  <2>3. DOMAIN thrown = Deal /\ \A d \in Deal : d # o.old => thrown[d] = card[d]
    BY <1>2 DEF Discarded
  <2>4. /\ DOMAIN cards = Deal /\ (e \notin {o.old, o.new} => cards[e] = card[e])
        /\ cards[o.new] = [thrown[o.new] EXCEPT !.zone = "CAMPAIGN"]
    <3> HIDE DEF thrown
    <3> QED BY <2>2, <2>3
  <2> HIDE DEF cards, thrown
  <2>5. \A q \in Players : e \in strategy[q].deck => cards[e] = card[e]
    <3>1. ASSUME NEW q \in Players, e \in strategy[q].deck PROVE e \notin {o.old, o.new}
      BY <1>1, <2>1, <2>2, <3>1 DEF InPlace, Stacked
    <3> QED BY <2>4, <3>1
  <2>6. ASSUME NEW q \in Players, e \in mat'[q] PROVE cards[e].by = q /\ cards[e].zone = "CAMPAIGN"
    <3>1. mat \in [Players -> SUBSET Deal]
      BY DEF TypeInv, BoardOK
    <3>2. CASE e = o.new
      <4>1. e \notin mat[o.by] /\ e \notin mat[q] /\ e # o.old
        BY <1>1, <2>1, <2>2, <3>2 DEF InPlace
      <4>2. q = o.by
        BY <1>1, <2>1, <2>6, <3>1, <4>1
      <4>3. cards[e] = [card[e] EXCEPT !.zone = "CAMPAIGN"]
        BY <2>2, <2>3, <2>4, <3>2, <4>1
      <4> QED BY <1>2, <2>2, <3>2, <4>2, <4>3 DEF Records
    <3>3. CASE e # o.new
      <4>1. e \in mat[q]
        BY <1>1, <2>1, <2>6, <3>1, <3>3
      <4>2. card[e].by = q /\ card[e].zone = "CAMPAIGN"
        BY <4>1 DEF InPlace
      <4>3. e # o.old
        <5>1. q # o.by => e # o.old
          BY <1>1, <2>1, <4>2 DEF InPlace
        <5>2. q = o.by => e # o.old
          BY <1>1, <2>1, <2>6, <3>1, <3>3
        <5> QED BY <5>1, <5>2
      <4> QED BY <2>4, <3>3, <4>2, <4>3
    <3> QED BY <3>2, <3>3
  <2> QED BY <2>1, <2>4, <2>5, <2>6, WrittenInPlace
<1>5. CASE Dismantle(o)
  <2>1. WriteBack(Discarded(card, mat[o.by])) /\ mat' = [mat EXCEPT ![o.by] = {}]
    BY <1>5 DEF Dismantle
  <2>2. \A d \in mat[o.by] : d \in Deal => card[d].zone = "HAND" \/ d \in mat[o.by]
    OBVIOUS
  <2>3. /\ DOMAIN Discarded(card, mat[o.by]) = Deal
        /\ Leaves(Discarded(card, mat[o.by]), mat[o.by])
    BY <1>2, <2>2, LeavesDiscarded
  <2> QED BY <1>1, <2>1, <2>3, CampaignInPlace
<1>6. CASE PlayStarter(o)
  <2>1. WriteBack(Removed(card, o.card)) /\ mat' = mat /\ Holds(o.by, o.card)
    BY <1>6 DEF PlayStarter
  <2>2. o.card \in Deal /\ card[o.card].zone = "HAND"
    BY <2>1, HeldCard
  <2>3. DOMAIN Removed(card, o.card) = Deal /\ Leaves(Removed(card, o.card), {})
    BY <1>2, <2>2, LeavesRemoved
  <2> QED BY <2>1, <2>3, HandsInPlace
<1>7. CASE Steal(o)
  <2>1. PICK c \in Hand(o.from) :
          WriteBack([card EXCEPT ![c] = [by |-> o.by, zone |-> "HAND", back |-> TRUE]])
    BY <1>7 DEF Steal
  <2>2. PICK cards : cards = [card EXCEPT ![c] = [by |-> o.by, zone |-> "HAND", back |-> TRUE]]
    OBVIOUS
  <2>3. c \in Deal /\ card[c].zone = "HAND"
    BY <1>2, <2>1 DEF Hand, Pile
  <2>4. DOMAIN cards = Deal /\ Leaves(cards, {})
    BY <1>2, <2>2, <2>3 DEF Leaves
  <2>5. WriteBack(cards) /\ mat' = mat
    BY <1>7, <2>1, <2>2 DEF Steal, boardVars
  <2> QED BY <2>4, <2>5, HandsInPlace
<1> QED BY <1>3, <1>4, <1>5, <1>6, <1>7 DEF Operate

\* Every step keeps a card in place, but for the retrieval.
LEMMA PlaceStep ==
  ASSUME TypeInv, Calm, [Next]_vars, NEW e \in Deal, InPlace(e)
  PROVE  InPlace(e)' \/ Retrieved(e)
<1>1. ASSUME UNCHANGED <<cardVars, mat>> PROVE InPlace(e)'
  BY <1>1, StillInPlace DEF cardVars
<1>2. CASE UNCHANGED vars \/ PlansLocked
  BY <1>1, <1>2 DEF vars, PlansLocked, boardVars
<1>3. ASSUME NEW p \in Players, NEW c \in DOMAIN card, PlayEffect(p, c) \/ React(p, c)
      PROVE  InPlace(e)'
  BY <1>3, EffectInPlace, ReactInPlace
<1>4. ASSUME NEW p \in Players, Answer(p) PROVE InPlace(e)' \/ Retrieved(e)
  BY <1>4, AnswerRight
<1>5. CASE \/ \E p \in Players : \/ \E t \in Triggers : OpenWindow(p, t)
                                 \/ Pass(p) \/ Defend(p)
           \/ \E reject \in BOOLEAN : ReviewAbuse(reject)
  BY <1>1, <1>5 DEF OpenWindow, Pass, Defend, ReviewAbuse, boardVars
<1>6. ASSUME NEW p \in Players, NEW v \in {"ACCEPTABLE", "UNACCEPTABLE"}, Vote(p, v)
      PROVE  InPlace(e)'
  <2>1. veto # NoVeto
    BY <1>6 DEF Vote, NoVeto
  <2>2. CASE \E votes : Verdict(votes)
    BY <2>1, <2>2, VerdictInPlace
  <2> QED BY <1>1, <1>6, <2>2 DEF Vote
<1>7. CASE \/ \E o \in table.loose : Core(o)
           \/ \E id \in DOMAIN table.plans : \E k \in DOMAIN table.plans[id] : RunPlan(id, k)
  <2>1. \E o \in Operations(table) : Operate(o)
    BY <1>7 DEF Core, RunPlan, Operations, Range
  <2> QED BY <2>1, OperateInPlace
<1> QED BY <1>2, <1>3, <1>4, <1>5, <1>6, <1>7 DEF Next

\* A table is played to its end, and no plan is made again.
LEMMA TableKept ==
  ASSUME TypeInv, [Next]_vars
  PROVE  table' = table /\ (phase' = phase \/ phase' # "ACTION_STAGE_PLAN")
BY DEF Next, vars, PlansLocked, PlayEffect, React, Answer, OpenWindow, Pass, Defend, Vote,
       ReviewAbuse, Core, RunPlan

\* And it keeps the rest.
LEMMA CalmStep ==
  ASSUME TypeInv, Calm, [Next]_vars PROVE Calm'
<1>1. table' = table /\ Deal' = Deal /\ (phase' = phase \/ phase' # "ACTION_STAGE_PLAN")
  BY TableKept DEF Deal
<1>2. phase' = "ACTION_STAGE_PLAN" => \A e \in Deal : InPlace(e)'
  <2> SUFFICES ASSUME phase' = "ACTION_STAGE_PLAN", NEW e \in Deal PROVE InPlace(e)'
    OBVIOUS
  <2>1. InPlace(e) /\ phase = "ACTION_STAGE_PLAN"
    BY <1>1 DEF Calm
  <2>2. ~Retrieved(e)
    BY <2>1 DEF Retrieved, Answer
  <2> QED BY <2>1, <2>2, PlaceStep
<1>3. CASE UNCHANGED <<table, cardVars, choice>> /\ (phase' = phase \/ phase' # "ACTION_STAGE_PLAN")
  <2>1. Asked'
    BY <1>3, AskedNothing DEF Calm
  <2>2. Planned'
    BY <1>3, PlannedStays DEF Calm, Planned, cardVars
  <2> QED BY <1>1, <1>2, <2>1, <2>2 DEF Calm
<1>4. CASE phase # "ACTION_STAGE_PLAN" /\ UNCHANGED <<table, phase, choice>>
  <2>1. Asked' /\ Planned'
    BY <1>4, AskedNothing DEF Calm, Planned
  <2> QED BY <1>1, <1>2, <2>1 DEF Calm
<1>5. CASE UNCHANGED vars \/ PlansLocked
  BY <1>3, <1>5 DEF vars, PlansLocked
<1>6. ASSUME NEW p \in Players, NEW c \in DOMAIN card, PlayEffect(p, c) PROVE Calm'
  BY <1>1, <1>2, <1>6, EffectCalm DEF Calm
<1>7. ASSUME NEW p \in Players, Answer(p) PROVE Calm'
  BY <1>1, <1>2, <1>7, AnswerCalm DEF Calm
<1>8. CASE \/ \E p \in Players : \/ \E c \in DOMAIN card : React(p, c)
                                 \/ \E t \in Triggers : OpenWindow(p, t)
                                 \/ Pass(p) \/ Defend(p)
                                 \/ \E v \in {"ACCEPTABLE", "UNACCEPTABLE"} : Vote(p, v)
           \/ \E reject \in BOOLEAN : ReviewAbuse(reject)
           \/ \E o \in table.loose : Core(o)
           \/ \E id \in DOMAIN table.plans : \E k \in DOMAIN table.plans[id] : RunPlan(id, k)
  BY <1>4, <1>8 DEF React, OpenWindow, Pass, Defend, Vote, ReviewAbuse, Core, RunPlan
<1> QED BY <1>5, <1>6, <1>7, <1>8 DEF Next

\* The first state of a table.
LEMMA PlaceInit ==
  ASSUME Init PROVE Calm /\ \A e \in Deal : InPlace(e)
<1>1. /\ DOMAIN card = Deal
      /\ \A d \in Deal : card[d] = [by |-> d[1], zone |-> table.cards[d], back |-> FALSE]
      /\ \A p \in Players : /\ strategy[p].deck = Pile(card, p, "OPERATIONS_DECK")
                            /\ strategy[p].hand = Pile(card, p, "HAND")
                            /\ strategy[p].discard = Pile(card, p, "DISCARD")
                            /\ mat[p] = Pile(card, p, "CAMPAIGN")
  BY DEF Init, Deal
<1>2. phase = "ACTION_STAGE_PLAN" => \A d \in Deal : IsStarter(d) => table.cards[d] \notin Stacked
  BY TablesAssumption DEF Init, TablesAssumption, Deal, Stacked
<1>3. \A e \in Deal : InPlace(e)
  BY <1>1 DEF InPlace, Holds, Hand, Pile, Stacked
<1>4. Planned
  <2> SUFFICES ASSUME phase = "ACTION_STAGE_PLAN" PROVE Planned
    BY DEF Planned
  <2>1. \A d \in Deal : card[d].back = FALSE /\ (IsStarter(d) => card[d].zone \notin Stacked)
    BY <1>1, <1>2
  <2>2. ASSUME NEW q \in Players, NEW d \in strategy[q].discard
        PROVE  card[d].by = q /\ ~IsStarter(d) /\ card[d].zone # "CAMPAIGN"
    BY <1>1, <2>1, <2>2 DEF Pile, Stacked
  <2> QED BY <2>1, <2>2 DEF Planned
<1>5. Asked
  BY DEF Init, Asked, NoChoice, OwnSearches
<1> QED BY <1>3, <1>4, <1>5 DEF Calm

\* In every state reached, whatever is out of place.
LEMMA Calmness == Spec => [](TypeInv /\ Calm)
<1>1. Init => TypeInv /\ Calm
  BY TypeInit, PlaceInit
<1>2. TypeInv /\ Calm /\ [Next]_vars => (TypeInv /\ Calm)'
  BY TypeStep, CalmStep
<1> QED BY <1>1, <1>2, PTL DEF Spec

\* Whatever is drawn, exchanged, stolen, answered, vetoed or run by plans, on any
\* table, a card that is where its record says stays so, unless the discard
\* effect retrieves it while a deck lists it (applyM2StateToCanonical,
\* submitM2EffectChoice, resolveDrawnCard).
THEOREM OnlyRetrieval == Spec => OnlyRetrievalMisplaces
<1>1. TypeInv /\ Calm /\ [Next]_vars =>
        [\A c \in Cards : InPlace(c) => InPlace(c)' \/ Retrieved(c)]_vars
  <2>1. TypeInv => Cards = Deal
    BY DEF Cards, TypeInv, CardsOK
  <2> QED BY <2>1, PlaceStep
<1> QED BY <1>1, Calmness, PTL DEF Spec, OnlyRetrievalMisplaces

\* A card whose place in a hand has changed has another record, flattened or not.
LEMMA MovedRecord ==
  ASSUME TypeInv, TypeInv', table' = table, NEW c \in Deal, HandExact(c), HandExact(c)', Moved(c)
  PROVE  Flattened(card)[c] # Flattened(card')[c]
<1> SUFFICES ASSUME Flattened(card)[c] = Flattened(card')[c] PROVE FALSE
  OBVIOUS
<1>1. PICK q \in Players : ~ (c \in strategy[q].hand <=> c \in strategy'[q].hand)
  BY DEF Moved
<1>2. /\ DOMAIN card = Deal /\ DOMAIN card' = Deal
      /\ card[c] \in Records /\ card'[c] \in Records
  BY DEF TypeInv, CardsOK, Deal, Records
<1>3. /\ c \in strategy[q].hand <=> card[c].by = q /\ card[c].zone = "HAND"
      /\ c \in strategy'[q].hand <=> card'[c].by = q /\ card'[c].zone = "HAND"
  BY <1>2 DEF HandExact, Holds, Hand, Pile
<1>4. /\ Flattened(card)[c].by = card[c].by
      /\ Flattened(card)[c].zone = "HAND" <=> card[c].zone = "HAND"
  BY <1>2 DEF Flattened, Records
<1>5. /\ Flattened(card')[c].by = card'[c].by
      /\ Flattened(card')[c].zone = "HAND" <=> card'[c].zone = "HAND"
  BY <1>2 DEF Flattened, Records
<1> QED BY <1>1, <1>3, <1>4, <1>5

\* On any table, an answer, however late, takes a card that is in place only from
\* where it is, or is of the card that was played (submitM2EffectChoice).
THEOREM CurrentAnswers == Spec => AnswersAreCurrent
<1>1. ASSUME TypeInv, Calm, TypeInv', NEW p \in Players, NEW c \in Cards, Answer(p), InPlace(c), Moved(c)
      PROVE  Rightly(c)
  <2>1. c \in Deal /\ table' = table
    BY <1>1 DEF TypeInv, CardsOK, Cards, Answer
  <2>2. HandExact(c)' /\ Right(c)
    BY <1>1, <2>1, AnswerRight
  <2>3. HandExact(c)
    BY <1>1 DEF InPlace, HandExact
  <2>4. Flattened(card)[c] # Flattened(card')[c]
    BY <1>1, <2>1, <2>2, <2>3, MovedRecord
  <2> QED BY <2>2, <2>4 DEF Right
<1>2. TypeInv /\ Calm /\ TypeInv' =>
        [\A p \in Players, c \in Cards :
           Answer(p) /\ InPlace(c) /\ Moved(c) =>
             \/ c = choice.source /\ card[c].by = choice.actor
             \/ /\ \E i \in DOMAIN choice.groups : c \in choice.groups[i].from
                /\ card[c].by = choice.target]_vars
  BY <1>1 DEF Rightly
<1> QED BY <1>2, Calmness, PTL DEF Spec, AnswersAreCurrent

\* No card of the table is the discard effect, which alone retrieves a card.
NoRetrieval == \A c \in Deal : c[2] # "discard"

AllInPlace == \A c \in Deal : InPlace(c)

\* Without the discard effect every card is in place for ever, and what is said
\* of answers holds of every card (applyM2StateToCanonical).
THEOREM InPlaceWithoutRetrieval == Spec /\ NoRetrieval => []AllInPlace
<1>1. Init => AllInPlace
  BY PlaceInit DEF AllInPlace
<1>2. ASSUME TypeInv, Calm, AllInPlace, NoRetrieval, [Next]_vars PROVE AllInPlace' /\ NoRetrieval'
  <2>1. table' = table /\ Deal' = Deal
    BY <1>2, TableKept DEF Deal
  <2>2. ASSUME NEW e \in Deal PROVE ~Retrieved(e)
    BY <1>2 DEF Retrieved, Calm, Asked, NoRetrieval
  <2>3. \A e \in Deal : InPlace(e)'
    BY <1>2, <2>2, PlaceStep DEF AllInPlace
  <2> QED BY <1>2, <2>1, <2>3 DEF AllInPlace, NoRetrieval
<1>3. TypeInv /\ Calm /\ AllInPlace /\ NoRetrieval /\ [Next]_vars => AllInPlace' /\ NoRetrieval'
  BY <1>2
<1> QED BY <1>1, <1>3, Calmness, PTL DEF Spec

===============================================================================
