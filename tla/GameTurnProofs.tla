---------------------------- MODULE GameTurnProofs ----------------------------
(***************************************************************************)
(* Proofs about GameTurn, for every number of players, demographics and    *)
(* cards: what a question of the cleanup is about, where money and cards   *)
(* are, the types, and what is left when cubes cancel each other.          *)
(***************************************************************************)
EXTENDS GameTurn, DataProofs

-------------------------------------------------------------------------------
(***************************************************************************)
(* Players, seats and the order of the initiative.                         *)
(***************************************************************************)

\* What the assumptions say of the canonical topology.
LEMMA Topology ==
  /\ IsFiniteSet(Players) /\ IsFiniteSet(Countries)
  /\ \A p \in Players : Home[p] \in Countries /\ Index[p] \in Places /\ Index[p] \in Nat
  /\ \A p, q \in Players : Home[p] = Home[q] => p = q
  /\ \A p, q \in Players : Index[p] = Index[q] => p = q
<1>1. /\ Home \in [Players -> Countries] /\ Index \in [Players -> Places]
      /\ DOMAIN Home = Players /\ DOMAIN Index = Players
      /\ IsFiniteSet(Players) /\ Places \subseteq Nat
  BY TopologyAssumption
<1>2. Countries = {Home[p] : p \in Players} /\ Places = {Index[p] : p \in Players}
  BY <1>1 DEF Countries, Places, Range
<1>3. IsFiniteSet(Countries)
  <2>1. Home \in Surjection(Players, Countries)
    BY <1>1, <1>2 DEF Surjection
  <2> QED BY <1>1, <2>1, FS_Surjection
<1>4. /\ \A p, q \in Players : Home[p] = Home[q] => p = q
      /\ \A p, q \in Players : Index[p] = Index[q] => p = q
  BY <1>1, TopologyAssumption DEF IsInjective
<1> QED BY <1>1, <1>2, <1>3, <1>4

\* Everyone sits in the canonical seat and is seated.
LEMMA Canonical ==
  ASSUME CanonicalSeating
  PROVE  /\ Seated = Players
         /\ \A p \in Players : /\ seat[p].country = Home[p] /\ seat[p].index = Index[p]
                               /\ seat[p].country \in Countries /\ seat[p].index \in Nat
         /\ \A p, q \in Players : seat[p].country = seat[q].country => p = q
<1>1. ASSUME NEW p \in Players
      PROVE  seat[p].country = Home[p] /\ seat[p].index = Index[p]
  <2>1. seat[p] = [country |-> Home[p], index |-> Index[p]]
    BY DEF CanonicalSeating
  <2> QED BY <2>1
<1>2. \A p \in Players : seat[p] # NoSeat
  BY <1>1, Topology, TopologyAssumption DEF NoSeat
<1> QED BY <1>1, <1>2, Topology DEF Seated

\* How many seats are before that of p.
SeatsBefore(p) == Cardinality({q \in Players : Index[q] < Index[p]})

\* The places of the players are 0, 1, ... in the order of their seats.
LEMMA SeatRanks ==
  LET n == Cardinality(Players)
  IN  /\ n \in Nat
      /\ \A p \in Players : SeatsBefore(p) \in 0 .. n - 1
      /\ \A p, q \in Players : SeatsBefore(p) = SeatsBefore(q) => p = q
      /\ \A r \in 0 .. n - 1 : \E p \in Players : SeatsBefore(p) = r
<1> DEFINE n == Cardinality(Players)
           before(p) == {q \in Players : Index[q] < Index[p]}
           f == [p \in Players |-> SeatsBefore(p)]
<1>1. IsFiniteSet(Players) /\ n \in Nat
  BY Topology, FS_CardinalityType
<1>2. ASSUME NEW p \in Players
      PROVE  /\ before(p) \subseteq Players /\ p \notin before(p)
             /\ IsFiniteSet(before(p)) /\ Cardinality(before(p)) \in Nat
             /\ Cardinality(before(p)) < n
  <2>1. before(p) \subseteq Players /\ p \notin before(p)
    BY Topology
  <2> HIDE DEF before
  <2>2. /\ IsFiniteSet(before(p)) /\ Cardinality(before(p)) \in Nat
        /\ Cardinality(before(p)) <= n /\ Cardinality(before(p)) # n
    BY <1>1, <2>1, FS_Subset, FS_CardinalityType
  <2> QED BY <1>1, <2>1, <2>2
<1>3. ASSUME NEW p \in Players, NEW q \in Players, Index[p] < Index[q]
      PROVE  SeatsBefore(p) < SeatsBefore(q)
  <2>1. before(p) \subseteq before(q) /\ p \in before(q) /\ p \notin before(p)
    BY <1>3, Topology
  <2>2. IsFiniteSet(before(q)) /\ Cardinality(before(p)) \in Nat /\ Cardinality(before(q)) \in Nat
    BY <1>2
  <2>3. Cardinality(before(p)) = SeatsBefore(p) /\ Cardinality(before(q)) = SeatsBefore(q)
    BY DEF SeatsBefore
  <2> HIDE DEF before
  <2>4. Cardinality(before(p)) <= Cardinality(before(q)) /\ Cardinality(before(p)) # Cardinality(before(q))
    BY <2>1, <2>2, FS_Subset
  <2> QED BY <2>2, <2>3, <2>4
<1>4. \A p \in Players : SeatsBefore(p) \in 0 .. n - 1
  <2> TAKE p \in Players
  <2>1. SeatsBefore(p) = Cardinality(before(p))
    BY DEF SeatsBefore
  <2> HIDE DEF before, n
  <2> QED BY <1>1, <1>2, <2>1
<1>5. \A p, q \in Players : SeatsBefore(p) = SeatsBefore(q) => p = q
  <2> SUFFICES ASSUME NEW p \in Players, NEW q \in Players, p # q
               PROVE  SeatsBefore(p) # SeatsBefore(q)
    OBVIOUS
  <2>1. Index[p] \in Nat /\ Index[q] \in Nat /\ Index[p] # Index[q]
    BY Topology
  <2>2. SeatsBefore(p) \in Int /\ SeatsBefore(q) \in Int
    BY <1>4
  <2>3. Index[p] < Index[q] \/ Index[q] < Index[p]
    BY <2>1
  <2> QED BY <1>3, <2>2, <2>3
<1>6. \A r \in 0 .. n - 1 : \E p \in Players : SeatsBefore(p) = r
  <2>1. IsFiniteSet(0 .. n - 1) /\ Cardinality(0 .. n - 1) = n
    <3>1. PICK zero \in Int : zero = 0
      OBVIOUS
    <3>2. PICK last \in Int : last = n - 1
      BY <1>1
    <3>3. IsFiniteSet(zero .. last) /\ Cardinality(zero .. last) = IF zero > last THEN 0 ELSE last - zero + 1
      BY FS_Interval
    <3> QED BY <1>1, <3>1, <3>2, <3>3
  <2>2. f \in [Players -> 0 .. n - 1]
    BY <1>4
  <2>3. f \in Injection(Players, 0 .. n - 1)
    <3>1. \A p, q \in Players : f[p] = f[q] => p = q
      BY <1>5
    <3> HIDE DEF f, n
    <3> QED BY <2>2, <3>1 DEF Injection, IsInjective
  <2> HIDE DEF f, n
  <2>4. f \in Surjection(Players, 0 .. n - 1)
    BY <2>1, <2>3, FS_Injection DEF n
  <2>5. \A r \in 0 .. n - 1 : \E p \in Players : f[p] = r
    BY <2>4 DEF Surjection
  <2> QED BY <2>5 DEF f
<1> QED BY <1>1, <1>4, <1>5, <1>6

\* A remainder of two numbers below n.
LEMMA Wrapped ==
  ASSUME NEW n \in Nat \ {0}, NEW a \in 0 .. n - 1, NEW k \in 0 .. n - 1
  PROVE  /\ (a + k) % n \in 0 .. n - 1
         /\ a + k < n => (a + k) % n = a + k
         /\ a + k >= n => (a + k) % n = a + k - n
OBVIOUS

\* The roll makes an order of all players.
LEMMA OrderIsFull ==
  ASSUME CanonicalSeating, NEW winner \in Players
  PROVE  /\ OrderFrom(winner) \in Seq(Players)
         /\ \A p \in Players : \E k \in DOMAIN OrderFrom(winner) : OrderFrom(winner)[k] = p
<1> DEFINE n == Cardinality(Players)
           w == SeatsBefore(winner)
           at(k) == CHOOSE p \in Players : SeatsBefore(p) = (w + k - 1) % n
<1>1. /\ n \in Nat \ {0}
      /\ \A p \in Players : SeatsBefore(p) \in 0 .. n - 1
      /\ \A p, q \in Players : SeatsBefore(p) = SeatsBefore(q) => p = q
      /\ \A r \in 0 .. n - 1 : \E p \in Players : SeatsBefore(p) = r
  <2>1. /\ n \in Nat
        /\ \A p \in Players : SeatsBefore(p) \in 0 .. n - 1
        /\ \A p, q \in Players : SeatsBefore(p) = SeatsBefore(q) => p = q
        /\ \A r \in 0 .. n - 1 : \E p \in Players : SeatsBefore(p) = r
    BY SeatRanks
  <2> HIDE DEF n
  <2>2. SeatsBefore(winner) \in 0 .. n - 1
    BY <2>1
  <2> QED BY <2>1, <2>2
<1>2. OrderFrom(winner) = [k \in 1 .. n |-> at(k)]
  <2>1. \A p \in Players : {q \in Players : seat[q].index < seat[p].index}
                             = {q \in Players : Index[q] < Index[p]}
    BY Canonical
  <2>2. \A p \in Players : Cardinality({q \in Players : seat[q].index < seat[p].index}) = SeatsBefore(p)
    BY <2>1 DEF SeatsBefore
  <2> QED BY <2>2 DEF OrderFrom
<1> HIDE DEF n
<1>3. \A k \in 1 .. n : at(k) \in Players /\ SeatsBefore(at(k)) = (w + k - 1) % n
  <2> TAKE k \in 1 .. n
  <2>1. (w + (k - 1)) % n \in 0 .. n - 1
    <3>1. w \in 0 .. n - 1 /\ k - 1 \in 0 .. n - 1
      BY <1>1
    <3> HIDE DEF w
    <3> QED BY <1>1, <3>1, Wrapped
  <2>2. w + (k - 1) = w + k - 1
    BY <1>1
  <2> QED BY <1>1, <2>1, <2>2
<1>4. OrderFrom(winner) \in Seq(Players)
  <2> HIDE DEF at
  <2> QED BY <1>1, <1>2, <1>3
<1>5. ASSUME NEW p \in Players
      PROVE  \E k \in 1 .. n : at(k) = p
  <2> DEFINE b == SeatsBefore(p)
             k == IF b >= w THEN b - w + 1 ELSE b - w + 1 + n
  <2>1. w \in 0 .. n - 1 /\ b \in 0 .. n - 1
    BY <1>1
  <2> HIDE DEF w, b
  <2>2. k \in 1 .. n /\ k - 1 \in 0 .. n - 1
    BY <1>1, <2>1
  <2>3. (w + (k - 1)) % n = b
    <3>1. /\ w + (k - 1) < n => (w + (k - 1)) % n = w + (k - 1)
          /\ w + (k - 1) >= n => (w + (k - 1)) % n = w + (k - 1) - n
      <4> HIDE DEF k
      <4> QED BY <1>1, <2>1, <2>2, Wrapped
    <3>2. CASE b >= w
      <4>1. w + (k - 1) = b
        BY <1>1, <2>1, <3>2
      <4> HIDE DEF k
      <4> QED BY <1>1, <2>1, <3>1, <4>1
    <3>3. CASE ~ (b >= w)
      <4>1. w + (k - 1) = b + n
        BY <1>1, <2>1, <3>3
      <4> HIDE DEF k
      <4> QED BY <1>1, <2>1, <3>1, <4>1
    <3> QED BY <3>2, <3>3
  <2>4. w + (k - 1) = w + k - 1
    BY <1>1, <2>1, <2>2
  <2> HIDE DEF k, at
  <2>5. SeatsBefore(at(k)) = b /\ at(k) \in Players
    BY <1>3, <2>2, <2>3, <2>4
  <2> QED BY <1>1, <2>2, <2>5 DEF b
<1>6. DOMAIN OrderFrom(winner) = 1 .. n /\ \A k \in 1 .. n : OrderFrom(winner)[k] = at(k)
  BY <1>2
<1> HIDE DEF at
<1> QED BY <1>4, <1>5, <1>6

-------------------------------------------------------------------------------
(***************************************************************************)
(* Filling a hand.                                                         *)
(***************************************************************************)

\* One round of the loop of lockInitiativeMaintenance.
FillStep(t) == IF Full(t) \/ Exhausted(t) THEN {t} ELSE DrawAny(Reshuffled(t))

\* What k rounds may leave, given what each smaller number of rounds may leave.
AfterRounds(s, g, k) == IF k = 0 THEN {s} ELSE UNION {FillStep(t) : t \in g[k - 1]}

\* There is a function that says what each number of rounds may leave.
LEMMA RoundsExist ==
  ASSUME NEW s, NEW n \in Nat
  PROVE  \E g : g = [k \in 0 .. n |-> AfterRounds(s, g, k)]
<1> DEFINE D(g, m) == [k \in 0 .. m |-> AfterRounds(s, g, k)]
           Bad == {m \in Nat : ~ \E g : g = D(g, m)}
<1>1. Bad = {}
  <2> SUFFICES ASSUME Bad # {} PROVE FALSE
    OBVIOUS
  <2>1. PICK m \in Bad : \A k \in Bad : m <= k
    <3>1. Bad \in SUBSET Nat
      OBVIOUS
    <3> HIDE DEF Bad
    <3> QED BY <3>1, LeastNumber
  <2>2. CASE m = 0
    <3> DEFINE g == [k \in 0 .. 0 |-> {s}]
    <3>1. g = D(g, 0)
      BY DEF AfterRounds
    <3> HIDE DEF g, D
    <3> QED BY <2>1, <2>2, <3>1 DEF Bad
  <2>3. CASE m # 0
    <3>1. m - 1 \in Nat /\ m \in Nat
      BY <2>1, <2>3
    <3>2. m - 1 \notin Bad
      <4>1. ~ (m <= m - 1)
        BY <3>1
      <4> HIDE DEF Bad
      <4> QED BY <2>1, <4>1
    <3>3. PICK h : h = D(h, m - 1)
      BY <3>1, <3>2
    <3> DEFINE g == [k \in 0 .. m |-> IF k = m THEN AfterRounds(s, h, m) ELSE h[k]]
    <3>4. \A k \in 0 .. m : g[k] = AfterRounds(s, g, k)
      <4> TAKE k \in 0 .. m
      <4>1. CASE k = 0
        <5>1. h[0] = {s} /\ g[0] = h[0]
          BY <3>1, <3>3, <2>3 DEF AfterRounds
        <5> QED BY <4>1, <5>1 DEF AfterRounds
      <4>2. CASE k # 0
        <5>1. k - 1 \in 0 .. m - 1 /\ k - 1 # m /\ k - 1 \in 0 .. m
          BY <3>1, <4>2
        <5>2. g[k - 1] = h[k - 1]
          BY <5>1
        <5>3. AfterRounds(s, g, k) = AfterRounds(s, h, k)
          BY <4>2, <5>2 DEF AfterRounds
        <5>4. g[k] = AfterRounds(s, h, k)
          <6>1. CASE k = m
            BY <6>1
          <6>2. CASE k # m
            <7>1. k \in 0 .. m - 1
              BY <3>1, <6>2
            <7> QED BY <3>3, <6>2, <7>1
          <6> QED BY <6>1, <6>2
        <5> QED BY <5>3, <5>4
      <4> QED BY <4>1, <4>2
    <3>5. g = D(g, m)
      <4>1. g = [k \in 0 .. m |-> g[k]]
        OBVIOUS
      <4> HIDE DEF g
      <4> QED BY <3>4, <4>1
    <3> HIDE DEF g, D
    <3> QED BY <3>5 DEF Bad
  <2> QED BY <2>2, <2>3
<1>2. \E g : g = D(g, n)
  BY <1>1
<1> QED BY <1>2

\* Filling a hand stays in a set that every round stays in.
LEMMA FilledStays ==
  ASSUME NEW s, table.limit \in Nat, NEW T, s \in T,
         \A t \in T : FillStep(t) \subseteq T
  PROVE  Filled(s) \subseteq {t \in T : Full(t) \/ Exhausted(t)}
<1> DEFINE n == 2 * table.limit
           D(g) == [k \in 0 .. n |-> AfterRounds(s, g, k)]
           after == CHOOSE g : g = D(g)
           Bad == {k \in 0 .. n : ~ (after[k] \subseteq T)}
<1>0. n \in Nat
  OBVIOUS
<1>1. after = D(after)
  <2> HIDE DEF n
  <2> QED BY <1>0, RoundsExist
<1>2. Filled(s) = {t \in after[n] : Full(t) \/ Exhausted(t)}
  BY DEF Filled, AfterRounds, FillStep
<1> HIDE DEF n
<1>3. \A k \in 0 .. n : after[k] = AfterRounds(s, after, k)
  <2>1. \A g : g = D(g) => \A k \in 0 .. n : g[k] = AfterRounds(s, g, k)
    OBVIOUS
  <2> HIDE DEF D, after
  <2> QED BY <1>1, <2>1
<1> HIDE DEF after
<1>4. Bad = {}
  <2> SUFFICES ASSUME Bad # {} PROVE FALSE
    OBVIOUS
  <2>1. PICK m \in Bad : \A k \in Bad : m <= k
    <3>1. Bad \in SUBSET Nat
      BY <1>0
    <3> HIDE DEF Bad
    <3> QED BY <3>1, LeastNumber
  <2>2. m # 0
    BY <1>3 DEF AfterRounds
  <2>3. m - 1 \in 0 .. n /\ ~ (m <= m - 1)
    BY <1>0, <2>2
  <2>4. after[m - 1] \subseteq T
    BY <2>1, <2>3
  <2>5. after[m] = UNION {FillStep(t) : t \in after[m - 1]}
    BY <1>3, <2>2 DEF AfterRounds
  <2> QED BY <2>4, <2>5
<1>5. n \in 0 .. n
  BY <1>0
<1> QED BY <1>2, <1>4, <1>5

-------------------------------------------------------------------------------
(***************************************************************************)
(* The invariant.                                                          *)
(***************************************************************************)

Phases == {"SETUP", "STRATEGY_STAGE", "INITIATIVE_STAGE", "ACTION_STAGE_PLAN",
           "RESOLUTION_STAGE"}
Steps  == {"NONE", "VIRAL_SNAPSHOT", "VIRAL_RESOLUTION"}
Kinds  == {"NONE", "INFLUENCE_TYPE", "DESTINATION_PD"}

\* The cards of the game.
Printed == UNION {{n} \X (Starters \cup table.pool[n]) : n \in Countries}

Cleanups == [step : Steps, choices : [PDs -> Types \cup {"NONE"}], left : SUBSET PDs]

SetupTypes ==
  /\ table \in Tables /\ phase \in Phases
  /\ paused \in BOOLEAN /\ variant \in {"BASELINE", "SHORT"}
  /\ joined \in SUBSET Players
  /\ seat \in [Players -> {NoSeat} \cup [country : Countries, index : Places]]
  /\ money \in [Countries -> Nat]
  /\ deals \in 0 .. table.deals /\ pauses \in 0 .. table.pauses

CardTypes ==
  /\ card \in [Printed -> [by : Players \cup {Nobody}, zone : Zones]]
  /\ strategy \in [Players -> [submitted : SUBSET Printed, deck : SUBSET Printed,
                               hand : SUBSET Printed, discard : SUBSET Printed, locked : BOOLEAN]]

StageTypes ==
  /\ initiative \in [status : {"PENDING_ROLL", "MAINTENANCE", "COMPLETE"}, order : Seq(Players)]
  /\ maintenance \in [Players -> [discards : SUBSET Printed, submitted : BOOLEAN, locked : BOOLEAN]]
  /\ planning \in [Players -> [cards : SUBSET Printed, locked : BOOLEAN, done : BOOLEAN]]

TurnTypes ==
  /\ mat \in [Players -> [row : {"NONE", "I", "II"}, cards : SUBSET Printed]]
  /\ board \in Boards /\ cleanup \in Cleanups
  /\ DOMAIN viralChoice = {"kind", "pd", "of", "options", "fresh"}
  /\ viralChoice.kind \in Kinds /\ viralChoice.fresh \in BOOLEAN
  /\ cleanups \in 0 .. table.cleanups

\* What the stages have left behind.
Stages ==
  /\ phase # "SETUP" => CanonicalSeating
  /\ phase = "SETUP" => \A p \in Players : ~maintenance[p].locked
  /\ phase \in {"ACTION_STAGE_PLAN", "RESOLUTION_STAGE"} => initiative.status = "COMPLETE"
  /\ initiative.status # "PENDING_ROLL" =>
       \A p \in Players : \E k \in DOMAIN initiative.order : initiative.order[k] = p
  /\ initiative.status # "COMPLETE" => cleanups = 0 /\ \A p \in Players : mat[p] = NoCampaign

\* What a question that can be answered is about.
Asked ==
  viralChoice.fresh =>
    /\ phase = "RESOLUTION_STAGE" /\ viralChoice.kind # "NONE" /\ cleanups # 0
    /\ viralChoice.kind = "INFLUENCE_TYPE" => cleanup.step = "VIRAL_SNAPSHOT"
    /\ viralChoice.kind = "DESTINATION_PD" =>
         /\ cleanup.step = "VIRAL_RESOLUTION"
         /\ viralChoice.pd \in cleanup.left
         /\ \A pd \in cleanup.left : /\ Near[pd] # {} /\ board.holder[pd] # Nobody
                                     /\ cleanup.choices[pd] \in Types

\* The cards that p controls in a zone.
In(p, z) == {c \in DOMAIN card : card[c] = [by |-> p, zone |-> z]}

Pools == {"STARTER_POOL", "OPERATIONS_POOL"}

\* Before a strategy is locked, its cards are in the pools and its piles are
\* empty; once it is, the piles are what the cards say.
Piles ==
  /\ phase = "SETUP" => \A p \in Players : ~strategy[p].locked
  /\ phase = "SETUP" => \A c \in Printed : card[c].zone \in Pools
  /\ phase \notin {"SETUP", "STRATEGY_STAGE"} => \A p \in Players : strategy[p].locked
  /\ \A p \in Players : ~strategy[p].locked =>
       /\ \A c \in Printed : card[c].by = p =>
            /\ c[1] = seat[p].country /\ card[c].zone \in Pools
       /\ strategy[p].hand = {} /\ strategy[p].deck = {} /\ strategy[p].discard = {}
  /\ \A p \in Players :
       /\ ~planning[p].done => mat[p] = NoCampaign
       /\ mat[p].row = "NONE" => mat[p].cards = {}
       /\ IsFiniteSet(strategy[p].hand)

\* What the assumptions say of an instance.
LEMMA Instances ==
  ASSUME NEW t \in Tables
  PROVE  /\ t.opening \in Nat /\ t.limit \in Nat /\ t.deals \in Nat /\ t.pauses \in Nat
         /\ Cardinality(Starters) + t.opening <= t.limit
         /\ t.cleanups \in Nat /\ t.endings \in Nat
         /\ t.board \in Boards /\ t.boards \subseteq Boards
BY HandAssumption, BoardAssumption

\* The invariant holds of a game that has been created.
LEMMA Created ==
  ASSUME Init
  PROVE  SetupTypes /\ CardTypes /\ StageTypes /\ TurnTypes /\ Stages /\ Asked /\ Piles
<1>0. table \in Tables
  BY DEF Init, PrepInit
<1>1. SetupTypes
  <2>1. /\ phase = "SETUP" /\ paused = FALSE /\ variant = "BASELINE" /\ joined = {}
        /\ seat = [p \in Players |-> NoSeat] /\ money = StartMoney /\ deals = 0 /\ pauses = 0
    BY DEF Init, PrepInit
  <2>2. StartMoney \in [Countries -> Nat]
    BY TopologyAssumption
  <2>3. table.deals \in Nat /\ table.pauses \in Nat
    BY <1>0, Instances
  <2>4. deals \in 0 .. table.deals /\ pauses \in 0 .. table.pauses
    BY <2>1, <2>3
  <2>5. seat \in [Players -> {NoSeat} \cup [country : Countries, index : Places]]
    BY <2>1
  <2> QED BY <1>0, <2>1, <2>2, <2>4, <2>5 DEF SetupTypes, Phases
<1>2. CardTypes
  <2>1. card = [c \in Printed |-> [by |-> Nobody,
                  zone |-> IF IsStarter(c) THEN "STARTER_POOL" ELSE "OPERATIONS_POOL"]]
    BY DEF Init, PrepInit, Printed
  <2>2. \A c \in Printed : (IF IsStarter(c) THEN "STARTER_POOL" ELSE "OPERATIONS_POOL") \in Zones
    BY DEF Zones
  <2>3. strategy = [p \in Players |-> EmptyStrategy]
    BY DEF Init, PrepInit
  <2> QED BY <2>1, <2>2, <2>3 DEF CardTypes, EmptyStrategy
<1>3. StageTypes
  BY DEF StageTypes, Init, PrepInit, NoMaintenance, NoPlan
<1>4. TurnTypes
  <2>1. board \in Boards /\ cleanups \in 0 .. table.cleanups
    BY <1>0, Instances DEF Init
  <2>2. cleanup \in Cleanups
    BY DEF Init, NoCleanup, Cleanups, Steps
  <2>3. /\ DOMAIN viralChoice = {"kind", "pd", "of", "options", "fresh"}
        /\ viralChoice.kind \in Kinds /\ viralChoice.fresh \in BOOLEAN
    BY DEF Init, NoQuestion, Kinds
  <2>4. mat \in [Players -> [row : {"NONE", "I", "II"}, cards : SUBSET Printed]]
    BY DEF Init, NoCampaign
  <2> QED BY <2>1, <2>2, <2>3, <2>4 DEF TurnTypes
<1>5. Stages
  BY DEF Stages, Init, PrepInit, NoMaintenance
<1>6. Asked
  BY DEF Asked, Init, NoQuestion
<1>7. Piles
  <2>1. \A c \in Printed : card[c].by = Nobody /\ card[c].zone \in Pools
    BY DEF Init, PrepInit, Printed, Pools
  <2>2. \A p \in Players : strategy[p] = EmptyStrategy /\ mat[p] = NoCampaign
    BY DEF Init, PrepInit
  <2>3. Nobody \notin Players /\ IsFiniteSet({})
    BY TopologyAssumption, FS_EmptySet
  <2> QED BY <2>1, <2>2, <2>3 DEF Piles, EmptyStrategy, NoCampaign, Init, PrepInit
<1> QED BY <1>1, <1>2, <1>3, <1>4, <1>5, <1>6, <1>7

-------------------------------------------------------------------------------
(***************************************************************************)
(* The types of what setup, stages and deals change.                       *)
(***************************************************************************)

\* The cleanup goes on or ends the turn.
LEMMA AdvancePhase ==
  ASSUME NEW k, NEW b, Advance(k, b)
  PROVE  phase' \in {phase, "INITIATIVE_STAGE"}
BY DEF Advance

\* The commands of the resolution stage leave setup, stages and money alone.
LEMMA TurnFrame ==
  ASSUME \/ RunCleanup
         \/ \E p \in Players : Answer(p)
         \/ \E p \in Players : ResolvePlan(p)
         \/ EndGame
  PROVE  /\ UNCHANGED <<setupVars, paused, money, deals, pauses, initiative, maintenance>>
         /\ phase = "RESOLUTION_STAGE" /\ phase' \in {phase, "INITIATIVE_STAGE"}
<1>1. CASE RunCleanup
  BY <1>1, AdvancePhase DEF RunCleanup, setupVars, stageVars
<1>2. ASSUME NEW p \in Players, Answer(p)
      PROVE  /\ UNCHANGED <<setupVars, paused, money, deals, pauses, initiative, maintenance>>
             /\ phase = "RESOLUTION_STAGE" /\ phase' \in {phase, "INITIATIVE_STAGE"}
  <2>1. CASE \E t \in Types : ChooseType(p, t)
    BY <2>1, AdvancePhase DEF ChooseType, setupVars, stageVars
  <2>2. CASE \E pd \in PDs : ChooseDestination(p, pd)
    BY <2>2, AdvancePhase DEF ChooseDestination, setupVars, stageVars
  <2> QED BY <1>2, <2>1, <2>2 DEF Answer
<1>3. CASE \E p \in Players : ResolvePlan(p)
  BY <1>3 DEF ResolvePlan, setupVars
<1>4. CASE EndGame
  BY <1>4 DEF EndGame, prepVars, setupVars, stageVars
<1> QED BY <1>1, <1>2, <1>3, <1>4

\* The instance stays.
LEMMA SameTable ==
  ASSUME [Next]_vars
  PROVE  table' = table
<1>1. CASE Setup
  BY <1>1 DEF Setup, Join, AssignSeat, ConfigureOption, StartGame, setupVars
<1>2. ASSUME NEW p \in Players, Prepare(p)
      PROVE  table' = table
  BY <1>2 DEF Prepare, SubmitDeck, LockStrategy, ResolveInitiative, SetMaintenance,
       LockMaintenance, DealResources, DealCard, SetPlan, LockPlan, setupVars
<1>3. CASE Overlay
  BY <1>3 DEF Overlay, Pause, Resume, setupVars
<1>4. CASE UNCHANGED vars
  BY <1>4 DEF vars, prepVars, setupVars
<1>5. CASE RunCleanup \/ (\E p \in Players : ResolvePlan(p) \/ Answer(p)) \/ EndGame
  BY <1>5, TurnFrame DEF setupVars
<1> QED BY <1>1, <1>2, <1>3, <1>4, <1>5 DEF Next

\* A step keeps the types of setup and money.
LEMMA SetupTyped ==
  ASSUME SetupTypes, Stages, [Next]_vars
  PROVE  SetupTypes'
<1>0. table' = table
  BY SameTable
<1>6. table.deals \in Nat /\ table.pauses \in Nat
  BY Instances DEF SetupTypes
<1>1. CASE Setup
  <2>1. ASSUME NEW p \in Players, Join(p) PROVE SetupTypes'
    BY <1>0, <2>1 DEF SetupTypes, Join
  <2>2. ASSUME NEW p \in Players, NEW c \in Countries, NEW i \in Places, AssignSeat(p, c, i)
        PROVE  SetupTypes'
    <3>1. seat' \in [Players -> {NoSeat} \cup [country : Countries, index : Places]]
      <4>1. [country |-> c, index |-> i] \in [country : Countries, index : Places]
        OBVIOUS
      <4> QED BY <2>2, <4>1 DEF SetupTypes, AssignSeat
    <3> QED BY <1>0, <2>2, <3>1 DEF SetupTypes, AssignSeat
  <2>3. ASSUME NEW v \in {"BASELINE", "SHORT"}, ConfigureOption(v) PROVE SetupTypes'
    BY <1>0, <2>3 DEF SetupTypes, ConfigureOption
  <2>4. CASE StartGame
    BY <1>0, <2>4 DEF SetupTypes, StartGame, Phases, setupVars
  <2> QED BY <1>1, <2>1, <2>2, <2>3, <2>4 DEF Setup
<1>2. ASSUME NEW p \in Players, Prepare(p) PROVE SetupTypes'
  <2>1. CASE SubmitDeck(p) \/ ResolveInitiative(p) \/ SetMaintenance(p) \/ SetPlan(p)
    BY <1>0, <2>1 DEF SetupTypes, SubmitDeck, ResolveInitiative, SetMaintenance, SetPlan, setupVars
  <2>2. CASE LockStrategy(p) \/ LockPlan(p)
    BY <1>0, <2>2 DEF SetupTypes, LockStrategy, LockPlan, setupVars, Phases
  <2>3. CASE LockMaintenance(p)
    <3>1. phase' \in Phases
      BY <2>3 DEF SetupTypes, LockMaintenance, Phases
    <3>2. money' \in [Countries -> Nat]
      <4>1. seat[p].country \in Countries
        BY <2>3, Canonical DEF Stages, LockMaintenance
      <4>2. Income[seat[p].country] \in Nat
        BY <4>1, TopologyAssumption
      <4>3. money[seat[p].country] \in Nat
        BY <4>1 DEF SetupTypes
      <4>4. money' = [money EXCEPT ![seat[p].country] = money[seat[p].country] + Income[seat[p].country]]
        BY <2>3 DEF LockMaintenance
      <4>5. money[seat[p].country] + Income[seat[p].country] \in Nat
        BY <4>2, <4>3
      <4> QED BY <4>4, <4>5 DEF SetupTypes
    <3> QED BY <1>0, <2>3, <3>1, <3>2 DEF SetupTypes, LockMaintenance, setupVars
  <2>4. ASSUME NEW q \in Players, DealResources(p, q) PROVE SetupTypes'
    <3> DEFINE a == seat[p].country
               b == seat[q].country
    <3>1. a \in Countries /\ b \in Countries
      BY <2>4 DEF SetupTypes, DealResources, MayDeal, Seated
    <3>2. money' = [money EXCEPT ![a] = @ - 1, ![b] = @ + 1] /\ money[a] >= 1
      BY <2>4 DEF DealResources
    <3>3. money \in [Countries -> Nat]
      BY DEF SetupTypes
    <3>4. deals' \in 0 .. table.deals
      BY <1>6, <2>4 DEF SetupTypes, DealResources
    <3> HIDE DEF a, b
    <3>5. money' \in [Countries -> Nat]
      BY <3>1, <3>2, <3>3
    <3> QED BY <1>0, <2>4, <3>4, <3>5 DEF SetupTypes, DealResources, setupVars
  <2>5. ASSUME NEW q \in Players, NEW c \in strategy[p].hand, DealCard(p, q, c) PROVE SetupTypes'
    <3>1. deals' \in 0 .. table.deals
      BY <1>6, <2>5 DEF SetupTypes, DealCard
    <3> QED BY <1>0, <2>5, <3>1 DEF SetupTypes, DealCard, setupVars
  <2> QED BY <1>2, <2>1, <2>2, <2>3, <2>4, <2>5 DEF Prepare
<1>3. CASE Overlay
  <2>1. pauses' \in 0 .. table.pauses
    BY <1>3, <1>6 DEF SetupTypes, Overlay, Pause, Resume
  <2>2. paused' = TRUE \/ paused' = FALSE
    BY <1>3 DEF Overlay, Pause, Resume
  <2> QED BY <1>0, <1>3, <2>1, <2>2 DEF SetupTypes, Overlay, Pause, Resume, setupVars
<1>4. CASE UNCHANGED vars
  BY <1>4 DEF SetupTypes, vars, prepVars, setupVars
<1>5. CASE RunCleanup \/ (\E p \in Players : ResolvePlan(p) \/ Answer(p)) \/ EndGame
  BY <1>5, TurnFrame DEF SetupTypes, setupVars, Phases
<1> QED BY <1>1, <1>2, <1>3, <1>4, <1>5 DEF Next

\* A step keeps what the stages have left behind.
LEMMA StagesStay ==
  ASSUME SetupTypes, StageTypes, TurnTypes, Stages, [Next]_vars
  PROVE  Stages'
<1>1. CASE Setup /\ UNCHANGED turnVars
  <2>1. ASSUME \/ \E p \in Players : Join(p)
               \/ \E p \in Players, c \in Countries, i \in Places : AssignSeat(p, c, i)
               \/ \E v \in {"BASELINE", "SHORT"} : ConfigureOption(v)
        PROVE  Stages'
    <3>1. phase = "SETUP" /\ phase' = phase /\ UNCHANGED <<initiative, maintenance>>
      BY <2>1 DEF Join, AssignSeat, ConfigureOption, stageVars
    <3> QED BY <1>1, <3>1 DEF Stages, turnVars
  <2>2. CASE StartGame
    BY <1>1, <2>2 DEF Stages, StartGame, stageVars, setupVars, turnVars, CanonicalSeating
  <2> QED BY <1>1, <2>1, <2>2 DEF Setup
<1>2. ASSUME NEW p \in Players, Prepare(p), UNCHANGED turnVars
      PROVE  Stages'
  <2>0. seat' = seat /\ mat' = mat /\ cleanups' = cleanups
    BY <1>2 DEF Prepare, SubmitDeck, LockStrategy, ResolveInitiative, SetMaintenance,
         LockMaintenance, DealResources, DealCard, SetPlan, LockPlan, setupVars, turnVars
  <2>1. ASSUME \/ SubmitDeck(p) \/ SetPlan(p)
               \/ \E q \in Players : DealResources(p, q)
               \/ \E q \in Players, c \in strategy[p].hand : DealCard(p, q, c)
        PROVE  Stages'
    <3>1. UNCHANGED <<phase, initiative, maintenance>>
      BY <2>1 DEF SubmitDeck, SetPlan, DealResources, DealCard, stageVars
    <3> QED BY <2>0, <3>1 DEF Stages, CanonicalSeating
  <2>2. CASE LockStrategy(p)
    BY <2>0, <2>2 DEF Stages, LockStrategy, stageVars, CanonicalSeating
  <2>3. CASE ResolveInitiative(p)
    <3>1. PICK winner \in Seated : initiative' = [status |-> "MAINTENANCE", order |-> OrderFrom(winner)]
      BY <2>3 DEF ResolveInitiative
    <3>2. CanonicalSeating /\ phase = "INITIATIVE_STAGE" /\ initiative.status = "PENDING_ROLL"
      BY <2>3 DEF Stages, ResolveInitiative
    <3>3. winner \in Players
      BY DEF Seated
    <3>4. \A q \in Players : \E k \in DOMAIN OrderFrom(winner) : OrderFrom(winner)[k] = q
      BY <3>2, <3>3, OrderIsFull
    <3>5. initiative'.status = "MAINTENANCE" /\ initiative'.order = OrderFrom(winner)
      BY <3>1
    <3>6. phase' = phase /\ CanonicalSeating'
      BY <2>0, <2>3, <3>2 DEF ResolveInitiative, CanonicalSeating
    <3> QED BY <2>0, <3>2, <3>4, <3>5, <3>6 DEF Stages
  <2>4. CASE SetMaintenance(p)
    BY <2>0, <2>4 DEF Stages, SetMaintenance, CanonicalSeating
  <2>5. CASE LockMaintenance(p)
    <3>1. phase = "INITIATIVE_STAGE" /\ initiative.status = "MAINTENANCE" /\ CanonicalSeating'
      BY <2>0, <2>5 DEF Stages, LockMaintenance, CanonicalSeating
    <3>2. initiative'.order = initiative.order
      BY <2>5 DEF StageTypes, LockMaintenance
    <3>3. \/ phase' = "ACTION_STAGE_PLAN" /\ initiative'.status = "COMPLETE"
          \/ phase' = phase /\ initiative' = initiative
      BY <2>5 DEF StageTypes, LockMaintenance
    <3> QED BY <2>0, <3>1, <3>2, <3>3 DEF Stages
  <2>6. CASE LockPlan(p)
    BY <2>0, <2>6 DEF Stages, LockPlan, CanonicalSeating
  <2> QED BY <1>2, <2>1, <2>2, <2>3, <2>4, <2>5, <2>6 DEF Prepare
<1>3. CASE Overlay
  BY <1>3 DEF Stages, Overlay, Pause, Resume, setupVars, stageVars, CanonicalSeating
<1>4. CASE UNCHANGED vars
  BY <1>4 DEF Stages, vars, prepVars, setupVars, stageVars, turnVars, CanonicalSeating
<1>5. CASE RunCleanup \/ (\E p \in Players : ResolvePlan(p) \/ Answer(p)) \/ EndGame
  <2>1. /\ UNCHANGED <<seat, initiative, maintenance>>
        /\ phase = "RESOLUTION_STAGE" /\ phase' \in {phase, "INITIATIVE_STAGE"}
    BY <1>5, TurnFrame DEF setupVars
  <2>2. initiative.status = "COMPLETE" /\ CanonicalSeating'
    BY <2>1 DEF Stages, CanonicalSeating
  <2> QED BY <2>1, <2>2 DEF Stages
<1> QED BY <1>1, <1>2, <1>3, <1>4, <1>5 DEF Next

-------------------------------------------------------------------------------
(***************************************************************************)
(* The piles of a player.                                                  *)
(***************************************************************************)

\* A locked strategy whose piles share out the cards U, with at most m in hand.
Dealt(U, deck, m) ==
  {t \in [submitted : {deck}, deck : SUBSET U, hand : SUBSET U, discard : SUBSET U, locked : {TRUE}] :
     /\ t.hand \cup t.deck \cup t.discard = U
     /\ t.hand \cap t.deck = {} /\ t.hand \cap t.discard = {} /\ t.deck \cap t.discard = {}
     /\ IsFiniteSet(t.hand) /\ Cardinality(t.hand) <= m}

\* A draw moves cards between the piles and adds at most one to the hand.
LEMMA DrawKeeps ==
  ASSUME NEW U, NEW deck, NEW m \in Nat, NEW t \in Dealt(U, deck, m)
  PROVE  DrawAny(t) \subseteq Dealt(U, deck, m + 1)
<1> SUFFICES ASSUME NEW c \in t.deck, NEW u \in DrawCard(t, c)
             PROVE  u \in Dealt(U, deck, m + 1)
  BY DEF DrawAny
<1> DEFINE drawn == [t EXCEPT !.deck = @ \ {c}]
           protocols == {d \in t.hand : d[2] = "protocols"}
<1>1. /\ t \in [submitted : {deck}, deck : SUBSET U, hand : SUBSET U, discard : SUBSET U, locked : {TRUE}]
      /\ t.hand \cup t.deck \cup t.discard = U
      /\ t.hand \cap t.deck = {} /\ t.hand \cap t.discard = {} /\ t.deck \cap t.discard = {}
      /\ IsFiniteSet(t.hand) /\ Cardinality(t.hand) \in Nat /\ Cardinality(t.hand) <= m
  BY FS_CardinalityType DEF Dealt
<1>2. ASSUME NEW d \in t.hand, u = [drawn EXCEPT !.hand = @ \ {d}, !.discard = @ \cup {c, d}]
      PROVE  u \in Dealt(U, deck, m + 1)
  <2>1. u = [submitted |-> deck, deck |-> t.deck \ {c}, hand |-> t.hand \ {d},
             discard |-> t.discard \cup {c, d}, locked |-> TRUE]
    BY <1>1, <1>2
  <2>2. IsFiniteSet(t.hand \ {d}) /\ Cardinality(t.hand \ {d}) \in Nat
        /\ Cardinality(t.hand \ {d}) <= Cardinality(t.hand)
    BY <1>1, FS_Subset, FS_CardinalityType
  <2>3. Cardinality(t.hand \ {d}) <= m + 1
    BY <1>1, <2>2
  <2> HIDE DEF drawn, protocols
  <2>4. /\ u.hand = t.hand \ {d} /\ u.deck = t.deck \ {c} /\ u.discard = t.discard \cup {c, d}
        /\ u \in [submitted : {deck}, deck : SUBSET U, hand : SUBSET U, discard : SUBSET U, locked : {TRUE}]
    BY <1>1, <2>1
  <2>5. u.hand \cup u.deck \cup u.discard = U
    BY <1>1, <2>4
  <2>6. u.hand \cap u.deck = {} /\ u.hand \cap u.discard = {} /\ u.deck \cap u.discard = {}
    BY <1>1, <2>4
  <2> QED BY <2>2, <2>3, <2>4, <2>5, <2>6 DEF Dealt
<1>3. ASSUME u = [drawn EXCEPT !.hand = @ \cup {c}]
      PROVE  u \in Dealt(U, deck, m + 1)
  <2>1. u = [submitted |-> deck, deck |-> t.deck \ {c}, hand |-> t.hand \cup {c},
             discard |-> t.discard, locked |-> TRUE]
    BY <1>1, <1>3
  <2>2. IsFiniteSet(t.hand \cup {c}) /\ Cardinality(t.hand \cup {c}) = Cardinality(t.hand) + 1
    BY <1>1, FS_AddElement
  <2>3. Cardinality(t.hand \cup {c}) <= m + 1
    BY <1>1, <2>2
  <2> HIDE DEF drawn, protocols
  <2>4. /\ u.hand = t.hand \cup {c} /\ u.deck = t.deck \ {c} /\ u.discard = t.discard
        /\ u \in [submitted : {deck}, deck : SUBSET U, hand : SUBSET U, discard : SUBSET U, locked : {TRUE}]
    BY <1>1, <2>1
  <2>5. u.hand \cup u.deck \cup u.discard = U
    BY <1>1, <2>4
  <2>6. u.hand \cap u.deck = {} /\ u.hand \cap u.discard = {} /\ u.deck \cap u.discard = {}
    BY <1>1, <2>4
  <2> QED BY <2>2, <2>3, <2>4, <2>5, <2>6 DEF Dealt
<1>4. \/ \E d \in protocols : u = [drawn EXCEPT !.hand = @ \ {d}, !.discard = @ \cup {c, d}]
      \/ u = [drawn EXCEPT !.hand = @ \cup {c}]
  BY DEF DrawCard
<1> QED BY <1>2, <1>3, <1>4

\* Several draws.
LEMMA DrawsKeep ==
  ASSUME NEW U, NEW deck, NEW m \in Nat, NEW n \in Nat, NEW s \in Dealt(U, deck, m)
  PROVE  Drawn(s, n) \subseteq Dealt(U, deck, m + n)
<1> DEFINE T == [k \in 0 .. n |-> Dealt(U, deck, m + k)]
<1>1. s \in T[0] /\ T[n] = Dealt(U, deck, m + n)
  OBVIOUS
<1>2. \A k \in 1 .. n : \A t \in T[k - 1] : DrawAny(t) \subseteq T[k]
  <2> TAKE k \in 1 .. n
  <2> TAKE t \in T[k - 1]
  <2>1. k - 1 \in 0 .. n /\ k \in 0 .. n /\ m + (k - 1) \in Nat /\ m + (k - 1) + 1 = m + k
    OBVIOUS
  <2>2. t \in Dealt(U, deck, m + (k - 1)) /\ T[k] = Dealt(U, deck, m + k)
    BY <2>1
  <2> HIDE DEF T
  <2>3. DrawAny(t) \subseteq Dealt(U, deck, m + (k - 1) + 1)
    BY <2>1, <2>2, DrawKeeps
  <2> QED BY <2>1, <2>2, <2>3
<1> HIDE DEF T
<1>3. Drawn(s, n) \subseteq T[n]
  BY <1>1, <1>2, DrawnSteps
<1> QED BY <1>1, <1>3

\* Filling a hand.
LEMMA FillKeeps ==
  ASSUME NEW U, NEW deck, table.limit \in Nat, NEW s \in Dealt(U, deck, table.limit)
  PROVE  Filled(s) \subseteq Dealt(U, deck, table.limit)
<1> DEFINE m == table.limit
           T == Dealt(U, deck, m)
<1>1. ASSUME NEW t \in T
      PROVE  FillStep(t) \subseteq T
  <2>1. CASE Full(t) \/ Exhausted(t)
    BY <2>1 DEF FillStep
  <2>2. CASE ~ Full(t)
    <3>1. /\ t \in [submitted : {deck}, deck : SUBSET U, hand : SUBSET U, discard : SUBSET U, locked : {TRUE}]
          /\ t.hand \cup t.deck \cup t.discard = U
          /\ t.hand \cap t.deck = {} /\ t.hand \cap t.discard = {} /\ t.deck \cap t.discard = {}
          /\ IsFiniteSet(t.hand) /\ Cardinality(t.hand) \in Nat
      BY FS_CardinalityType DEF Dealt
    <3>2. m - 1 \in Nat /\ Cardinality(t.hand) <= m - 1
      BY <2>2, <3>1 DEF Full
    <3> DEFINE r == Reshuffled(t)
    <3>3. /\ r \in [submitted : {deck}, deck : SUBSET U, hand : SUBSET U, discard : SUBSET U, locked : {TRUE}]
          /\ r.hand = t.hand /\ r.deck \cup r.discard = t.deck \cup t.discard
          /\ r.deck \cap r.discard = {}
      <4>1. CASE t.deck = {}
        <5>1. r = [submitted |-> deck, deck |-> t.discard, hand |-> t.hand, discard |-> {}, locked |-> TRUE]
          BY <3>1, <4>1 DEF Reshuffled
        <5> HIDE DEF r
        <5> QED BY <3>1, <4>1, <5>1
      <4>2. CASE t.deck # {}
        <5>1. r = t
          BY <4>2 DEF Reshuffled
        <5> QED BY <3>1, <5>1
      <4> QED BY <4>1, <4>2
    <3> HIDE DEF r
    <3>4. /\ r.hand \cup r.deck \cup r.discard = U
          /\ r.hand \cap r.deck = {} /\ r.hand \cap r.discard = {}
      BY <3>1, <3>3
    <3>5. r \in Dealt(U, deck, m - 1)
      <4>1. IsFiniteSet(r.hand) /\ Cardinality(r.hand) <= m - 1
        BY <3>1, <3>2, <3>3
      <4> QED BY <3>3, <3>4, <4>1 DEF Dealt
    <3> HIDE DEF m
    <3>6. DrawAny(r) \subseteq Dealt(U, deck, m - 1 + 1) /\ m - 1 + 1 = m
      <4>1. m - 1 + 1 = m
        BY DEF m
      <4> QED BY <3>2, <3>5, <4>1, DrawKeeps
    <3>7. FillStep(t) \subseteq {t} \cup DrawAny(r)
      BY DEF FillStep, r
    <3> QED BY <3>6, <3>7
  <2> QED BY <2>1, <2>2
<1> HIDE DEF T
<1>2. s \in T
  BY DEF T
<1>3. Filled(s) \subseteq {t \in T : Full(t) \/ Exhausted(t)}
  BY <1>1, <1>2, FilledStays
<1> QED BY <1>3 DEF T

\* A card of the piles s of p is filed where the piles have it.
LEMMA FiledCards ==
  ASSUME CardTypes, NEW p \in Players, NEW deck, NEW m,
         NEW U \in SUBSET Printed, NEW s \in Dealt(U, deck, m), card' = Filed(p, s)
  PROVE  /\ DOMAIN card' = Printed
         /\ \A c \in Printed \ U : card'[c] = card[c]
         /\ \A c \in U : /\ card'[c].by = p /\ card'[c] = [by |-> p, zone |-> card'[c].zone]
                         /\ card'[c].zone \in {"HAND", "OPERATIONS_DECK", "DISCARD"}
                         /\ card'[c].zone = "HAND" <=> c \in s.hand
                         /\ card'[c].zone = "OPERATIONS_DECK" <=> c \in s.deck
                         /\ card'[c].zone = "DISCARD" <=> c \in s.discard
         /\ card' \in [Printed -> [by : Players \cup {Nobody}, zone : Zones]]
<1>1. DOMAIN card = Printed /\ card \in [Printed -> [by : Players \cup {Nobody}, zone : Zones]]
  BY DEF CardTypes
<1>2. /\ s.hand \cup s.deck \cup s.discard = U /\ s.hand \cap s.deck = {}
      /\ s.hand \cap s.discard = {} /\ s.deck \cap s.discard = {}
  BY DEF Dealt
<1> DEFINE zone(c) == IF c \in s.hand THEN "HAND"
                      ELSE IF c \in s.deck THEN "OPERATIONS_DECK" ELSE "DISCARD"
<1>3. card' = [c \in Printed |-> IF c \in U THEN [by |-> p, zone |-> zone(c)] ELSE card[c]]
  <2>1. s.hand \cup s.deck \cup s.discard = U
    BY <1>2
  <2> QED BY <1>1, <2>1 DEF Filed
<1>4. \A c \in U : /\ zone(c) \in {"HAND", "OPERATIONS_DECK", "DISCARD"} /\ zone(c) \in Zones
                   /\ zone(c) = "HAND" <=> c \in s.hand
                   /\ zone(c) = "OPERATIONS_DECK" <=> c \in s.deck
                   /\ zone(c) = "DISCARD" <=> c \in s.discard
  BY <1>2 DEF Zones
<1> HIDE DEF zone
<1>5. \A c \in U : card'[c] = [by |-> p, zone |-> zone(c)]
  BY <1>3
<1> QED BY <1>1, <1>3, <1>4, <1>5

\* The starters of p and the deck it has submitted.
OpeningCards(p) == strategy[p].submitted \cup {c \in DOMAIN card : card[c].by = p /\ IsStarter(c)}

\* The cards of a player who has not locked the strategy.
LEMMA Unlocked ==
  ASSUME CardTypes, Piles, NEW p \in Players, ~strategy[p].locked
  PROVE  /\ \A c \in Printed : card[c].by = p => c[1] = seat[p].country /\ card[c].zone \in Pools
         /\ strategy[p].hand = {} /\ strategy[p].deck = {} /\ strategy[p].discard = {}
BY DEF Piles

\* A locked strategy starts with a hand within the limit.
LEMMA StrategyLocked ==
  ASSUME SetupTypes, CardTypes, Piles, NEW p \in Players, LockStrategy(p)
  PROVE  \E s \in Dealt(OpeningCards(p), strategy[p].submitted, table.limit) :
           strategy' = [strategy EXCEPT ![p] = s] /\ card' = Filed(p, s)
<1> DEFINE D == strategy[p].submitted
           H == {c \in DOMAIN card : card[c].by = p /\ IsStarter(c)}
           dealt == [strategy[p] EXCEPT !.deck = D, !.discard = {}, !.locked = TRUE, !.hand = H]
           n == table.opening
           h == Cardinality(H)
<1>1. PICK s \in Drawn(dealt, n) : strategy' = [strategy EXCEPT ![p] = s] /\ card' = Filed(p, s)
  BY DEF LockStrategy
<1>2. ~strategy[p].locked /\ \A c \in D : card[c].by = p /\ ~IsStarter(c)
  BY DEF LockStrategy, DeckEligible
<1>3. n \in Nat /\ table.limit \in Nat /\ Cardinality(Starters) + n <= table.limit
  BY Instances DEF SetupTypes
<1>4. IsFiniteSet(H) /\ h \in Nat /\ h <= Cardinality(Starters)
  <2>1. IsFiniteSet(Starters) /\ Cardinality(Starters) \in Nat
    BY HandAssumption, FS_CardinalityType
  <2> DEFINE name == [c \in H |-> c[2]]
  <2>2. \A c \in H : c = <<seat[p].country, c[2]>> /\ c[2] \in Starters
    <3> TAKE c \in H
    <3>1. c \in Printed
      BY DEF CardTypes
    <3>2. PICK a \in Countries : c \in {a} \X (Starters \cup table.pool[a])
      BY <3>1 DEF Printed
    <3>3. c = <<c[1], c[2]>>
      BY <3>2
    <3>4. c[1] = seat[p].country
      BY <1>2, <3>1, Unlocked
    <3> QED BY <3>3, <3>4 DEF IsStarter
  <2>3. name \in [H -> Starters]
    BY <2>2
  <2>4. \A a, b \in H : name[a] = name[b] => a = b
    BY <2>2
  <2>5. name \in Injection(H, Starters)
    <3> HIDE DEF name, H
    <3> QED BY <2>3, <2>4 DEF Injection, IsInjective
  <2> HIDE DEF name, H
  <2>6. IsFiniteSet(H) /\ Cardinality(H) <= Cardinality(Starters)
    BY <2>1, <2>5, FS_Injection
  <2> QED BY <2>6, FS_CardinalityType
<1>5. dealt \in Dealt(OpeningCards(p), D, h)
  <2>1. strategy[p] \in [submitted : SUBSET Printed, deck : SUBSET Printed,
                         hand : SUBSET Printed, discard : SUBSET Printed, locked : BOOLEAN]
    BY DEF CardTypes
  <2> HIDE DEF H
  <2>2. dealt = [submitted |-> D, deck |-> D, hand |-> H, discard |-> {}, locked |-> TRUE]
    <3> DEFINE Records == [submitted : SUBSET Printed, deck : SUBSET Printed, hand : SUBSET Printed,
                           discard : SUBSET Printed, locked : BOOLEAN]
               of(r, E) == [r EXCEPT !.deck = E, !.discard = {}, !.locked = TRUE, !.hand = H]
    <3>1. \A r \in Records : \A E :
            of(r, E) \in [submitted : {r.submitted}, deck : {E}, hand : {H}, discard : {{}}, locked : {TRUE}]
      OBVIOUS
    <3>2. dealt = of(strategy[p], D) /\ strategy[p] \in Records
      BY <2>1
    <3> HIDE DEF of, dealt, Records
    <3>3. dealt \in [submitted : {D}, deck : {D}, hand : {H}, discard : {{}}, locked : {TRUE}]
      BY <3>1, <3>2
    <3> HIDE DEF D, H
    <3> QED BY <3>3
  <2> HIDE DEF dealt
  <2>3. D \cup H = OpeningCards(p)
    BY DEF OpeningCards, H
  <2>4. D \cap H = {}
    BY <1>2 DEF H
  <2>5. h <= h
    BY <1>4
  <2> HIDE DEF D, h
  <2>6. /\ dealt.hand \cup dealt.deck \cup dealt.discard = OpeningCards(p)
        /\ dealt.hand \cap dealt.deck = {} /\ dealt.hand \cap dealt.discard = {}
        /\ dealt.deck \cap dealt.discard = {}
        /\ IsFiniteSet(dealt.hand) /\ Cardinality(dealt.hand) <= h
    BY <1>4, <2>2, <2>3, <2>4, <2>5 DEF h
  <2>7. dealt \in [submitted : {D}, deck : SUBSET OpeningCards(p), hand : SUBSET OpeningCards(p),
                   discard : SUBSET OpeningCards(p), locked : {TRUE}]
    BY <2>2, <2>3
  <2> QED BY <2>6, <2>7 DEF Dealt
<1> HIDE DEF dealt, D, n, h
<1>6. Drawn(dealt, n) \subseteq Dealt(OpeningCards(p), D, h + n)
  BY <1>3, <1>4, <1>5, DrawsKeep
<1>7. h + n <= table.limit
  <2>1. Cardinality(Starters) \in Nat
    BY HandAssumption, FS_CardinalityType
  <2> QED BY <1>3, <1>4, <2>1
<1>8. s \in Dealt(OpeningCards(p), D, table.limit)
  <2>1. s \in Dealt(OpeningCards(p), D, h + n)
    BY <1>1, <1>6
  <2>2. Cardinality(s.hand) \in Nat
    BY <2>1, FS_CardinalityType DEF Dealt
  <2>3. Cardinality(s.hand) <= table.limit
    BY <1>3, <1>4, <1>7, <2>1, <2>2 DEF Dealt
  <2> QED BY <2>1, <2>3 DEF Dealt
<1> QED BY <1>1, <1>8 DEF D

\* The piles of p.
PilesOfPlayer(p) == strategy[p].hand \cup strategy[p].deck \cup strategy[p].discard

\* The lock of the maintenance fills a hand from the piles there are.
LEMMA MaintenanceLocked ==
  ASSUME SetupTypes, CardTypes, Stages, Piles, CardsAccounted, NEW p \in Players, LockMaintenance(p)
  PROVE  /\ \E s \in Dealt(PilesOfPlayer(p), strategy[p].submitted, table.limit) :
              strategy' = [strategy EXCEPT ![p] = s] /\ card' = Filed(p, s)
         /\ strategy[p].locked
         /\ \A c \in Printed : c \in PilesOfPlayer(p) <=>
              card[c].by = p /\ card[c].zone \in {"HAND", "OPERATIONS_DECK", "DISCARD"}
<1> DEFINE d == maintenance[p].discards
           filled == [strategy[p] EXCEPT !.hand = @ \ d, !.discard = @ \cup d]
           U == PilesOfPlayer(p)
<1>1. PICK s \in Filled(filled) : strategy' = [strategy EXCEPT ![p] = s] /\ card' = Filed(p, s)
  BY DEF LockMaintenance
<1>2. /\ phase = "INITIATIVE_STAGE" /\ initiative.status = "MAINTENANCE"
      /\ \A c \in d : c \in strategy[p].hand
  BY DEF LockMaintenance, InHand
<1>3. cleanups = 0
  BY <1>2 DEF Stages
<1>4. strategy[p].locked
  BY <1>2 DEF Piles
<1>5. /\ strategy[p].hand = In(p, "HAND") /\ strategy[p].discard = In(p, "DISCARD")
      /\ strategy[p].deck = In(p, "OPERATIONS_DECK") /\ Cardinality(strategy[p].hand) <= table.limit
  BY <1>3 DEF CardsAccounted, In, Cards
<1>6. \A c \in Printed : \A z : c \in In(p, z) <=> card[c].by = p /\ card[c].zone = z
  <2> TAKE c \in Printed
  <2>1. c \in DOMAIN card /\ card[c] = [by |-> card[c].by, zone |-> card[c].zone]
    BY DEF CardTypes
  <2> QED BY <2>1 DEF In
<1>7. /\ strategy[p] \in [submitted : SUBSET Printed, deck : SUBSET Printed,
                          hand : SUBSET Printed, discard : SUBSET Printed, locked : BOOLEAN]
      /\ IsFiniteSet(strategy[p].hand) /\ table.limit \in Nat
  BY Instances DEF CardTypes, Piles, SetupTypes
<1>8. \A c \in Printed : c \in PilesOfPlayer(p) <=>
         card[c].by = p /\ card[c].zone \in {"HAND", "OPERATIONS_DECK", "DISCARD"}
  BY <1>5, <1>6 DEF PilesOfPlayer
<1>9. /\ strategy[p].hand \cap strategy[p].deck = {} /\ strategy[p].hand \cap strategy[p].discard = {}
      /\ strategy[p].deck \cap strategy[p].discard = {}
  <2>1. ASSUME NEW c \in Printed, NEW y \in {"HAND", "OPERATIONS_DECK", "DISCARD"},
               NEW z \in {"HAND", "OPERATIONS_DECK", "DISCARD"}, y # z, c \in In(p, y), c \in In(p, z)
        PROVE  FALSE
    BY <1>6, <2>1
  <2>2. \A c : c \in strategy[p].hand \/ c \in strategy[p].deck => c \in Printed
    BY <1>7
  <2> QED BY <1>5, <2>1, <2>2
<1>10. filled \in Dealt(U, strategy[p].submitted, table.limit)
  <2> DEFINE h == strategy[p].hand \ d
             e == strategy[p].discard \cup d
             k == strategy[p].deck
             b == strategy[p].submitted
  <2>1. filled \in [submitted : {b}, deck : {k}, hand : {h}, discard : {e}, locked : {TRUE}]
    BY <1>4, <1>7
  <2> HIDE DEF filled
  <2>2. IsFiniteSet(h) /\ Cardinality(h) <= table.limit
    <3>1. IsFiniteSet(h) /\ Cardinality(h) <= Cardinality(strategy[p].hand)
          /\ Cardinality(h) \in Nat /\ Cardinality(strategy[p].hand) \in Nat
      BY <1>7, FS_Subset, FS_CardinalityType
    <3> QED BY <1>5, <1>7, <3>1
  <2>3. /\ h \cup k \cup e = U /\ h \cap k = {} /\ h \cap e = {} /\ k \cap e = {}
        /\ h \subseteq U /\ k \subseteq U /\ e \subseteq U
    BY <1>2, <1>9 DEF PilesOfPlayer
  <2> HIDE DEF h, k, e, b, U
  <2>4. /\ filled.hand = h /\ filled.deck = k /\ filled.discard = e
        /\ filled \in [submitted : {b}, deck : SUBSET U, hand : SUBSET U, discard : SUBSET U, locked : {TRUE}]
    BY <2>1, <2>3
  <2>5. filled \in Dealt(U, b, table.limit)
    BY <2>2, <2>3, <2>4 DEF Dealt
  <2> QED BY <2>5 DEF b
<1> HIDE DEF filled, U
<1>11. Filled(filled) \subseteq Dealt(U, strategy[p].submitted, table.limit)
  BY <1>7, <1>10, FillKeeps
<1>12. s \in Dealt(PilesOfPlayer(p), strategy[p].submitted, table.limit)
  BY <1>1, <1>11 DEF U
<1> QED BY <1>1, <1>4, <1>8, <1>12

\* The step that files the piles of one player.
Filing(p, U) ==
  /\ U \in SUBSET Printed
  /\ \E s \in Dealt(U, strategy[p].submitted, table.limit) :
       strategy' = [strategy EXCEPT ![p] = s] /\ card' = Filed(p, s)
  /\ \A c \in U : card[c].by = p /\ card[c].zone # "CAMPAIGN"
  /\ \A c \in Printed \ U : card[c].by = p =>
       card[c].zone \notin {"HAND", "OPERATIONS_DECK", "DISCARD"}

\* Both locks that deal cards are such steps.
LEMMA LocksFile ==
  ASSUME SetupTypes, CardTypes, Stages, Piles, CardsAccounted, NEW p \in Players
  PROVE  /\ LockStrategy(p) => Filing(p, OpeningCards(p))
         /\ LockMaintenance(p) => Filing(p, PilesOfPlayer(p))
<1>1. ASSUME LockStrategy(p) PROVE Filing(p, OpeningCards(p))
  <2>1. ~strategy[p].locked /\ \A c \in strategy[p].submitted : card[c].by = p
    BY <1>1 DEF LockStrategy, DeckEligible
  <2>2. OpeningCards(p) \in SUBSET Printed /\ \A c \in OpeningCards(p) : card[c].by = p
    BY <2>1 DEF CardTypes, OpeningCards
  <2>3. \A c \in Printed : card[c].by = p => card[c].zone \in Pools
    BY <2>1, Unlocked
  <2> QED BY <1>1, <2>2, <2>3, StrategyLocked DEF Filing, Pools
<1>2. ASSUME LockMaintenance(p) PROVE Filing(p, PilesOfPlayer(p))
  <2>1. PilesOfPlayer(p) \in SUBSET Printed
    BY DEF CardTypes, PilesOfPlayer
  <2> QED BY <1>2, <2>1, MaintenanceLocked DEF Filing
<1> QED BY <1>1, <1>2

\* Where a card is, in terms of its record.
LEMMA Location ==
  ASSUME CardTypes
  PROVE  \A c \in Printed : \A q, z : c \in In(q, z) <=> card[c].by = q /\ card[c].zone = z
<1> TAKE c \in Printed
<1>1. c \in DOMAIN card /\ card[c] = [by |-> card[c].by, zone |-> card[c].zone]
  BY DEF CardTypes
<1> QED BY <1>1 DEF In

\* The cards of one player are accounted for.
Accounted(q) ==
  /\ strategy[q].hand = In(q, "HAND")
  /\ strategy[q].discard = In(q, "DISCARD")
  /\ mat[q].cards = In(q, "CAMPAIGN")
  /\ cleanups = 0 => /\ strategy[q].deck = In(q, "OPERATIONS_DECK")
                     /\ Cardinality(strategy[q].hand) <= table.limit
  /\ Cardinality(strategy[q].hand \ {HomeCard(q)}) <= table.limit

\* A hand within the limit is so without a card, too.
LEMMA WithinLimit ==
  ASSUME NEW S, IsFiniteSet(S), NEW n \in Nat, NEW c
  PROVE  /\ IsFiniteSet(S \ {c})
         /\ Cardinality(S) \in Nat /\ Cardinality(S \ {c}) \in Nat
         /\ Cardinality(S) <= n => Cardinality(S \ {c}) <= n
<1>1. /\ IsFiniteSet(S \ {c}) /\ Cardinality(S) \in Nat /\ Cardinality(S \ {c}) \in Nat
      /\ Cardinality(S \ {c}) <= Cardinality(S)
  BY FS_Subset, FS_CardinalityType
<1> QED BY <1>1

\* CardsAccounted, player by player.
LEMMA AccountedForAll ==
  /\ CardsAccounted <=> \A q \in Players : Accounted(q)
  /\ CardsAccounted' <=> \A q \in Players : Accounted(q)'
BY DEF CardsAccounted, Accounted, In, Cards, HomeCard

\* A player whose cards, piles and campaign a step leaves alone.
LEMMA NotTouched ==
  ASSUME CardTypes, CardTypes', table' = table, NEW q \in Players, Accounted(q),
         strategy'[q].hand = strategy[q].hand, strategy'[q].deck = strategy[q].deck,
         strategy'[q].discard = strategy[q].discard, mat'[q].cards = mat[q].cards,
         cleanups' = cleanups \/ cleanups' # 0, seat' = seat,
         \A c \in Printed : card[c].by = q \/ card'[c].by = q =>
           card'[c].by = card[c].by /\ card'[c].zone = card[c].zone
  PROVE  Accounted(q)'
<1>1. Printed' = Printed /\ DOMAIN card = Printed /\ DOMAIN card' = Printed
  BY DEF Printed, CardTypes
<1>2. \A c \in Printed : \A z : c \in In(q, z)' <=> c \in In(q, z)
  <2>1. \A c \in Printed : \A z : c \in In(q, z) <=> card[c].by = q /\ card[c].zone = z
    BY Location
  <2>2. \A c \in Printed : \A z : c \in In(q, z)' <=> card'[c].by = q /\ card'[c].zone = z
    <3> TAKE c \in Printed
    <3>1. c \in DOMAIN card' /\ card'[c] = [by |-> card'[c].by, zone |-> card'[c].zone]
      BY <1>1 DEF CardTypes
    <3> QED BY <3>1 DEF In
  <2> QED BY <2>1, <2>2
<1>3. \A z : In(q, z)' = In(q, z)
  <2> TAKE z
  <2> DEFINE A == In(q, z)
             B == In(q, z)'
  <2>1. A \subseteq Printed /\ B \subseteq Printed
    BY <1>1 DEF In
  <2>2. \A c \in Printed : c \in A <=> c \in B
    BY <1>2
  <2> HIDE DEF A, B
  <2>3. A = B
    BY <2>1, <2>2
  <2> QED BY <2>3 DEF A, B
<1> QED BY <1>3 DEF Accounted, HomeCard

\* Filing the piles of a player keeps the types and accounts for all cards.
LEMMA FilingKeeps ==
  ASSUME CardTypes, StageTypes, CardsAccounted, NEW p \in Players, NEW U, Filing(p, U),
         table' = table, mat' = mat, cleanups' = cleanups, seat' = seat, table.limit \in Nat
  PROVE  /\ CardTypes' /\ CardsAccounted'
         /\ strategy'[p].locked /\ IsFiniteSet(strategy'[p].hand)
         /\ \A q \in Players \ {p} : strategy'[q] = strategy[q]
         /\ \A c \in Printed : card'[c] = card[c] \/ (card[c].by = p /\ card'[c].by = p)
<1>1. PICK s \in Dealt(U, strategy[p].submitted, table.limit) :
        strategy' = [strategy EXCEPT ![p] = s] /\ card' = Filed(p, s)
  BY DEF Filing
<1>2. /\ U \in SUBSET Printed /\ Printed' = Printed
      /\ \A c \in U : card[c].by = p /\ card[c].zone # "CAMPAIGN"
      /\ \A c \in Printed \ U : card[c].by = p =>
           card[c].zone \notin {"HAND", "OPERATIONS_DECK", "DISCARD"}
  BY DEF Filing, Printed
<1>3. /\ DOMAIN card' = Printed
      /\ \A c \in Printed \ U : card'[c] = card[c]
      /\ \A c \in U : /\ card'[c].by = p /\ card'[c] = [by |-> p, zone |-> card'[c].zone]
                      /\ card'[c].zone \in {"HAND", "OPERATIONS_DECK", "DISCARD"}
                      /\ card'[c].zone = "HAND" <=> c \in s.hand
                      /\ card'[c].zone = "OPERATIONS_DECK" <=> c \in s.deck
                      /\ card'[c].zone = "DISCARD" <=> c \in s.discard
      /\ card' \in [Printed -> [by : Players \cup {Nobody}, zone : Zones]]
  BY <1>1, <1>2, FiledCards
<1> DEFINE Records == [submitted : SUBSET Printed, deck : SUBSET Printed, hand : SUBSET Printed,
                       discard : SUBSET Printed, locked : BOOLEAN]
<1>4. strategy \in [Players -> Records]
  BY DEF CardTypes
<1>5. s \in Records
  <2>1. strategy[p].submitted \in SUBSET Printed
    BY <1>4
  <2> QED BY <1>2, <2>1 DEF Dealt
<1>6. /\ s.hand \subseteq U /\ s.deck \subseteq U /\ s.discard \subseteq U
      /\ s.locked = TRUE /\ IsFiniteSet(s.hand) /\ Cardinality(s.hand) <= table.limit
  BY DEF Dealt
<1> HIDE DEF Records
<1>7. strategy' \in [Players -> Records] /\ strategy'[p] = s
      /\ \A q \in Players \ {p} : strategy'[q] = strategy[q]
  BY <1>1, <1>4, <1>5
<1>8. CardTypes'
  BY <1>2, <1>3, <1>7 DEF CardTypes, Records
<1>9. \A c \in Printed : card'[c] = card[c] \/ (card[c].by = p /\ card'[c].by = p)
  <2> TAKE c \in Printed
  <2>1. CASE c \in U
    <3>1. card[c].by = p
      BY <1>2, <2>1
    <3>2. card'[c].by = p
      BY <1>3, <2>1
    <3> QED BY <3>1, <3>2
  <2>2. CASE c \notin U
    <3>1. card'[c] = card[c]
      BY <1>3, <2>2
    <3> QED BY <3>1
  <2> QED BY <2>1, <2>2
<1>10. \A q \in Players : Accounted(q)
  BY AccountedForAll
<1>11. ASSUME NEW q \in Players \ {p}
       PROVE  Accounted(q)'
  <2>1. strategy'[q] = strategy[q] /\ mat'[q] = mat[q] /\ Accounted(q)
    BY <1>7, <1>10
  <2>2. \A c \in Printed : card[c].by = q \/ card'[c].by = q =>
           card'[c].by = card[c].by /\ card'[c].zone = card[c].zone
    BY <1>9, <1>11
  <2> QED BY <1>8, <2>1, <2>2, NotTouched
<1>12. Accounted(p)'
  <2>1. \A c \in Printed : \A z : c \in In(p, z)' <=> card'[c].by = p /\ card'[c].zone = z
    <3> TAKE c \in Printed
    <3>1. c \in DOMAIN card' /\ card'[c] = [by |-> card'[c].by, zone |-> card'[c].zone]
      BY <1>3
    <3> QED BY <3>1 DEF In
  <2>2. \A c \in Printed : \A z : c \in In(p, z) <=> card[c].by = p /\ card[c].zone = z
    BY Location
  <2>3. \A z : In(p, z)' \subseteq Printed /\ In(p, z) \subseteq Printed
    BY <1>3 DEF In, CardTypes
  <2>4. \A c \in Printed : /\ c \in In(p, "HAND")' <=> c \in s.hand
                           /\ c \in In(p, "DISCARD")' <=> c \in s.discard
                           /\ c \in In(p, "OPERATIONS_DECK")' <=> c \in s.deck
                           /\ c \in In(p, "CAMPAIGN")' <=> c \in In(p, "CAMPAIGN")
    <3> TAKE c \in Printed
    <3>1. \A z : c \in In(p, z)' <=> card'[c].by = p /\ card'[c].zone = z
      BY <2>1
    <3>2. \A z : c \in In(p, z) <=> card[c].by = p /\ card[c].zone = z
      BY <2>2
    <3>3. CASE c \in U
      BY <1>2, <1>3, <3>1, <3>2, <3>3
    <3>4. CASE c \notin U
      BY <1>2, <1>3, <1>6, <3>1, <3>2, <3>4
    <3> QED BY <3>3, <3>4
  <2>5. s.hand \subseteq Printed /\ s.discard \subseteq Printed /\ s.deck \subseteq Printed
    BY <1>2, <1>6
  <2>6. /\ In(p, "HAND")' = s.hand /\ In(p, "DISCARD")' = s.discard
        /\ In(p, "OPERATIONS_DECK")' = s.deck
    BY <2>3, <2>4, <2>5
  <2>7. In(p, "CAMPAIGN")' = In(p, "CAMPAIGN")
    BY <2>3, <2>4
  <2>8. mat[p].cards = In(p, "CAMPAIGN")
    BY <1>10 DEF Accounted
  <2>9. Cardinality(s.hand \ {HomeCard(p)}) <= table.limit
    BY <1>6, WithinLimit
  <2> QED BY <1>6, <1>7, <2>6, <2>7, <2>8, <2>9 DEF Accounted, HomeCard
<1>13. CardsAccounted'
  BY <1>11, <1>12, AccountedForAll
<1> QED BY <1>6, <1>7, <1>8, <1>9, <1>13

-------------------------------------------------------------------------------
(***************************************************************************)
(* Every step accounts for the cards.                                      *)
(***************************************************************************)

CardInv == CardTypes /\ Piles /\ CardsAccounted

\* A step that moves no card.
LEMMA QuietCards ==
  ASSUME CardInv, UNCHANGED <<table, seat, card, strategy, mat, cleanups>>,
         \A p \in Players : planning'[p].done = planning[p].done,
         phase' = "SETUP" => phase = "SETUP",
         phase' \notin {"SETUP", "STRATEGY_STAGE"} => phase \notin {"SETUP", "STRATEGY_STAGE"}
  PROVE  CardInv'
<1>1. Printed' = Printed
  BY DEF Printed
<1>2. CardTypes'
  BY <1>1 DEF CardInv, CardTypes
<1>3. Piles'
  BY <1>1 DEF CardInv, Piles
<1>4. CardsAccounted'
  BY DEF CardInv, CardsAccounted, Cards, HomeCard
<1> QED BY <1>2, <1>3, <1>4 DEF CardInv

\* A seat taken in the setup hands over the cards of a country, all in pools.
LEMMA SeatCards ==
  ASSUME CardInv, SetupTypes, NEW p \in Players, NEW c \in Countries, NEW i \in Places,
         AssignSeat(p, c, i), UNCHANGED turnVars
  PROVE  CardInv'
<1>1. /\ phase = "SETUP" /\ phase' = phase /\ Printed' = Printed
      /\ strategy' = strategy /\ mat' = mat /\ cleanups' = cleanups /\ table' = table
      /\ planning' = planning
      /\ seat' = [seat EXCEPT ![p] = [country |-> c, index |-> i]]
      /\ card' = [d \in DOMAIN card |-> IF d[1] = c THEN [card[d] EXCEPT !.by = p] ELSE card[d]]
  BY DEF AssignSeat, turnVars, stageVars, Printed
<1>2. /\ card \in [Printed -> [by : Players \cup {Nobody}, zone : Zones]] /\ DOMAIN card = Printed
      /\ \A d \in Printed : card[d].zone \in Pools
      /\ \A q \in Players : ~strategy[q].locked
  BY <1>1 DEF CardInv, CardTypes, Piles
<1>3. /\ card' \in [Printed -> [by : Players \cup {Nobody}, zone : Zones]]
      /\ \A d \in Printed : card'[d].zone = card[d].zone
                            /\ card'[d].by = (IF d[1] = c THEN p ELSE card[d].by)
  BY <1>1, <1>2
<1>4. CardTypes'
  BY <1>1, <1>3 DEF CardInv, CardTypes
<1>5. Piles'
  <2>1. \A q \in Players : \A d \in Printed : card'[d].by = q => d[1] = seat'[q].country
    <3> TAKE q \in Players
    <3> TAKE d \in Printed
    <3> HAVE card'[d].by = q
    <3>1. CASE d[1] = c
      <4>1. q = p /\ seat'[p] = [country |-> c, index |-> i]
        BY <1>1, <1>3, <3>1 DEF SetupTypes
      <4> QED BY <3>1, <4>1
    <3>2. CASE d[1] # c
      <4>1. card[d].by = q
        BY <1>3, <3>2
      <4>2. d[1] = seat[q].country
        BY <1>2, <4>1 DEF CardInv, Piles
      <4>3. q # p
        <5>1. seat[p] = NoSeat
          BY DEF AssignSeat, Seated
        <5>2. \A n \in Countries : n # "NONE"
          BY TopologyAssumption
        <5>3. d[1] \in Countries
          BY DEF Printed
        <5> QED BY <4>2, <5>1, <5>2, <5>3 DEF NoSeat
      <4> QED BY <1>1, <4>2, <4>3 DEF SetupTypes
    <3> QED BY <3>1, <3>2
  <2>2. \A d \in Printed : card'[d].zone \in Pools
    BY <1>2, <1>3
  <2> QED BY <1>1, <1>2, <2>1, <2>2 DEF CardInv, Piles
<1>6. CardsAccounted'
  <2>1. ASSUME NEW q \in Players PROVE Accounted(q)'
    <3>1. \A z \in {"HAND", "DISCARD", "CAMPAIGN", "OPERATIONS_DECK"} : In(q, z)' = {} /\ In(q, z) = {}
      <4>1. \A z \in {"HAND", "DISCARD", "CAMPAIGN", "OPERATIONS_DECK"} : z \notin Pools
        BY DEF Pools
      <4>2. DOMAIN card' = Printed
        BY <1>3
      <4> QED BY <1>2, <1>3, <4>1, <4>2 DEF In
    <3>2. Accounted(q)
      BY AccountedForAll DEF CardInv
    <3>3. strategy[q].hand = {} /\ strategy'[q].hand = {}
      BY <1>1, <3>1, <3>2 DEF Accounted
    <3>4. \A e : Cardinality({} \ {e}) = 0 /\ Cardinality({}) = 0
      <4>1. \A e : {} \ {e} = {}
        OBVIOUS
      <4> QED BY <4>1, FS_EmptySet
    <3>5. table.limit \in Nat
      BY Instances DEF SetupTypes
    <3> QED BY <1>1, <3>1, <3>2, <3>3, <3>4, <3>5 DEF Accounted
  <2> QED BY <2>1, AccountedForAll
<1> QED BY <1>4, <1>5, <1>6 DEF CardInv

\* A deck that is submitted is only a plan.
LEMMA SubmittedCards ==
  ASSUME CardInv, NEW p \in Players, SubmitDeck(p), UNCHANGED turnVars
  PROVE  CardInv'
<1>1. PICK d \in SUBSET {c \in DOMAIN card : card[c].by = p} :
        strategy' = [strategy EXCEPT ![p].submitted = d]
  BY DEF SubmitDeck
<1>2. UNCHANGED <<table, seat, card, mat, cleanups, phase, planning>> /\ Printed' = Printed
  BY DEF SubmitDeck, setupVars, stageVars, turnVars, Printed
<1> DEFINE Records == [submitted : SUBSET Printed, deck : SUBSET Printed, hand : SUBSET Printed,
                       discard : SUBSET Printed, locked : BOOLEAN]
<1>3. strategy \in [Players -> Records] /\ d \subseteq Printed
  BY DEF CardInv, CardTypes
<1>4. strategy' \in [Players -> Records]
  BY <1>1, <1>3
<1>5. \A q \in Players : /\ strategy'[q].hand = strategy[q].hand /\ strategy'[q].deck = strategy[q].deck
                         /\ strategy'[q].discard = strategy[q].discard
                         /\ strategy'[q].locked = strategy[q].locked
  BY <1>1, <1>3
<1> HIDE DEF Records
<1>6. CardTypes'
  BY <1>2, <1>4 DEF CardInv, CardTypes, Records
<1>7. Piles'
  BY <1>2, <1>5 DEF CardInv, Piles
<1>8. CardsAccounted'
  <2>1. ASSUME NEW q \in Players PROVE Accounted(q)'
    <3>1. Accounted(q)
      BY AccountedForAll DEF CardInv
    <3> QED BY <1>2, <1>5, <3>1 DEF Accounted, In, HomeCard
  <2> QED BY <2>1, AccountedForAll
<1> QED BY <1>6, <1>7, <1>8 DEF CardInv

\* The lock of a strategy deals the opening hand.
LEMMA OpeningDealt ==
  ASSUME CardInv, SetupTypes, StageTypes, Stages, NEW p \in Players,
         LockStrategy(p), UNCHANGED turnVars
  PROVE  CardInv'
<1>1. UNCHANGED <<table, seat, mat, cleanups, planning>>
  BY DEF LockStrategy, setupVars, stageVars, turnVars
<1>2. /\ CardTypes' /\ CardsAccounted'
      /\ strategy'[p].locked /\ IsFiniteSet(strategy'[p].hand)
      /\ \A q \in Players \ {p} : strategy'[q] = strategy[q]
      /\ \A c \in Printed : card'[c] = card[c] \/ (card[c].by = p /\ card'[c].by = p)
  <2>1. CardTypes /\ Piles /\ CardsAccounted
    BY DEF CardInv
  <2>2. Filing(p, OpeningCards(p))
    BY <2>1, LocksFile
  <2>3. table.limit \in Nat
    BY Instances DEF SetupTypes
  <2> QED BY <1>1, <2>1, <2>2, <2>3, FilingKeeps
<1>3. /\ phase = "STRATEGY_STAGE" /\ phase' \in {"STRATEGY_STAGE", "INITIATIVE_STAGE"}
      /\ phase' # "STRATEGY_STAGE" => \A q \in Players \ {p} : strategy[q].locked
  BY DEF LockStrategy
<1>4. Printed' = Printed
  BY <1>1 DEF Printed
<1>5. Piles'
  <2>1. \A q \in Players : ~strategy'[q].locked => q # p /\ ~strategy[q].locked
    BY <1>2
  <2>2. \A q \in Players : \A c \in Printed : card'[c].by = q /\ q # p => card[c].by = q /\ card'[c] = card[c]
    BY <1>2
  <2>3. \A q \in Players : ~strategy'[q].locked =>
       /\ \A c \in Printed : card'[c].by = q =>
            /\ c[1] = seat[q].country /\ card'[c].zone \in Pools
       /\ strategy'[q].hand = {} /\ strategy'[q].deck = {} /\ strategy'[q].discard = {}
    <3> SUFFICES ASSUME NEW q \in Players, ~strategy'[q].locked
                 PROVE  /\ \A c \in Printed : card'[c].by = q =>
                              c[1] = seat[q].country /\ card'[c].zone \in Pools
                        /\ strategy'[q].hand = {} /\ strategy'[q].deck = {} /\ strategy'[q].discard = {}
      OBVIOUS
    <3>1. q # p /\ ~strategy[q].locked /\ strategy'[q] = strategy[q]
      BY <1>2, <2>1
    <3>2. /\ \A c \in Printed : card[c].by = q => c[1] = seat[q].country /\ card[c].zone \in Pools
          /\ strategy[q].hand = {} /\ strategy[q].deck = {} /\ strategy[q].discard = {}
      BY <3>1, Unlocked DEF CardInv
    <3> QED BY <2>2, <3>1, <3>2
  <2>4. \A q \in Players : IsFiniteSet(strategy'[q].hand)
    BY <1>2 DEF CardInv, Piles
  <2>5. \A q \in Players : /\ ~planning'[q].done => mat'[q] = NoCampaign
                           /\ mat'[q].row = "NONE" => mat'[q].cards = {}
    BY <1>1 DEF CardInv, Piles
  <2>6. phase' # "SETUP" /\ (phase' # "STRATEGY_STAGE" => \A q \in Players : strategy'[q].locked)
    BY <1>2, <1>3
  <2> QED BY <1>1, <1>4, <2>3, <2>4, <2>5, <2>6 DEF Piles
<1> QED BY <1>2, <1>5 DEF CardInv

\* The lock of the maintenance fills the hand.
LEMMA HandFilled ==
  ASSUME CardInv, SetupTypes, StageTypes, Stages, NEW p \in Players,
         LockMaintenance(p), UNCHANGED turnVars
  PROVE  CardInv'
<1>1. UNCHANGED <<table, seat, mat, cleanups>>
  BY DEF LockMaintenance, setupVars, turnVars
<1>2. /\ CardTypes' /\ CardsAccounted'
      /\ strategy'[p].locked /\ IsFiniteSet(strategy'[p].hand)
      /\ \A q \in Players \ {p} : strategy'[q] = strategy[q]
  <2>1. CardTypes /\ Piles /\ CardsAccounted
    BY DEF CardInv
  <2>2. Filing(p, PilesOfPlayer(p))
    BY <2>1, LocksFile
  <2>3. table.limit \in Nat
    BY Instances DEF SetupTypes
  <2> QED BY <1>1, <2>1, <2>2, <2>3, FilingKeeps
<1>3. /\ phase = "INITIATIVE_STAGE" /\ phase' \in {"INITIATIVE_STAGE", "ACTION_STAGE_PLAN"}
      /\ initiative.status = "MAINTENANCE"
  BY DEF LockMaintenance
<1>4. \A q \in Players : mat'[q] = NoCampaign
  BY <1>1, <1>3 DEF Stages
<1>5. \A q \in Players : strategy'[q].locked
  BY <1>2, <1>3 DEF CardInv, Piles
<1>6. \A q \in Players : IsFiniteSet(strategy'[q].hand)
  BY <1>2 DEF CardInv, Piles
<1>7. Piles'
  BY <1>3, <1>4, <1>5, <1>6 DEF Piles, NoCampaign
<1> QED BY <1>2, <1>7 DEF CardInv

\* A deal moves one card from a hand to a hand that has room.
LEMMA DealtCard ==
  ASSUME CardInv, SetupTypes, NEW p \in Players, NEW q \in Players, NEW c \in strategy[p].hand,
         DealCard(p, q, c), UNCHANGED turnVars
  PROVE  CardInv'
<1>1. /\ UNCHANGED <<table, seat, phase, planning, mat, cleanups>> /\ Printed' = Printed
      /\ p # q /\ phase \in {"INITIATIVE_STAGE", "ACTION_STAGE_PLAN"}
      /\ card[c] = [by |-> p, zone |-> "HAND"] /\ ~Full(strategy[q])
      /\ strategy' = [strategy EXCEPT ![p].hand = @ \ {c}, ![q].hand = @ \cup {c}]
      /\ card' = [card EXCEPT ![c].by = q]
  BY DEF DealCard, MayDeal, InHand, setupVars, stageVars, turnVars, Printed
<1> DEFINE Records == [submitted : SUBSET Printed, deck : SUBSET Printed, hand : SUBSET Printed,
                       discard : SUBSET Printed, locked : BOOLEAN]
<1>2. /\ card \in [Printed -> [by : Players \cup {Nobody}, zone : Zones]]
      /\ strategy \in [Players -> Records] /\ table.limit \in Nat
  BY Instances DEF CardInv, CardTypes, SetupTypes
<1>3. c \in Printed
  BY <1>2
<1>4. /\ strategy' \in [Players -> Records]
      /\ strategy'[p].hand = strategy[p].hand \ {c} /\ strategy'[q].hand = strategy[q].hand \cup {c}
      /\ \A r \in Players : /\ strategy'[r].locked = strategy[r].locked
                            /\ strategy'[r].deck = strategy[r].deck
                            /\ strategy'[r].discard = strategy[r].discard
                            /\ r \notin {p, q} => strategy'[r].hand = strategy[r].hand
  <2>1. strategy[p].hand \ {c} \in SUBSET Printed /\ strategy[q].hand \cup {c} \in SUBSET Printed
    BY <1>2, <1>3
  <2>2. strategy' \in [Players -> Records]
    BY <1>1, <1>2, <2>1, SMTT(30)
  <2>3. strategy'[p].hand = strategy[p].hand \ {c} /\ strategy'[q].hand = strategy[q].hand \cup {c}
    BY <1>1, <1>2
  <2>4. \A r \in Players : /\ strategy'[r].locked = strategy[r].locked
                           /\ strategy'[r].deck = strategy[r].deck
                           /\ strategy'[r].discard = strategy[r].discard
                           /\ r \notin {p, q} => strategy'[r].hand = strategy[r].hand
    BY <1>1, <1>2
  <2> QED BY <2>2, <2>3, <2>4
<1> HIDE DEF Records
<1>5. /\ card' \in [Printed -> [by : Players \cup {Nobody}, zone : Zones]]
      /\ card'[c] = [by |-> q, zone |-> "HAND"]
      /\ \A d \in Printed \ {c} : card'[d] = card[d]
  <2>1. [card[c] EXCEPT !.by = q] = [by |-> q, zone |-> "HAND"]
    BY <1>1
  <2>2. card' = [card EXCEPT ![c] = [by |-> q, zone |-> "HAND"]]
    BY <1>1, <2>1
  <2>3. [by |-> q, zone |-> "HAND"] \in [by : Players \cup {Nobody}, zone : Zones]
    BY DEF Zones
  <2> QED BY <1>2, <1>3, <2>2, <2>3
<1>6. CardTypes'
  BY <1>1, <1>4, <1>5 DEF CardTypes, Records
<1>7. \A r \in Players : /\ Accounted(r) /\ strategy[r].locked
                         /\ IsFiniteSet(strategy[r].hand) /\ Cardinality(strategy[r].hand) \in Nat
  BY <1>1, AccountedForAll, FS_CardinalityType DEF CardInv, Piles
<1>8. \A r \in {p, q} :
        /\ IsFiniteSet(strategy'[r].hand)
        /\ cleanups = 0 => Cardinality(strategy'[r].hand) <= table.limit
        /\ Cardinality(strategy'[r].hand \ {HomeCard(r)}) <= table.limit
  <2>1. /\ IsFiniteSet(strategy[p].hand \ {c})
        /\ cleanups = 0 => Cardinality(strategy[p].hand \ {c}) <= table.limit
        /\ Cardinality((strategy[p].hand \ {c}) \ {HomeCard(p)}) <= table.limit
    <3> DEFINE S == strategy[p].hand
               T == S \ {HomeCard(p)}
    <3>1. /\ IsFiniteSet(S) /\ IsFiniteSet(T)
          /\ cleanups = 0 => Cardinality(S) <= table.limit
          /\ Cardinality(T) <= table.limit
      BY <1>2, <1>7, WithinLimit DEF Accounted
    <3> HIDE DEF S, T
    <3>2. /\ IsFiniteSet(S \ {c})
          /\ cleanups = 0 => Cardinality(S \ {c}) <= table.limit
          /\ Cardinality(T \ {c}) <= table.limit
      BY <1>2, <3>1, WithinLimit
    <3>3. T \ {c} = (S \ {c}) \ {HomeCard(p)}
      BY DEF T
    <3>4. /\ IsFiniteSet(S \ {c})
          /\ cleanups = 0 => Cardinality(S \ {c}) <= table.limit
          /\ Cardinality((S \ {c}) \ {HomeCard(p)}) <= table.limit
      BY <3>2, <3>3
    <3> QED BY <3>4 DEF S
  <2>2. /\ IsFiniteSet(strategy[q].hand \cup {c})
        /\ Cardinality(strategy[q].hand \cup {c}) \in Nat
        /\ Cardinality(strategy[q].hand \cup {c}) <= Cardinality(strategy[q].hand) + 1
    <3>1. IsFiniteSet(strategy[q].hand) /\ Cardinality(strategy[q].hand) \in Nat
      BY <1>7
    <3>2. /\ IsFiniteSet(strategy[q].hand \cup {c})
          /\ Cardinality(strategy[q].hand \cup {c}) =
               IF c \in strategy[q].hand THEN Cardinality(strategy[q].hand)
                                         ELSE Cardinality(strategy[q].hand) + 1
      BY <3>1, FS_AddElement
    <3> QED BY <3>1, <3>2
  <2>3. Cardinality(strategy[q].hand) < table.limit
    BY <1>1, <1>2, <1>7 DEF Full
  <2>4. Cardinality(strategy[q].hand \cup {c}) <= table.limit
    BY <1>2, <1>7, <2>2, <2>3
  <2> DEFINE H == strategy[q].hand \cup {c}
  <2>5. /\ IsFiniteSet(H) /\ Cardinality(H) <= table.limit
        /\ Cardinality(H \ {HomeCard(q)}) <= table.limit
    <3>1. IsFiniteSet(H) /\ Cardinality(H) <= table.limit
      BY <2>2, <2>4
    <3> HIDE DEF H
    <3> QED BY <1>2, <3>1, WithinLimit
  <2>6. strategy'[q].hand = H /\ strategy'[p].hand = strategy[p].hand \ {c}
    BY <1>4
  <2> HIDE DEF H
  <2> QED BY <2>1, <2>5, <2>6
<1>9. Piles'
  <2>1. \A r \in Players : IsFiniteSet(strategy'[r].hand) /\ strategy'[r].locked
    BY <1>4, <1>7, <1>8
  <2> QED BY <1>1, <2>1 DEF CardInv, Piles
<1>10. \A d \in Printed : \A r, z : d \in In(r, z)' <=> card'[d].by = r /\ card'[d].zone = z
  <2> TAKE d \in Printed
  <2>1. d \in DOMAIN card' /\ card'[d] = [by |-> card'[d].by, zone |-> card'[d].zone]
    BY <1>5
  <2> QED BY <2>1 DEF In
<1>11. \A d \in Printed : \A r, z : d \in In(r, z) <=> card[d].by = r /\ card[d].zone = z
  BY Location DEF CardInv
<1>12. ASSUME NEW r \in Players
       PROVE  Accounted(r)'
  <2>1. \A z : In(r, z)' \subseteq Printed /\ In(r, z) \subseteq Printed
    BY <1>2, <1>5 DEF In
  <2>2. \A d \in Printed : d \in In(r, "HAND")' <=> d \in strategy'[r].hand
    <3> TAKE d \in Printed
    <3>1. d \in In(r, "HAND") <=> d \in strategy[r].hand
      BY <1>7 DEF Accounted
    <3>2. CASE d = c
      <4>1. d \in In(r, "HAND")' <=> r = q
        BY <1>5, <1>10, <3>2
      <4>2. d \in In(r, "HAND") <=> r = p
        BY <1>1, <1>11, <3>2
      <4> QED BY <1>1, <1>4, <3>1, <3>2, <4>1, <4>2
    <3>3. CASE d # c
      <4>1. d \in In(r, "HAND")' <=> d \in In(r, "HAND")
        BY <1>5, <1>10, <1>11, <3>3
      <4>2. d \in strategy'[r].hand <=> d \in strategy[r].hand
        BY <1>1, <1>4, <3>3
      <4> QED BY <3>1, <4>1, <4>2
    <3> QED BY <3>2, <3>3
  <2>3. \A z \in {"DISCARD", "CAMPAIGN", "OPERATIONS_DECK"} :
          \A d \in Printed : d \in In(r, z)' <=> d \in In(r, z)
    <3> TAKE z \in {"DISCARD", "CAMPAIGN", "OPERATIONS_DECK"}
    <3> TAKE d \in Printed
    <3>1. CASE d = c
      <4>1. card'[d].zone = "HAND" /\ card[d].zone = "HAND" /\ z # "HAND"
        BY <1>1, <1>5, <3>1
      <4> QED BY <1>10, <1>11, <4>1
    <3>2. CASE d # c
      BY <1>5, <1>10, <1>11, <3>2
    <3> QED BY <3>1, <3>2
  <2>4. strategy'[r].hand \subseteq Printed
    BY <1>4 DEF Records
  <2>5. In(r, "HAND")' = strategy'[r].hand
    BY <2>1, <2>2, <2>4
  <2>6. \A z \in {"DISCARD", "CAMPAIGN", "OPERATIONS_DECK"} : In(r, z)' = In(r, z)
    <3> TAKE z \in {"DISCARD", "CAMPAIGN", "OPERATIONS_DECK"}
    <3> DEFINE A == In(r, z)
               B == In(r, z)'
    <3>1. A \subseteq Printed /\ B \subseteq Printed /\ \A d \in Printed : d \in A <=> d \in B
      BY <2>1, <2>3
    <3> HIDE DEF A, B
    <3>2. A = B
      BY <3>1
    <3> QED BY <3>2 DEF A, B
  <2>7. /\ cleanups = 0 => Cardinality(strategy'[r].hand) <= table.limit
        /\ Cardinality(strategy'[r].hand \ {HomeCard(r)}) <= table.limit
    <3>1. CASE r \in {p, q}
      BY <1>8, <3>1
    <3>2. CASE r \notin {p, q}
      BY <1>4, <1>7, <3>2 DEF Accounted
    <3> QED BY <3>1, <3>2
  <2>8. strategy[r].discard = In(r, "DISCARD") /\ mat[r].cards = In(r, "CAMPAIGN")
    BY <1>7 DEF Accounted
  <2>9. cleanups = 0 => strategy[r].deck = In(r, "OPERATIONS_DECK")
    BY <1>7 DEF Accounted
  <2>10. /\ strategy'[r].discard = In(r, "DISCARD")' /\ mat'[r].cards = In(r, "CAMPAIGN")'
         /\ cleanups' = 0 => strategy'[r].deck = In(r, "OPERATIONS_DECK")'
    BY <1>1, <1>4, <2>6, <2>8, <2>9
  <2> QED BY <1>1, <2>5, <2>7, <2>10 DEF Accounted, HomeCard
<1>13. CardsAccounted'
  BY <1>12, AccountedForAll
<1> QED BY <1>6, <1>9, <1>13 DEF CardInv

-------------------------------------------------------------------------------
(***************************************************************************)
(* The resolution stage and the cards.                                     *)
(***************************************************************************)

\* A slot that turns the cards of a plan into a campaign.
LEMMA PlanCards ==
  ASSUME CardInv, SetupTypes, StageTypes, TurnTypes, NEW p \in Players, ResolvePlan(p)
  PROVE  CardInv'
<1> DEFINE d == planning[p].cards
           played == d # {} /\ \A c \in d : InHand(p, c)
<1>1. /\ UNCHANGED <<table, seat, phase, cleanups>> /\ Printed' = Printed
      /\ phase = "RESOLUTION_STAGE" /\ ~planning[p].done
      /\ planning' = [planning EXCEPT ![p].done = TRUE]
  BY DEF ResolvePlan, setupVars, Printed
<1>2. /\ \A q \in Players \ {p} : planning'[q].done = planning[q].done
      /\ planning'[p].done
  BY <1>1 DEF StageTypes
<1>3. CASE ~ played
  <2>1. UNCHANGED <<card, strategy, mat>>
    BY <1>3 DEF ResolvePlan, cardVars
  <2>2. CardTypes' /\ CardsAccounted'
    BY <1>1, <2>1 DEF CardInv, CardTypes, CardsAccounted, Cards, HomeCard
  <2>3. Piles'
    BY <1>1, <1>2, <2>1 DEF CardInv, Piles
  <2> QED BY <2>2, <2>3 DEF CardInv
<1>4. CASE played
  <2>1. /\ mat' = [mat EXCEPT ![p] = [row |-> "I", cards |-> d]]
        /\ card' = [c \in DOMAIN card |->
                      IF c \in d THEN [card[c] EXCEPT !.zone = "CAMPAIGN"] ELSE card[c]]
        /\ strategy' = [strategy EXCEPT ![p].hand = @ \ d]
        /\ \A c \in d : card[c] = [by |-> p, zone |-> "HAND"] /\ c \in strategy[p].hand
    BY <1>4 DEF ResolvePlan, InHand
  <2> DEFINE Records == [submitted : SUBSET Printed, deck : SUBSET Printed, hand : SUBSET Printed,
                         discard : SUBSET Printed, locked : BOOLEAN]
  <2>2. /\ card \in [Printed -> [by : Players \cup {Nobody}, zone : Zones]] /\ DOMAIN card = Printed
        /\ strategy \in [Players -> Records]
    BY DEF CardInv, CardTypes
  <2>3. /\ strategy' \in [Players -> Records] /\ strategy'[p].hand = strategy[p].hand \ d
        /\ \A q \in Players : /\ strategy'[q].locked = strategy[q].locked
                              /\ strategy'[q].deck = strategy[q].deck
                              /\ strategy'[q].discard = strategy[q].discard
                              /\ q # p => strategy'[q].hand = strategy[q].hand
    <3>1. strategy[p].hand \ d \in SUBSET Printed
      BY <2>2
    <3>2. strategy' \in [Players -> Records]
      BY <2>1, <2>2, <3>1, SMTT(30)
    <3>3. strategy'[p].hand = strategy[p].hand \ d
      BY <2>1, <2>2
    <3>4. \A q \in Players : /\ strategy'[q].locked = strategy[q].locked
                             /\ strategy'[q].deck = strategy[q].deck
                             /\ strategy'[q].discard = strategy[q].discard
                             /\ q # p => strategy'[q].hand = strategy[q].hand
      BY <2>1, <2>2
    <3> QED BY <3>2, <3>3, <3>4
  <2>4. \A q \in Players : /\ Accounted(q) /\ strategy[q].locked
                           /\ IsFiniteSet(strategy[q].hand) /\ Cardinality(strategy[q].hand) \in Nat
    BY <1>1, AccountedForAll, FS_CardinalityType DEF CardInv, Piles
  <2> HIDE DEF Records, played
  <2>5. d \subseteq Printed /\ d \subseteq strategy[p].hand
    BY <2>1, <2>2 DEF Records
  <2>6. /\ card' \in [Printed -> [by : Players \cup {Nobody}, zone : Zones]]
        /\ \A c \in d : card'[c] = [by |-> p, zone |-> "CAMPAIGN"]
        /\ \A c \in Printed \ d : card'[c] = card[c]
    <3>1. \A c \in d : [card[c] EXCEPT !.zone = "CAMPAIGN"] = [by |-> p, zone |-> "CAMPAIGN"]
      BY <2>1
    <3>2. \A c \in Printed : card'[c] = IF c \in d THEN [by |-> p, zone |-> "CAMPAIGN"] ELSE card[c]
      BY <2>1, <2>2, <3>1
    <3>3. DOMAIN card' = Printed /\ card' = [c \in Printed |-> card'[c]]
      BY <2>1, <2>2
    <3>4. [by |-> p, zone |-> "CAMPAIGN"] \in [by : Players \cup {Nobody}, zone : Zones]
      BY DEF Zones
    <3>5. \A c \in Printed : card'[c] \in [by : Players \cup {Nobody}, zone : Zones]
      BY <2>2, <3>2, <3>4
    <3>6. card' \in [Printed -> [by : Players \cup {Nobody}, zone : Zones]]
      BY <3>3, <3>5
    <3> QED BY <2>5, <3>2, <3>6
  <2>7. CardTypes'
    BY <1>1, <2>3, <2>6 DEF CardTypes, Records
  <2>8. /\ mat'[p] = [row |-> "I", cards |-> d] /\ mat[p] = NoCampaign
        /\ \A q \in Players \ {p} : mat'[q] = mat[q]
    BY <1>1, <2>1 DEF CardInv, Piles, TurnTypes
  <2> HIDE DEF d
  <2>9. /\ IsFiniteSet(strategy'[p].hand)
        /\ cleanups = 0 => Cardinality(strategy'[p].hand) <= table.limit
        /\ Cardinality(strategy'[p].hand \ {HomeCard(p)}) <= table.limit
    <3> DEFINE S == strategy[p].hand
               T == S \ {HomeCard(p)}
    <3>1. table.limit \in Nat
      BY Instances DEF SetupTypes
    <3>2. /\ IsFiniteSet(S) /\ IsFiniteSet(T)
          /\ cleanups = 0 => Cardinality(S) <= table.limit
          /\ Cardinality(T) <= table.limit
      BY <2>4, <3>1, WithinLimit DEF Accounted
    <3>3. S \ d \subseteq S /\ T \ d \subseteq T /\ T \ d = (S \ d) \ {HomeCard(p)}
      OBVIOUS
    <3> HIDE DEF S, T
    <3>4. /\ IsFiniteSet(S \ d) /\ IsFiniteSet(T \ d)
          /\ Cardinality(S \ d) <= Cardinality(S) /\ Cardinality(T \ d) <= Cardinality(T)
          /\ Cardinality(S \ d) \in Nat /\ Cardinality(S) \in Nat
          /\ Cardinality(T \ d) \in Nat /\ Cardinality(T) \in Nat
      BY <3>2, <3>3, FS_Subset, FS_CardinalityType
    <3>5. /\ cleanups = 0 => Cardinality(S \ d) <= table.limit
          /\ Cardinality(T \ d) <= table.limit
      BY <3>1, <3>2, <3>4
    <3>6. strategy'[p].hand = S \ d
      BY <2>3 DEF S
    <3> QED BY <3>3, <3>4, <3>5, <3>6
  <2>10. Piles'
    <3>1. \A q \in Players : IsFiniteSet(strategy'[q].hand) /\ strategy'[q].locked
      BY <2>3, <2>4, <2>9
    <3>2. \A q \in Players : /\ ~planning'[q].done => mat'[q] = NoCampaign
                             /\ mat'[q].row = "NONE" => mat'[q].cards = {}
      BY <1>2, <2>8 DEF CardInv, Piles
    <3> QED BY <1>1, <3>1, <3>2 DEF Piles
  <2>11. ASSUME NEW q \in Players \ {p}
         PROVE  Accounted(q)'
    <3>1. \A c \in Printed : card[c].by = q \/ card'[c].by = q => card'[c] = card[c]
      BY <2>1, <2>6, <2>11
    <3>2. /\ strategy'[q].hand = strategy[q].hand /\ strategy'[q].deck = strategy[q].deck
          /\ strategy'[q].discard = strategy[q].discard /\ mat'[q].cards = mat[q].cards
      BY <2>3, <2>8
    <3>3. \A c \in Printed : card[c].by = q \/ card'[c].by = q =>
            card'[c].by = card[c].by /\ card'[c].zone = card[c].zone
      BY <3>1
    <3>4. CardTypes /\ Accounted(q)
      BY <2>4 DEF CardInv
    <3> QED BY <1>1, <2>7, <3>2, <3>3, <3>4, NotTouched
  <2>12. Accounted(p)'
    <3>1. \A c \in Printed : \A z : c \in In(p, z)' <=> card'[c].by = p /\ card'[c].zone = z
      <4> TAKE c \in Printed
      <4>1. c \in DOMAIN card' /\ card'[c] = [by |-> card'[c].by, zone |-> card'[c].zone]
        BY <2>6
      <4> QED BY <4>1 DEF In
    <3>2. \A c \in Printed : \A z : c \in In(p, z) <=> card[c].by = p /\ card[c].zone = z
      BY Location DEF CardInv
    <3>3. \A z : In(p, z)' \subseteq Printed /\ In(p, z) \subseteq Printed
      BY <2>2, <2>6 DEF In
    <3>4. \A c \in Printed :
            /\ c \in In(p, "HAND")' <=> c \in In(p, "HAND") \ d
            /\ c \in In(p, "CAMPAIGN")' <=> c \in In(p, "CAMPAIGN") \cup d
            /\ c \in In(p, "DISCARD")' <=> c \in In(p, "DISCARD")
            /\ c \in In(p, "OPERATIONS_DECK")' <=> c \in In(p, "OPERATIONS_DECK")
      <4> TAKE c \in Printed
      <4>1. \A z : c \in In(p, z)' <=> card'[c].by = p /\ card'[c].zone = z
        BY <3>1
      <4>2. \A z : c \in In(p, z) <=> card[c].by = p /\ card[c].zone = z
        BY <3>2
      <4>3. CASE c \in d
        <5>1. card'[c] = [by |-> p, zone |-> "CAMPAIGN"] /\ card[c] = [by |-> p, zone |-> "HAND"]
          BY <2>1, <2>6, <4>3
        <5> QED BY <4>1, <4>2, <4>3, <5>1
      <4>4. CASE c \notin d
        <5>1. card'[c] = card[c]
          BY <2>6, <4>4
        <5> QED BY <4>1, <4>2, <4>4, <5>1
      <4> QED BY <4>3, <4>4
    <3>5. /\ In(p, "HAND")' = In(p, "HAND") \ d /\ In(p, "CAMPAIGN")' = In(p, "CAMPAIGN") \cup d
          /\ In(p, "DISCARD")' = In(p, "DISCARD")
          /\ In(p, "OPERATIONS_DECK")' = In(p, "OPERATIONS_DECK")
      BY <2>5, <3>3, <3>4
    <3>6. In(p, "CAMPAIGN") = {}
      <4>1. mat[p].cards = In(p, "CAMPAIGN")
        BY <2>4 DEF Accounted
      <4> QED BY <2>8, <4>1 DEF NoCampaign
    <3>7. /\ strategy[p].hand = In(p, "HAND") /\ strategy[p].discard = In(p, "DISCARD")
          /\ cleanups = 0 => strategy[p].deck = In(p, "OPERATIONS_DECK")
      BY <2>4 DEF Accounted
    <3>8. strategy'[p].hand = In(p, "HAND")' /\ strategy'[p].discard = In(p, "DISCARD")'
      BY <2>3, <3>5, <3>7
    <3>9. mat'[p].cards = In(p, "CAMPAIGN")'
      BY <2>8, <3>5, <3>6
    <3>10. cleanups' = 0 => strategy'[p].deck = In(p, "OPERATIONS_DECK")'
      BY <1>1, <2>3, <3>5, <3>7
    <3>11. table'.limit = table.limit
      BY <1>1
    <3>12. HomeCard(p)' = HomeCard(p) /\ cleanups' = cleanups
      BY <1>1 DEF HomeCard
    <3> QED BY <2>9, <3>8, <3>9, <3>10, <3>11, <3>12 DEF Accounted
  <2>13. CardsAccounted'
    BY <2>11, <2>12, AccountedForAll
  <2> QED BY <2>7, <2>10, <2>13 DEF CardInv
<1> QED BY <1>3, <1>4

\* What the passage through the M2 engine leaves of the cards K it was given.
LEMMA WrittenBack ==
  ASSUME CardInv, SetupTypes, table' = table, phase = "RESOLUTION_STAGE",
         NEW K \in [Printed -> [by : Players \cup {Nobody}, zone : Zones]],
         WriteBack(K)
  PROVE  /\ CardTypes'
         /\ \A q \in Players : /\ strategy'[q].locked
                               /\ strategy'[q].hand = In(q, "HAND")'
                               /\ strategy'[q].discard = In(q, "DISCARD")'
         /\ \A q \in Players : \A c \in Printed : \A z \in {"HAND", "CAMPAIGN"} :
              c \in In(q, z)' <=> K[c].by = q /\ K[c].zone = z
         /\ DOMAIN card' = Printed
<1> DEFINE Decks == {"OPERATIONS_DECK", "OPERATIONS_POOL", "STARTER_POOL"}
           Records == [submitted : SUBSET Printed, deck : SUBSET Printed, hand : SUBSET Printed,
                       discard : SUBSET Printed, locked : BOOLEAN]
<1>1. card' = Flattened(K) /\ strategy' = Piled(strategy, card')
  BY DEF WriteBack
<1>2. /\ DOMAIN card' = Printed
      /\ \A c \in Printed : card'[c] = IF K[c].zone \in Decks THEN [K[c] EXCEPT !.zone = "DISCARD"] ELSE K[c]
      /\ card' = [c \in Printed |-> card'[c]]
  BY <1>1 DEF Flattened
<1>3. \A c \in Printed :
        /\ card'[c] \in [by : Players \cup {Nobody}, zone : Zones]
        /\ card'[c].by = K[c].by
        /\ card'[c].zone = IF K[c].zone \in Decks THEN "DISCARD" ELSE K[c].zone
  <2> TAKE c \in Printed
  <2>1. K[c] \in [by : Players \cup {Nobody}, zone : Zones] /\ "DISCARD" \in Zones
    BY DEF Zones
  <2>2. [K[c] EXCEPT !.zone = "DISCARD"] = [by |-> K[c].by, zone |-> "DISCARD"]
    BY <2>1
  <2> HIDE DEF Decks
  <2>3. card'[c] = IF K[c].zone \in Decks THEN [by |-> K[c].by, zone |-> "DISCARD"] ELSE K[c]
    BY <1>2, <2>2
  <2> QED BY <2>1, <2>3
<1>4. card' \in [Printed -> [by : Players \cup {Nobody}, zone : Zones]]
  BY <1>2, <1>3
<1>5. strategy \in [Players -> Records] /\ DOMAIN strategy = Players /\ table'.limit = table.limit
  BY DEF CardInv, CardTypes
<1>6. \A q, z : /\ Pile(card', q, z) = In(q, z)' /\ In(q, z)' \subseteq Printed
                /\ \A c \in Printed : c \in In(q, z)' <=> card'[c].by = q /\ card'[c].zone = z
  <2> TAKE q, z
  <2>1. \A c \in Printed : card'[c] = [by |-> card'[c].by, zone |-> card'[c].zone]
    BY <1>3
  <2> QED BY <1>2, <2>1 DEF In, Pile
<1>7. \A q \in Players :
        strategy'[q] = [strategy[q] EXCEPT !.hand = Pile(card', q, "HAND"), !.discard = Pile(card', q, "DISCARD")]
  BY <1>1, <1>5 DEF Piled
<1>8. DOMAIN strategy' = Players /\ strategy' = [q \in Players |-> strategy'[q]]
  BY <1>1, <1>5 DEF Piled
<1>9. \A q \in Players :
        /\ strategy'[q] \in Records
        /\ strategy'[q].hand = Pile(card', q, "HAND") /\ strategy'[q].discard = Pile(card', q, "DISCARD")
        /\ strategy'[q].locked = strategy[q].locked
  <2> TAKE q \in Players
  <2>1. strategy[q] \in Records /\ Pile(card', q, "HAND") \in SUBSET Printed
        /\ Pile(card', q, "DISCARD") \in SUBSET Printed
    BY <1>5, <1>6
  <2>2. \A r \in Records : \A A, B \in SUBSET Printed :
          [r EXCEPT !.hand = A, !.discard = B]
            \in [submitted : SUBSET Printed, deck : SUBSET Printed, hand : {A}, discard : {B}, locked : {r.locked}]
    OBVIOUS
  <2> DEFINE A == Pile(card', q, "HAND")
             B == Pile(card', q, "DISCARD")
  <2>3. strategy'[q] = [strategy[q] EXCEPT !.hand = A, !.discard = B]
        /\ A \in SUBSET Printed /\ B \in SUBSET Printed
    BY <1>7, <2>1
  <2> HIDE DEF A, B, Records
  <2>4. strategy'[q] \in [submitted : SUBSET Printed, deck : SUBSET Printed, hand : {A}, discard : {B},
                          locked : {strategy[q].locked}]
    BY <2>1, <2>2, <2>3
  <2>5. strategy[q].locked \in BOOLEAN
    BY <2>1 DEF Records
  <2>6. strategy'[q] \in Records /\ strategy'[q].hand = A /\ strategy'[q].discard = B
        /\ strategy'[q].locked = strategy[q].locked
    BY <2>3, <2>4, <2>5 DEF Records
  <2> QED BY <2>6 DEF A, B
<1>10. strategy' \in [Players -> Records]
  <2> HIDE DEF Records
  <2> QED BY <1>8, <1>9
<1>11. CardTypes'
  <2>1. Printed' = Printed
    BY DEF Printed
  <2> QED BY <1>4, <1>10, <2>1 DEF CardTypes
<1>12. ASSUME NEW q \in Players
       PROVE  /\ strategy'[q].locked
              /\ strategy'[q].hand = In(q, "HAND")' /\ strategy'[q].discard = In(q, "DISCARD")'
  <2>1. strategy[q].locked
    BY DEF CardInv, Piles
  <2> QED BY <1>6, <1>9, <2>1
<1>13. \A q \in Players : \A c \in Printed : \A z \in {"HAND", "CAMPAIGN"} :
         c \in In(q, z)' <=> K[c].by = q /\ K[c].zone = z
  <2> TAKE q \in Players
  <2> TAKE c \in Printed
  <2> TAKE z \in {"HAND", "CAMPAIGN"}
  <2>1. c \in In(q, z)' <=> card'[c].by = q /\ card'[c].zone = z
    BY <1>6
  <2>2. card'[c].zone = z <=> K[c].zone = z
    BY <1>3
  <2> QED BY <1>3, <2>1, <2>2
<1> QED BY <1>2, <1>11, <1>12, <1>13

\* What becomes of a card of a discarded campaign.
LEMMA RetiredCards ==
  ASSUME CardTypes, CanonicalSeating, NEW c \in Printed
  PROVE  /\ Retired(c) \in [by : Players \cup {Nobody}, zone : Zones]
         /\ Retired(c).zone # "CAMPAIGN"
         /\ Retired(c).zone = "HAND" => c = HomeCard(Retired(c).by)
<1>1. card[c] \in [by : Players \cup {Nobody}, zone : Zones]
  BY DEF CardTypes
<1>2. c[1] \in Countries /\ c = <<c[1], c[2]>>
  <2>1. PICK n \in Countries : c \in {n} \X (Starters \cup table.pool[n])
    BY DEF Printed
  <2> QED BY <2>1
<1>3. OwnerOf(c) \in Players /\ seat[OwnerOf(c)].country = c[1]
  <2>1. PICK p \in Players : Home[p] = c[1]
    BY <1>2, TopologyAssumption DEF Countries, Range
  <2>2. seat[p].country = c[1]
    BY <2>1, Canonical
  <2> QED BY <2>2 DEF OwnerOf
<1>4. CASE c[2] = "falseIdentities" /\ card[c].zone = "CAMPAIGN"
  <2>1. Retired(c) = [by |-> OwnerOf(c), zone |-> "HAND"]
    BY <1>4 DEF Retired
  <2>2. c = HomeCard(OwnerOf(c))
    BY <1>2, <1>3, <1>4 DEF HomeCard
  <2> QED BY <1>3, <2>1, <2>2 DEF Zones
<1>5. CASE ~ (c[2] = "falseIdentities" /\ card[c].zone = "CAMPAIGN")
  <2> DEFINE z == IF IsStarter(c) THEN "REMOVED_FROM_GAME" ELSE "DISCARD"
  <2>1. Retired(c) = [card[c] EXCEPT !.zone = z]
    BY <1>5 DEF Retired
  <2>2. z \in {"REMOVED_FROM_GAME", "DISCARD"}
    OBVIOUS
  <2> HIDE DEF z
  <2>3. Retired(c) = [by |-> card[c].by, zone |-> z]
    BY <1>1, <2>1
  <2> QED BY <1>1, <2>2, <2>3 DEF Zones
<1> QED BY <1>4, <1>5

\* The cards of the campaigns that leave the table are discarded, removed or
\* returned to their owner's hand.
LEMMA AgedKept ==
  ASSUME CardInv, TurnTypes, CanonicalSeating
  PROVE  /\ AgedCards \in [Printed -> [by : Players \cup {Nobody}, zone : Zones]]
         /\ \A q \in Players : \A c \in Printed :
              AgedCards[c].by = q /\ AgedCards[c].zone = "HAND" =>
                c \in strategy[q].hand \/ c = HomeCard(q)
         /\ \A q \in Players : \A c \in Printed :
              AgedCards[c].by = q /\ AgedCards[c].zone = "CAMPAIGN" <=> c \in AgedMat[q].cards
         /\ AgedMat \in [Players -> [row : {"NONE", "I", "II"}, cards : SUBSET Printed]]
         /\ \A q \in Players : /\ mat[q] = NoCampaign => AgedMat[q] = NoCampaign
                               /\ AgedMat[q].row = "NONE" => AgedMat[q].cards = {}
<1> DEFINE D == UNION {mat[p].cards : p \in {q \in Players : mat[q].row = "II"}}
<1>1. /\ card \in [Printed -> [by : Players \cup {Nobody}, zone : Zones]] /\ DOMAIN card = Printed
      /\ mat \in [Players -> [row : {"NONE", "I", "II"}, cards : SUBSET Printed]]
  BY DEF CardInv, CardTypes, TurnTypes
<1>2. AgedCards = [c \in Printed |-> IF c \in D THEN Retired(c) ELSE card[c]]
  BY <1>1 DEF AgedCards
<1>3. \A c \in Printed : /\ Retired(c) \in [by : Players \cup {Nobody}, zone : Zones]
                         /\ Retired(c).zone # "CAMPAIGN"
                         /\ Retired(c).zone = "HAND" => c = HomeCard(Retired(c).by)
  BY RetiredCards DEF CardInv
<1>4. \A q \in Players : \A c \in Printed :
        /\ c \in mat[q].cards <=> card[c].by = q /\ card[c].zone = "CAMPAIGN"
        /\ c \in strategy[q].hand <=> card[c].by = q /\ card[c].zone = "HAND"
  <2> TAKE q \in Players
  <2> TAKE c \in Printed
  <2>1. mat[q].cards = In(q, "CAMPAIGN") /\ strategy[q].hand = In(q, "HAND")
    BY AccountedForAll DEF CardInv, Accounted
  <2> QED BY <2>1, Location DEF CardInv
<1>5. \A c \in Printed : c \in D <=> \E q \in Players : mat[q].row = "II" /\ c \in mat[q].cards
  OBVIOUS
<1> HIDE DEF D
<1>6. \A c \in Printed : AgedCards[c] = IF c \in D THEN Retired(c) ELSE card[c]
  BY <1>2
<1>7. AgedCards \in [Printed -> [by : Players \cup {Nobody}, zone : Zones]]
  <2>1. DOMAIN AgedCards = Printed /\ AgedCards = [c \in Printed |-> AgedCards[c]]
    BY <1>2
  <2> QED BY <1>1, <1>3, <1>6, <2>1
<1>8. \A c \in D : c \in Printed => card[c].zone = "CAMPAIGN" /\ AgedCards[c].zone # "CAMPAIGN"
  BY <1>3, <1>4, <1>5, <1>6
<1>9. ASSUME NEW q \in Players, NEW c \in Printed, AgedCards[c].by = q, AgedCards[c].zone = "HAND"
      PROVE  c \in strategy[q].hand \/ c = HomeCard(q)
  <2>1. CASE c \in D
    BY <1>3, <1>6, <1>9, <2>1
  <2>2. CASE c \notin D
    BY <1>4, <1>6, <1>9, <2>2
  <2> QED BY <2>1, <2>2
<1>10. ASSUME NEW q \in Players
       PROVE  /\ mat[q].row \in {"NONE", "I", "II"}
              /\ AgedMat[q] \in [row : {"NONE", "I", "II"}, cards : SUBSET Printed]
              /\ mat[q].row = "I" => AgedMat[q].row = "II" /\ AgedMat[q].cards = mat[q].cards
              /\ mat[q].row # "I" => AgedMat[q] = NoCampaign /\ AgedMat[q].cards = {}
              /\ mat[q] = NoCampaign => AgedMat[q] = NoCampaign
              /\ AgedMat[q].row = "NONE" => AgedMat[q].cards = {}
  <2>1. mat[q] \in [row : {"NONE", "I", "II"}, cards : SUBSET Printed]
    BY <1>1
  <2>2. AgedMat[q] = IF mat[q].row = "I" THEN [mat[q] EXCEPT !.row = "II"] ELSE NoCampaign
    BY DEF AgedMat
  <2>3. CASE mat[q].row = "I"
    <3>1. AgedMat[q] = [row |-> "II", cards |-> mat[q].cards]
      BY <2>1, <2>2, <2>3
    <3> QED BY <2>1, <2>3, <3>1 DEF NoCampaign
  <2>4. CASE mat[q].row # "I"
    <3>1. AgedMat[q] = [row |-> "NONE", cards |-> {}]
      BY <2>2, <2>4 DEF NoCampaign
    <3> QED BY <2>1, <2>4, <3>1 DEF NoCampaign
  <2> QED BY <2>3, <2>4
<1>11. ASSUME NEW q \in Players, NEW c \in Printed
       PROVE  AgedCards[c].by = q /\ AgedCards[c].zone = "CAMPAIGN" <=> c \in AgedMat[q].cards
  <2>1. CASE mat[q].row = "I"
    <3>1. c \in AgedMat[q].cards <=> card[c].by = q /\ card[c].zone = "CAMPAIGN"
      BY <1>4, <1>10, <2>1
    <3>2. c \in D => card[c].by # q
      <4> SUFFICES ASSUME c \in D PROVE card[c].by # q
        OBVIOUS
      <4>1. PICK r \in Players : mat[r].row = "II" /\ c \in mat[r].cards
        BY <1>5
      <4>2. card[c].by = r /\ r # q
        BY <1>4, <2>1, <4>1
      <4> QED BY <4>2
    <3>3. CASE c \in D
      BY <1>8, <3>1, <3>2, <3>3
    <3>4. CASE c \notin D
      BY <1>6, <3>1, <3>4
    <3> QED BY <3>3, <3>4
  <2>2. CASE mat[q].row # "I"
    <3>1. AgedMat[q].cards = {}
      BY <1>10, <2>2
    <3>2. CASE c \in D
      BY <1>8, <3>1, <3>2
    <3>3. CASE c \notin D
      <4>1. AgedCards[c] = card[c]
        BY <1>6, <3>3
      <4>2. ~ (card[c].by = q /\ card[c].zone = "CAMPAIGN")
        <5> SUFFICES ASSUME card[c].by = q /\ card[c].zone = "CAMPAIGN" PROVE FALSE
          OBVIOUS
        <5>1. c \in mat[q].cards
          BY <1>4
        <5>2. mat[q].row # "NONE"
          BY <5>1 DEF CardInv, Piles
        <5>3. mat[q].row = "II"
          BY <1>10, <2>2, <5>2
        <5> QED BY <1>5, <3>3, <5>1, <5>3
      <4> QED BY <3>1, <4>1, <4>2
    <3> QED BY <3>2, <3>3
  <2> QED BY <2>1, <2>2
<1>12. AgedMat \in [Players -> [row : {"NONE", "I", "II"}, cards : SUBSET Printed]]
  <2>1. DOMAIN AgedMat = Players /\ AgedMat = [q \in Players |-> AgedMat[q]]
    BY DEF AgedMat
  <2>2. \A q \in Players : AgedMat[q] \in [row : {"NONE", "I", "II"}, cards : SUBSET Printed]
    BY <1>10
  <2> QED BY <2>1, <2>2
<1>13. \A q \in Players : /\ mat[q] = NoCampaign => AgedMat[q] = NoCampaign
                          /\ AgedMat[q].row = "NONE" => AgedMat[q].cards = {}
  BY <1>10
<1> QED BY <1>6, <1>7, <1>9, <1>11, <1>12, <1>13

\* A step that passes the cards through the M2 engine and moves the campaigns
\* of the mat with them.
LEMMA PassedThrough ==
  ASSUME CardInv, SetupTypes, UNCHANGED <<table, seat, planning>>, cleanups' # 0,
         phase = "RESOLUTION_STAGE", phase' \in {phase, "INITIATIVE_STAGE"},
         NEW K \in [Printed -> [by : Players \cup {Nobody}, zone : Zones]],
         \A q \in Players : \A c \in Printed :
           K[c].by = q /\ K[c].zone = "HAND" => c \in strategy[q].hand \/ c = HomeCard(q),
         WriteBack(K),
         mat' \in [Players -> [row : {"NONE", "I", "II"}, cards : SUBSET Printed]],
         \A q \in Players : /\ mat[q] = NoCampaign => mat'[q] = NoCampaign
                            /\ mat'[q].row = "NONE" => mat'[q].cards = {}
                            /\ \A c \in Printed : c \in mat'[q].cards <=> K[c].by = q /\ K[c].zone = "CAMPAIGN"
  PROVE  CardInv'
<1>1. /\ CardTypes'
      /\ \A q \in Players : /\ strategy'[q].locked
                            /\ strategy'[q].hand = In(q, "HAND")'
                            /\ strategy'[q].discard = In(q, "DISCARD")'
      /\ \A q \in Players : \A c \in Printed : \A z \in {"HAND", "CAMPAIGN"} :
           c \in In(q, z)' <=> K[c].by = q /\ K[c].zone = z
      /\ DOMAIN card' = Printed
  BY WrittenBack
<1>2. ASSUME NEW q \in Players
      PROVE  Accounted(q)' /\ IsFiniteSet(strategy'[q].hand)
  <2>1. Accounted(q) /\ IsFiniteSet(strategy[q].hand)
    BY AccountedForAll DEF CardInv, Piles
  <2>2. In(q, "CAMPAIGN")' \subseteq Printed /\ mat'[q].cards \subseteq Printed
    BY <1>1 DEF In
  <2>3. mat'[q].cards = In(q, "CAMPAIGN")'
    <3> DEFINE A == mat'[q].cards
               B == In(q, "CAMPAIGN")'
    <3>1. \A c \in Printed : c \in A <=> c \in B
      <4> TAKE c \in Printed
      <4>1. c \in A <=> K[c].by = q /\ K[c].zone = "CAMPAIGN"
        OBVIOUS
      <4>2. c \in B <=> K[c].by = q /\ K[c].zone = "CAMPAIGN"
        BY <1>1
      <4> QED BY <4>1, <4>2
    <3>2. A \subseteq Printed /\ B \subseteq Printed
      BY <2>2
    <3> HIDE DEF A, B
    <3>3. A = B
      BY <3>1, <3>2
    <3> QED BY <3>3 DEF A, B
  <2>4. IsFiniteSet(strategy'[q].hand) /\ Cardinality(strategy'[q].hand \ {HomeCard(q)}) <= table.limit
    <3> DEFINE S == strategy[q].hand
               h == HomeCard(q)
               T == strategy'[q].hand
    <3>1. table.limit \in Nat
      BY Instances DEF SetupTypes
    <3>2. T \subseteq Printed
      BY <1>1 DEF CardTypes, In
    <3>3. \A c \in Printed : c \in T => c \in S \/ c = h
      <4> SUFFICES ASSUME NEW c \in Printed, c \in T PROVE c \in S \/ c = h
        OBVIOUS
      <4>1. K[c].by = q /\ K[c].zone = "HAND"
        BY <1>1
      <4> QED BY <4>1
    <3>4. IsFiniteSet(S) /\ Cardinality(S \ {h}) <= table.limit
      BY <2>1 DEF Accounted
    <3> HIDE DEF S, h, T
    <3>5. T \subseteq S \cup {h} /\ T \ {h} \subseteq S \ {h}
      BY <3>2, <3>3
    <3>6. IsFiniteSet(S \cup {h}) /\ IsFiniteSet(S \ {h})
      BY <3>4, FS_AddElement, FS_Subset
    <3>7. IsFiniteSet(T) /\ Cardinality(T \ {h}) <= Cardinality(S \ {h})
      BY <3>5, <3>6, FS_Subset
    <3>8. Cardinality(S \ {h}) \in Nat /\ Cardinality(T \ {h}) \in Nat
      BY <3>5, <3>6, FS_Subset, FS_CardinalityType
    <3>9. Cardinality(T \ {h}) <= table.limit
      BY <3>1, <3>4, <3>7, <3>8
    <3> QED BY <3>7, <3>9 DEF T, h
  <2> QED BY <1>1, <2>1, <2>3, <2>4 DEF Accounted, HomeCard
<1>3. CardsAccounted'
  BY <1>2, AccountedForAll
<1>4. Piles'
  <2>1. \A q \in Players : ~planning'[q].done => mat'[q] = NoCampaign
    BY DEF CardInv, Piles
  <2> QED BY <1>1, <1>2, <2>1 DEF Piles
<1> QED BY <1>1, <1>3, <1>4 DEF CardInv

\* The cleanup accounts for the cards.
LEMMA CleanedCards ==
  ASSUME CardInv, SetupTypes, TurnTypes, Stages, RunCleanup
  PROVE  CardInv'
<1>1. /\ UNCHANGED <<table, seat, planning>> /\ mat' = AgedMat /\ WriteBack(AgedCards)
      /\ cleanups' = cleanups + 1
  BY DEF RunCleanup, setupVars, stageVars
<1>2. phase = "RESOLUTION_STAGE" /\ phase' \in {phase, "INITIATIVE_STAGE"}
  BY TurnFrame
<1>3. cleanups' # 0
  <2>1. table.cleanups \in Nat
    BY Instances DEF SetupTypes
  <2> QED BY <1>1, <2>1 DEF TurnTypes
<1>4. /\ AgedCards \in [Printed -> [by : Players \cup {Nobody}, zone : Zones]]
      /\ \A q \in Players : \A c \in Printed :
           AgedCards[c].by = q /\ AgedCards[c].zone = "HAND" =>
             c \in strategy[q].hand \/ c = HomeCard(q)
      /\ \A q \in Players : \A c \in Printed :
           AgedCards[c].by = q /\ AgedCards[c].zone = "CAMPAIGN" <=> c \in AgedMat[q].cards
      /\ AgedMat \in [Players -> [row : {"NONE", "I", "II"}, cards : SUBSET Printed]]
      /\ \A q \in Players : /\ mat[q] = NoCampaign => AgedMat[q] = NoCampaign
                            /\ AgedMat[q].row = "NONE" => AgedMat[q].cards = {}
  BY <1>2, AgedKept DEF Stages
<1> DEFINE K == AgedCards
<1>5. /\ mat' \in [Players -> [row : {"NONE", "I", "II"}, cards : SUBSET Printed]]
      /\ \A q \in Players : /\ mat[q] = NoCampaign => mat'[q] = NoCampaign
                            /\ mat'[q].row = "NONE" => mat'[q].cards = {}
                            /\ \A c \in Printed : c \in mat'[q].cards <=> K[c].by = q /\ K[c].zone = "CAMPAIGN"
  BY <1>1, <1>4
<1>6. K \in [Printed -> [by : Players \cup {Nobody}, zone : Zones]] /\ WriteBack(K)
      /\ \A q \in Players : \A c \in Printed :
           K[c].by = q /\ K[c].zone = "HAND" => c \in strategy[q].hand \/ c = HomeCard(q)
  BY <1>1, <1>4
<1> HIDE DEF K
<1> QED BY <1>1, <1>2, <1>3, <1>5, <1>6, PassedThrough

\* So does the resolution of an origin.
LEMMA OriginCards ==
  ASSUME CardInv, SetupTypes, TurnTypes, Asked, NEW p \in Players, NEW pd \in PDs,
         ChooseDestination(p, pd)
  PROVE  CardInv'
<1>1. /\ UNCHANGED <<table, seat, planning, mat, cleanups>> /\ WriteBack(card)
      /\ cleanups # 0
  BY DEF ChooseDestination, setupVars, stageVars, Asked
<1>2. phase = "RESOLUTION_STAGE" /\ phase' \in {phase, "INITIATIVE_STAGE"}
  <2>1. Answer(p)
    BY DEF Answer
  <2> QED BY <2>1, TurnFrame
<1>3. card \in [Printed -> [by : Players \cup {Nobody}, zone : Zones]]
  BY DEF CardInv, CardTypes
<1>4. /\ mat' \in [Players -> [row : {"NONE", "I", "II"}, cards : SUBSET Printed]]
      /\ \A q \in Players : /\ mat[q] = NoCampaign => mat'[q] = NoCampaign
                            /\ mat'[q].row = "NONE" => mat'[q].cards = {}
                            /\ \A c \in Printed :
                                 /\ c \in mat'[q].cards <=> card[c].by = q /\ card[c].zone = "CAMPAIGN"
                                 /\ card[c].by = q /\ card[c].zone = "HAND" => c \in strategy[q].hand
  <2>1. \A q \in Players : \A c \in Printed :
          /\ c \in mat[q].cards <=> card[c].by = q /\ card[c].zone = "CAMPAIGN"
          /\ card[c].by = q /\ card[c].zone = "HAND" => c \in strategy[q].hand
    <3> TAKE q \in Players
    <3> TAKE c \in Printed
    <3>1. mat[q].cards = In(q, "CAMPAIGN") /\ strategy[q].hand = In(q, "HAND")
      BY AccountedForAll DEF CardInv, Accounted
    <3> QED BY <3>1, Location DEF CardInv
  <2> QED BY <1>1, <2>1 DEF TurnTypes, CardInv, Piles
<1> QED BY <1>1, <1>2, <1>3, <1>4, PassedThrough

\* Every step accounts for the cards.
LEMMA CardsStay ==
  ASSUME CardInv, SetupTypes, StageTypes, TurnTypes, Stages, Asked, [Next]_vars
  PROVE  CardInv'
<1>1. CASE Setup /\ UNCHANGED turnVars
  <2>1. ASSUME \/ \E p \in Players : Join(p)
               \/ \E v \in {"BASELINE", "SHORT"} : ConfigureOption(v)
               \/ StartGame
        PROVE  CardInv'
    <3>1. /\ UNCHANGED <<table, seat, card, strategy, mat, cleanups, planning>>
          /\ phase = "SETUP" /\ phase' \in {"SETUP", "STRATEGY_STAGE"}
      BY <1>1, <2>1 DEF Join, ConfigureOption, StartGame, cardVars, stageVars, turnVars, setupVars
    <3> QED BY <3>1, QuietCards
  <2>2. CASE \E p \in Players, c \in Countries, i \in Places : AssignSeat(p, c, i)
    BY <1>1, <2>2, SeatCards
  <2> QED BY <1>1, <2>1, <2>2 DEF Setup
<1>2. ASSUME NEW p \in Players, Prepare(p), UNCHANGED turnVars
      PROVE  CardInv'
  <2>1. ASSUME \/ ResolveInitiative(p) \/ SetMaintenance(p) \/ SetPlan(p) \/ LockPlan(p)
               \/ \E q \in Players : DealResources(p, q)
        PROVE  CardInv'
    <3>1. /\ UNCHANGED <<table, seat, card, strategy, mat, cleanups>>
          /\ phase \in {"INITIATIVE_STAGE", "ACTION_STAGE_PLAN"} /\ phase' \in {phase, "RESOLUTION_STAGE"}
      BY <1>2, <2>1 DEF ResolveInitiative, SetMaintenance, SetPlan, LockPlan, DealResources, MayDeal,
           cardVars, stageVars, turnVars, setupVars
    <3>2. \A q \in Players : planning'[q].done = planning[q].done
      <4>1. \/ planning' = planning
            \/ planning' = [planning EXCEPT ![p].locked = TRUE]
            \/ \E d \in SUBSET strategy[p].hand : planning' = [planning EXCEPT ![p].cards = d]
        BY <2>1 DEF ResolveInitiative, SetMaintenance, SetPlan, LockPlan, DealResources, stageVars
      <4>2. planning \in [Players -> [cards : SUBSET Printed, locked : BOOLEAN, done : BOOLEAN]]
        BY DEF StageTypes
      <4> QED BY <4>1, <4>2
    <3> QED BY <3>1, <3>2, QuietCards
  <2>2. CASE SubmitDeck(p)
    BY <1>2, <2>2, SubmittedCards
  <2>3. CASE LockStrategy(p)
    BY <1>2, <2>3, OpeningDealt
  <2>4. CASE LockMaintenance(p)
    BY <1>2, <2>4, HandFilled
  <2>5. CASE \E q \in Players, c \in strategy[p].hand : DealCard(p, q, c)
    BY <1>2, <2>5, DealtCard
  <2> QED BY <1>2, <2>1, <2>2, <2>3, <2>4, <2>5 DEF Prepare
<1>3. CASE Overlay
  <2>1. UNCHANGED <<table, seat, card, strategy, mat, cleanups, planning, phase>>
    BY <1>3 DEF Overlay, Pause, Resume, setupVars, cardVars, stageVars
  <2> QED BY <2>1, QuietCards
<1>4. CASE UNCHANGED vars
  <2>1. UNCHANGED <<table, seat, card, strategy, mat, cleanups, planning, phase>>
    BY <1>4 DEF vars, prepVars, turnVars, setupVars, cardVars, stageVars
  <2> QED BY <2>1, QuietCards
<1>5. CASE RunCleanup
  BY <1>5, CleanedCards
<1>6. ASSUME NEW p \in Players, ResolvePlan(p)
      PROVE  CardInv'
  BY <1>6, PlanCards
<1>7. ASSUME NEW p \in Players, Answer(p)
      PROVE  CardInv'
  <2>1. ASSUME NEW t \in Types, ChooseType(p, t)
        PROVE  CardInv'
    <3>1. UNCHANGED <<table, seat, card, strategy, mat, cleanups, planning>>
      BY <2>1 DEF ChooseType, setupVars, cardVars, stageVars
    <3>2. phase = "RESOLUTION_STAGE" /\ phase' \in {phase, "INITIATIVE_STAGE"}
      BY <1>7, TurnFrame
    <3> QED BY <3>1, <3>2, QuietCards
  <2>2. ASSUME NEW pd \in PDs, ChooseDestination(p, pd)
        PROVE  CardInv'
    BY <2>2, OriginCards
  <2> QED BY <1>7, <2>1, <2>2 DEF Answer
<1>8. CASE EndGame
  <2>1. UNCHANGED <<table, seat, card, strategy, mat, cleanups, planning, phase>>
    BY <1>8 DEF EndGame, prepVars, setupVars, cardVars, stageVars
  <2> QED BY <2>1, QuietCards
<1> QED BY <1>1, <1>2, <1>3, <1>4, <1>5, <1>6, <1>7, <1>8 DEF Next

-------------------------------------------------------------------------------
(***************************************************************************)
(* The types of the stages.                                                *)
(***************************************************************************)

\* A step keeps the types of initiative, maintenance and plans.
LEMMA StageTyped ==
  ASSUME SetupTypes, CardTypes, StageTypes, Stages, [Next]_vars
  PROVE  StageTypes'
<1> DEFINE Initiatives == [status : {"PENDING_ROLL", "MAINTENANCE", "COMPLETE"}, order : Seq(Players)]
           Maintenances == [discards : SUBSET Printed, submitted : BOOLEAN, locked : BOOLEAN]
           Plans == [cards : SUBSET Printed, locked : BOOLEAN, done : BOOLEAN]
<1>0. /\ Printed' = Printed /\ initiative \in Initiatives
      /\ maintenance \in [Players -> Maintenances] /\ planning \in [Players -> Plans]
      /\ \A p \in Players : strategy[p].hand \subseteq Printed
  BY SameTable DEF Printed, StageTypes, CardTypes
<1>1. ASSUME initiative' \in Initiatives, maintenance' \in [Players -> Maintenances],
             planning' \in [Players -> Plans]
      PROVE  StageTypes'
  BY <1>0, <1>1 DEF StageTypes
<1>2. ASSUME UNCHANGED <<initiative, maintenance, planning>>
      PROVE  StageTypes'
  BY <1>0, <1>1, <1>2
<1>3. CASE Setup
  BY <1>2, <1>3 DEF Setup, Join, AssignSeat, ConfigureOption, StartGame, stageVars
<1>4. ASSUME NEW p \in Players, Prepare(p)
      PROVE  StageTypes'
  <2>1. CASE \/ SubmitDeck(p) \/ LockStrategy(p)
             \/ \E q \in Players : DealResources(p, q)
             \/ \E q \in Players, c \in strategy[p].hand : DealCard(p, q, c)
    BY <1>2, <2>1 DEF SubmitDeck, LockStrategy, DealResources, DealCard, stageVars
  <2>2. CASE ResolveInitiative(p)
    <3>1. PICK winner \in Seated : initiative' = [status |-> "MAINTENANCE", order |-> OrderFrom(winner)]
      BY <2>2 DEF ResolveInitiative
    <3>2. CanonicalSeating
      BY <2>2 DEF Stages, ResolveInitiative
    <3>3. OrderFrom(winner) \in Seq(Players)
      BY <3>2, OrderIsFull DEF Seated
    <3>4. initiative' \in Initiatives
      BY <3>1, <3>3
    <3>5. maintenance' = maintenance /\ planning' = planning
      BY <2>2 DEF ResolveInitiative
    <3> HIDE DEF Initiatives, Maintenances, Plans
    <3> QED BY <1>0, <1>1, <3>4, <3>5
  <2>3. CASE SetMaintenance(p)
    <3>1. PICK d \in SUBSET strategy[p].hand :
            maintenance' = [maintenance EXCEPT ![p].discards = d, ![p].submitted = TRUE]
      BY <2>3 DEF SetMaintenance
    <3>2. d \in SUBSET Printed
      BY <1>0
    <3>3. maintenance' \in [Players -> Maintenances]
      <4> DEFINE m == [maintenance[p] EXCEPT !.discards = d, !.submitted = TRUE]
      <4>0. DOMAIN maintenance[p] = {"discards", "submitted", "locked"}
        BY <1>0
      <4>1. m \in [discards : {d}, submitted : {TRUE}, locked : {maintenance[p].locked}]
        BY <4>0
      <4>2. maintenance[p].locked \in BOOLEAN
        BY <1>0
      <4>3. m \in Maintenances
        BY <3>2, <4>1, <4>2
      <4>4. maintenance' = [maintenance EXCEPT ![p] = m]
        BY <1>0, <3>1
      <4> HIDE DEF m, Maintenances
      <4> QED BY <1>0, <4>3, <4>4
    <3>4. initiative' = initiative /\ planning' = planning
      BY <2>3 DEF SetMaintenance
    <3> HIDE DEF Initiatives, Maintenances, Plans
    <3> QED BY <1>0, <1>1, <3>3, <3>4
  <2>4. CASE LockMaintenance(p)
    <3>1. maintenance' = [maintenance EXCEPT ![p].locked = TRUE]
      BY <2>4 DEF LockMaintenance
    <3>2. \/ initiative' = [initiative EXCEPT !.status = "COMPLETE"] /\ planning' = [q \in Players |-> NoPlan]
          \/ initiative' = initiative /\ planning' = planning
      BY <2>4 DEF LockMaintenance
    <3>3. maintenance' \in [Players -> Maintenances]
      <4> DEFINE m == [maintenance[p] EXCEPT !.locked = TRUE]
      <4>1. maintenance[p] \in Maintenances
        BY <1>0
      <4>2. m \in Maintenances
        BY <4>1
      <4>3. maintenance' = [maintenance EXCEPT ![p] = m]
        BY <1>0, <3>1
      <4> HIDE DEF m, Maintenances
      <4> QED BY <1>0, <4>2, <4>3
    <3>4. initiative' \in Initiatives
      BY <1>0, <3>2
    <3>5. planning' \in [Players -> Plans]
      <4>1. NoPlan \in Plans
        BY DEF NoPlan
      <4> HIDE DEF Plans
      <4> QED BY <1>0, <3>2, <4>1
    <3> HIDE DEF Initiatives, Maintenances, Plans
    <3> QED BY <1>1, <3>3, <3>4, <3>5
  <2>5. CASE SetPlan(p)
    <3>1. PICK d \in SUBSET strategy[p].hand : planning' = [planning EXCEPT ![p].cards = d]
      BY <2>5 DEF SetPlan
    <3>2. d \in SUBSET Printed
      BY <1>0
    <3>3. planning' \in [Players -> Plans]
      BY <1>0, <3>1, <3>2
    <3>4. initiative' = initiative /\ maintenance' = maintenance
      BY <2>5 DEF SetPlan
    <3> HIDE DEF Initiatives, Maintenances, Plans
    <3> QED BY <1>0, <1>1, <3>3, <3>4
  <2>6. CASE LockPlan(p)
    <3>1. planning' = [planning EXCEPT ![p].locked = TRUE]
      BY <2>6 DEF LockPlan
    <3>2. planning' \in [Players -> Plans]
      BY <1>0, <3>1
    <3>3. initiative' = initiative /\ maintenance' = maintenance
      BY <2>6 DEF LockPlan
    <3> HIDE DEF Initiatives, Maintenances, Plans
    <3> QED BY <1>0, <1>1, <3>2, <3>3
  <2> QED BY <1>4, <2>1, <2>2, <2>3, <2>4, <2>5, <2>6 DEF Prepare
<1>5. CASE Overlay
  BY <1>2, <1>5 DEF Overlay, Pause, Resume, stageVars
<1>6. CASE UNCHANGED vars
  BY <1>2, <1>6 DEF vars, prepVars, stageVars
<1>7. CASE RunCleanup \/ EndGame
  BY <1>2, <1>7 DEF RunCleanup, EndGame, prepVars, stageVars
<1>8. ASSUME NEW p \in Players, Answer(p)
      PROVE  StageTypes'
  BY <1>2, <1>8 DEF Answer, ChooseType, ChooseDestination, stageVars
<1>9. ASSUME NEW p \in Players, ResolvePlan(p)
      PROVE  StageTypes'
  <2>1. planning' = [planning EXCEPT ![p].done = TRUE] /\ initiative' = initiative /\ maintenance' = maintenance
    BY <1>9 DEF ResolvePlan
  <2>2. planning' \in [Players -> Plans]
    BY <1>0, <2>1
  <2> HIDE DEF Initiatives, Maintenances, Plans
  <2> QED BY <1>0, <1>1, <2>1, <2>2
<1> QED BY <1>3, <1>4, <1>5, <1>6, <1>7, <1>8, <1>9 DEF Next

-------------------------------------------------------------------------------
(***************************************************************************)
(* What a viral question is about.                                         *)
(***************************************************************************)

\* First, with the order of the initiative as an argument.
RankIn(order, b, x) == Position(order, b.holder[x]) * (Len(PDOrder) + 1) + Position(PDOrder, x)
FirstIn(order, b, S) ==
  CHOOSE pd \in S : \A other \in S \ {pd} : RankIn(order, b, pd) < RankIn(order, b, other)

\* Two numbers with the same rests are apart by a multiple of the base.
LEMMA SameRest ==
  ASSUME NEW L \in Nat, NEW a \in Nat, NEW c \in Nat, NEW i \in 1 .. L, NEW j \in 1 .. L,
         a * (L + 1) + i = c * (L + 1) + j
  PROVE  i = j
<1> DEFINE Apart(x, y) == y - x >= 1 => y * (L + 1) >= x * (L + 1) + (L + 1)
<1>1. ASSUME NEW x \in Nat, NEW y \in Nat, y - x >= 1
      PROVE  y * (L + 1) >= x * (L + 1) + (L + 1)
  <2>1. PICK d \in Nat : y - x = 1 + d
    <3>1. y - x - 1 \in Nat /\ y - x = 1 + (y - x - 1)
      BY <1>1
    <3> QED BY <3>1
  <2>2. y = x + 1 + d
    BY <2>1
  <2>3. (x + 1 + d) * (L + 1) = x * (L + 1) + (L + 1) + d * (L + 1)
    OBVIOUS
  <2>4. d * (L + 1) \in Nat /\ x * (L + 1) \in Nat
    OBVIOUS
  <2> QED BY <2>2, <2>3, <2>4
<1>2. a * (L + 1) \in Nat /\ c * (L + 1) \in Nat
  OBVIOUS
<1>3. PICK u \in Nat, v \in Nat : u = a * (L + 1) /\ v = c * (L + 1)
  BY <1>2
<1>4. a < c => v >= u + (L + 1)
  BY <1>1, <1>3
<1>5. c < a => u >= v + (L + 1)
  BY <1>1, <1>3
<1>6. a = c => u = v
  BY <1>3
<1>7. u + i = v + j
  BY <1>3
<1> QED BY <1>4, <1>5, <1>6, <1>7

\* Where something is in a sequence that has it.
LEMMA PositionIs ==
  ASSUME NEW seq, NEW x, \E k \in DOMAIN seq : seq[k] = x
  PROVE  Position(seq, x) \in DOMAIN seq /\ seq[Position(seq, x)] = x
BY DEF Position

\* Of demographics that are held by players of the order, one comes first.
LEMMA FirstIsThere ==
  ASSUME NEW order \in Seq(Players), \A p \in Players : \E k \in DOMAIN order : order[k] = p,
         NEW b, NEW S \in SUBSET PDs, S # {}, \A x \in S : b.holder[x] \in Players
  PROVE  FirstIn(order, b, S) \in S
<1> DEFINE r(x) == RankIn(order, b, x)
           E == {r(x) : x \in S}
           L == Len(PDOrder)
<1>1. L \in Nat /\ PDOrder \in [1 .. L -> PDs] /\ IsInjective(PDOrder)
  BY BoardAssumption
<1>2. \A x \in PDs : Position(PDOrder, x) \in 1 .. L /\ PDOrder[Position(PDOrder, x)] = x
  <2> TAKE x \in PDs
  <2>1. \E k \in DOMAIN PDOrder : PDOrder[k] = x
    BY DEF PDs, Range
  <2> QED BY <1>1, <2>1, PositionIs
<1>3. \A x \in S : Position(order, b.holder[x]) \in Nat
  <2> TAKE x \in S
  <2>1. Position(order, b.holder[x]) \in DOMAIN order
    BY PositionIs
  <2>2. DOMAIN order = 1 .. Len(order) /\ Len(order) \in Nat
    OBVIOUS
  <2> QED BY <2>1, <2>2
<1>4. \A x \in S : r(x) \in Nat
  <2> TAKE x \in S
  <2>1. PICK a \in Nat : a = Position(order, b.holder[x])
    BY <1>3
  <2>2. PICK i \in 1 .. L : i = Position(PDOrder, x)
    BY <1>2
  <2>3. r(x) = a * (L + 1) + i
    BY <2>1, <2>2 DEF RankIn
  <2> HIDE DEF r, L
  <2>4. a * (L + 1) \in Nat
    BY <1>1
  <2> QED BY <1>1, <2>3, <2>4
<1>5. \A x, y \in S : r(x) = r(y) => x = y
  <2> SUFFICES ASSUME NEW x \in S, NEW y \in S, r(x) = r(y) PROVE x = y
    OBVIOUS
  <2>1. PICK a \in Nat : a = Position(order, b.holder[x])
    BY <1>3
  <2>2. PICK c \in Nat : c = Position(order, b.holder[y])
    BY <1>3
  <2>3. PICK i \in 1 .. L : i = Position(PDOrder, x)
    BY <1>2
  <2>4. PICK j \in 1 .. L : j = Position(PDOrder, y)
    BY <1>2
  <2>5. a * (L + 1) + i = c * (L + 1) + j
    BY <2>1, <2>2, <2>3, <2>4 DEF RankIn
  <2> HIDE DEF r, L
  <2>6. i = j
    BY <1>1, <2>5, SameRest
  <2> QED BY <1>2, <2>3, <2>4, <2>6
<1>6. E \in SUBSET Nat /\ E # {}
  BY <1>4
<1> HIDE DEF r
<1>7. PICK m \in E : \A k \in E : m <= k
  <2> HIDE DEF E
  <2> QED BY <1>6, LeastNumber
<1>8. PICK x \in S : m = r(x)
  BY <1>7
<1>9. \A y \in S \ {x} : r(x) < r(y)
  <2> TAKE y \in S \ {x}
  <2>1. r(x) <= r(y)
    BY <1>7, <1>8
  <2>2. r(x) # r(y) /\ r(x) \in Nat /\ r(y) \in Nat
    BY <1>4, <1>5
  <2> QED BY <2>1, <2>2
<1>10. \E z \in S : \A y \in S \ {z} : RankIn(order, b, z) < RankIn(order, b, y)
  BY <1>9 DEF r
<1> QED BY <1>10 DEF FirstIn

\* What the code means by the first of some demographics.
LEMMA FirstByOrder ==
  /\ \A b, S : First(b, S) = FirstIn(initiative.order, b, S)
  /\ First(board, cleanup.left)' = FirstIn(initiative'.order, board', cleanup'.left)
<1>1. \A b, S : First(b, S) = FirstIn(initiative.order, b, S)
  BY DEF First, FirstIn, Earlier, RankIn
<1>2. First(board, cleanup.left)' = FirstIn(initiative'.order, board', cleanup'.left)
  BY DEF First, FirstIn, Earlier, RankIn
<1> QED BY <1>1, <1>2

\* The type of a viral demographic whose tie has been decided.
LEMMA ViralTypeIs ==
  ASSUME NEW b, NEW choices \in [PDs -> Types \cup {"NONE"}], NEW pd \in PDs
  PROVE  ViralType(b, pd, choices) \in Types \cup {"NONE"}
<1>1. choices[pd] \in Types \cup {"NONE"}
  OBVIOUS
<1>2. ViralType(b, pd, choices) \in {"NONE", "MALIGN", "RESILIENCY", choices[pd]}
  BY DEF ViralType
<1> QED BY <1>1, <1>2 DEF Types

\* The choices made for a holder are choices.
LEMMA AutomaticIs ==
  ASSUME NEW b, NEW choices \in [PDs -> Types \cup {"NONE"}]
  PROVE  Automatic(b, choices) \in [PDs -> Types \cup {"NONE"}]
<1>1. ASSUME NEW pd \in PDs
      PROVE  Automatic(b, choices)[pd] \in Types \cup {"NONE"}
  <2>1. Automatic(b, choices)[pd] \in {"NONE", "MALIGN", "RESILIENCY", choices[pd]}
    BY DEF Automatic
  <2>2. choices[pd] \in Types \cup {"NONE"}
    OBVIOUS
  <2> QED BY <2>1, <2>2 DEF Types
<1> QED BY <1>1 DEF Automatic

\* A tie that is put to its holder has one.
LEMMA TiesAreHeld ==
  ASSUME NEW b \in Boards, NEW choices
  PROVE  /\ Unresolved(b, choices) \subseteq PDs
         /\ \A pd \in Unresolved(b, choices) : b.holder[pd] \in Players
         /\ Origins(b, choices) \subseteq PDs
         /\ \A pd \in Origins(b, choices) :
              /\ b.holder[pd] \in Players /\ Near[pd] # {}
              /\ ViralType(b, pd, choices) # "NONE"
<1>1. \A pd \in PDs : b.holder[pd] \in Players \cup {Nobody}
  BY DEF Boards
<1>2. Unresolved(b, choices) \subseteq {pd \in PDs : b.holder[pd] # Nobody}
  BY DEF Unresolved, Tied
<1>3. Origins(b, choices) \subseteq {pd \in PDs : /\ b.holder[pd] # Nobody /\ Near[pd] # {}
                                                 /\ ViralType(b, pd, choices) # "NONE"}
  BY DEF Origins
<1> QED BY <1>1, <1>2, <1>3

\* The board and the seats of the next state are those of this one.
LEMMA SameTies ==
  ASSUME UNCHANGED <<seat, variant>>
  PROVE  Unresolved(board, cleanup.choices)' = Unresolved(board', cleanup'.choices)
BY DEF Unresolved, Tied, Cubes, Threshold, OwnCubes

\* The continuation goes on with a question that stands, or there is none.
LEMMA Asks ==
  ASSUME NEW k \in Cleanups, NEW b \in Boards, Advance(k, b),
         phase = "RESOLUTION_STAGE", board' = b, UNCHANGED <<seat, variant, initiative>>,
         initiative.order \in Seq(Players),
         \A p \in Players : \E i \in DOMAIN initiative.order : initiative.order[i] = p,
         k.step \in {"VIRAL_SNAPSHOT", "VIRAL_RESOLUTION"},
         k.step = "VIRAL_RESOLUTION" =>
           \A pd \in k.left : /\ Near[pd] # {} /\ b.holder[pd] # Nobody
                              /\ k.choices[pd] \in Types,
         cleanups' # 0
  PROVE  /\ cleanup' \in Cleanups
         /\ DOMAIN viralChoice' = {"kind", "pd", "of", "options", "fresh"}
         /\ viralChoice'.kind \in Kinds /\ viralChoice'.fresh \in BOOLEAN
         /\ Asked' /\ QuestionStands'
<1> DEFINE chosen == IF k.step = "VIRAL_SNAPSHOT" THEN Automatic(b, k.choices) ELSE k.choices
           ties == IF k.step = "VIRAL_SNAPSHOT" THEN Unresolved(b, chosen) ELSE {}
           snapshot == [step |-> "VIRAL_RESOLUTION",
                        choices |-> [pd \in PDs |->
                                       IF pd \in Origins(b, chosen) THEN ViralType(b, pd, chosen)
                                       ELSE "NONE"],
                        left |-> Origins(b, chosen)]
           frozen == IF k.step = "VIRAL_SNAPSHOT" THEN snapshot ELSE k
           order == initiative.order
<1>1. /\ k.choices \in [PDs -> Types \cup {"NONE"}] /\ k.left \in SUBSET PDs /\ k.step \in Steps
      /\ k = [step |-> k.step, choices |-> k.choices, left |-> k.left]
  BY DEF Cleanups
<1>2. chosen \in [PDs -> Types \cup {"NONE"}]
  BY <1>1, AutomaticIs
<1>3. \/ /\ ties # {} /\ cleanup' = [k EXCEPT !.choices = chosen]
         /\ viralChoice' = Question("INFLUENCE_TYPE", First(b, ties), b, Types) /\ phase' = phase
      \/ /\ frozen.left # {} /\ cleanup' = frozen
         /\ viralChoice' = Question("DESTINATION_PD", First(b, frozen.left), b, Near[First(b, frozen.left)])
         /\ phase' = phase
      \/ cleanup' = NoCleanup /\ viralChoice' = NoQuestion
  BY DEF Advance
<1>4. /\ ties # {} => k.step = "VIRAL_SNAPSHOT" /\ ties = Unresolved(b, chosen)
      /\ frozen.step = "VIRAL_RESOLUTION" /\ frozen \in Cleanups
      /\ \A pd \in frozen.left : /\ Near[pd] # {} /\ b.holder[pd] \in Players
                                 /\ frozen.choices[pd] \in Types
  <2>1. ties # {} => k.step = "VIRAL_SNAPSHOT" /\ ties = Unresolved(b, chosen)
    OBVIOUS
  <2>2. CASE k.step = "VIRAL_SNAPSHOT"
    <3>1. Origins(b, chosen) \subseteq PDs
      BY TiesAreHeld
    <3>2. \A pd \in Origins(b, chosen) : /\ b.holder[pd] \in Players /\ Near[pd] # {}
                                         /\ ViralType(b, pd, chosen) # "NONE"
      BY TiesAreHeld
    <3>3. \A pd \in PDs : ViralType(b, pd, chosen) \in Types \cup {"NONE"}
      BY <1>2, ViralTypeIs
    <3> HIDE DEF chosen
    <3>4. snapshot \in Cleanups
      BY <3>1, <3>3 DEF Cleanups, Steps
    <3>5. \A pd \in snapshot.left : snapshot.choices[pd] \in Types
      BY <3>1, <3>2, <3>3
    <3> QED BY <2>1, <2>2, <3>2, <3>4, <3>5
  <2>3. CASE k.step = "VIRAL_RESOLUTION"
    <3>1. frozen = k
      BY <2>3
    <3>2. \A pd \in PDs : b.holder[pd] \in Players \cup {Nobody}
      BY DEF Boards
    <3> QED BY <1>1, <2>1, <2>3, <3>1, <3>2
  <2> QED BY <2>2, <2>3
<1> HIDE DEF chosen, ties, frozen
<1>5. \A S : S \in SUBSET PDs /\ S # {} /\ (\A x \in S : b.holder[x] \in Players)
               => First(b, S) \in S
  BY FirstIsThere, FirstByOrder
<1>6. Types # {} /\ "INFLUENCE_TYPE" \in Kinds /\ "DESTINATION_PD" \in Kinds
  BY DEF Types, Kinds
<1>7. CASE /\ ties # {} /\ cleanup' = [k EXCEPT !.choices = chosen]
           /\ viralChoice' = Question("INFLUENCE_TYPE", First(b, ties), b, Types) /\ phase' = phase
  <2>1. /\ cleanup' \in Cleanups /\ cleanup'.step = "VIRAL_SNAPSHOT" /\ cleanup'.choices = chosen
    BY <1>1, <1>2, <1>4, <1>7 DEF Cleanups
  <2>2. /\ viralChoice'.kind = "INFLUENCE_TYPE" /\ viralChoice'.fresh = TRUE
        /\ viralChoice'.of = b.holder[viralChoice'.pd] /\ viralChoice'.options = Types
        /\ viralChoice'.pd = First(b, ties)
        /\ DOMAIN viralChoice' = {"kind", "pd", "of", "options", "fresh"}
    BY <1>7 DEF Question
  <2>3. First(b, ties) \in ties
    BY <1>4, <1>5, <1>7, TiesAreHeld
  <2>4. Asked'
    BY <1>7, <2>1, <2>2 DEF Asked
  <2>5. viralChoice'.pd \in Unresolved(board', cleanup'.choices)
    BY <1>4, <1>7, <2>1, <2>2, <2>3
  <2>6. QuestionStands'
    BY <1>6, <2>2, <2>5, SameTies DEF QuestionStands
  <2> QED BY <1>6, <2>1, <2>2, <2>4, <2>6
<1>8. CASE /\ frozen.left # {} /\ cleanup' = frozen
           /\ viralChoice' = Question("DESTINATION_PD", First(b, frozen.left), b, Near[First(b, frozen.left)])
           /\ phase' = phase
  <2>1. First(b, frozen.left) \in frozen.left
    <3>1. frozen.left \in SUBSET PDs
      BY <1>4 DEF Cleanups
    <3> QED BY <1>4, <1>5, <1>8, <3>1
  <2>2. /\ viralChoice'.kind = "DESTINATION_PD" /\ viralChoice'.fresh = TRUE
        /\ viralChoice'.of = b.holder[viralChoice'.pd] /\ viralChoice'.pd = First(b, frozen.left)
        /\ viralChoice'.options = Near[First(b, frozen.left)]
        /\ DOMAIN viralChoice' = {"kind", "pd", "of", "options", "fresh"}
    BY <1>8 DEF Question
  <2>3. Asked'
    <3>1. \A pd \in cleanup'.left : /\ Near[pd] # {} /\ board'.holder[pd] # Nobody
                                    /\ cleanup'.choices[pd] \in Types
      BY <1>4, <1>8, TopologyAssumption
    <3>2. cleanup'.step = "VIRAL_RESOLUTION" /\ viralChoice'.pd \in cleanup'.left
      BY <1>4, <1>8, <2>1, <2>2
    <3> QED BY <1>8, <2>2, <3>1, <3>2 DEF Asked
  <2>4. First(board, cleanup.left)' = First(b, frozen.left)
    <3>1. initiative'.order = initiative.order
      OBVIOUS
    <3> QED BY <1>8, <3>1, FirstByOrder
  <2>5. viralChoice'.options # {}
    BY <1>4, <2>1, <2>2
  <2>6. QuestionStands'
    BY <1>4, <1>8, <2>2, <2>4, <2>5 DEF QuestionStands
  <2> QED BY <1>4, <1>6, <1>8, <2>2, <2>3, <2>6
<1>9. CASE cleanup' = NoCleanup /\ viralChoice' = NoQuestion
  <2>1. NoCleanup \in Cleanups
    BY DEF NoCleanup, Cleanups, Steps
  <2>2. /\ NoQuestion.kind \in Kinds /\ NoQuestion.fresh = FALSE
        /\ DOMAIN NoQuestion = {"kind", "pd", "of", "options", "fresh"}
    BY DEF NoQuestion, Kinds
  <2> QED BY <1>9, <2>1, <2>2 DEF Asked, QuestionStands
<1> QED BY <1>3, <1>7, <1>8, <1>9

\* Influence changes the cubes of a board and nobody's hold.
LEMMA InfluencedBoards ==
  ASSUME NEW b \in Boards, NEW pd \in PDs, NEW t \in Types, NEW country \in Countries,
         NEW generated \in Nat, NEW r \in Influenced(b, pd, t, country, generated)
  PROVE  r \in Boards /\ r.holder = b.holder
<1> DEFINE o == Opposite(t)
           there == b.cubes[pd][o]
           n == Placed(generated, SumFunction(there))
           C == [PDs -> [Types -> [Countries -> Nat]]]
<1>1. o \in Types /\ o # t
  BY DEF Opposite, Types
<1>2. /\ b.cubes \in C /\ b.holder \in [PDs -> Players \cup {Nobody}]
      /\ b = [holder |-> b.holder, cubes |-> b.cubes]
  BY DEF Boards
<1>3. there \in [Countries -> Nat]
  BY <1>1, <1>2
<1>4. SumFunction(there) \in Nat
  <2>1. SumFunction(there) = SumOver(there, Countries)
    BY <1>3 DEF SumFunction, SumFunctionOnSet, SumOver
  <2>2. \A c \in Countries : there[c] \in Nat
    BY <1>3
  <2> HIDE DEF there
  <2> QED BY <2>1, <2>2, SumNat, Topology
<1>5. n \in Nat
  <2>1. PICK s \in Nat : s = SumFunction(there)
    BY <1>4
  <2>2. Placed(generated, s) \in Nat
    BY DEF Placed, Removed
  <2> QED BY <2>1, <2>2
<1> DEFINE grown == [b.cubes[pd][t] EXCEPT ![country] = @ + n]
           after(f) == [u \in Types |-> IF u = t THEN grown ELSE f]
<1>6. PICK f \in [Countries -> Nat] : r = [b EXCEPT !.cubes[pd] = after(f)]
  <2>1. 0 .. SumFunction(there) \subseteq Nat
    BY <1>4
  <2>2. PICK f \in [Countries -> 0 .. SumFunction(there)] : r = [b EXCEPT !.cubes[pd] = after(f)]
    BY DEF Influenced
  <2>3. f \in [Countries -> Nat]
    BY <2>1, <2>2
  <2> QED BY <2>2, <2>3
<1> HIDE DEF n, there, o
<1>7. grown \in [Countries -> Nat]
  <2>1. b.cubes[pd][t] \in [Countries -> Nat]
    BY <1>2
  <2>2. b.cubes[pd][t][country] + n \in Nat
    BY <1>5, <2>1
  <2> QED BY <2>1, <2>2
<1>8. after(f) \in [Types -> [Countries -> Nat]]
  <2> HIDE DEF grown
  <2> QED BY <1>6, <1>7
<1> HIDE DEF after
<1>9. r \in [holder : {b.holder}, cubes : C]
  BY <1>2, <1>6, <1>8
<1> QED BY <1>2, <1>9 DEF Boards

\* A question stands as long as nothing that it is about changes.
LEMMA StillStands ==
  ASSUME Asked, QuestionStands,
         UNCHANGED <<phase, cleanups, board, cleanup, viralChoice, initiative, seat, variant>>
  PROVE  Asked' /\ QuestionStands'
<1>1. Asked'
  BY DEF Asked
<1>2. Unresolved(board, cleanup.choices)' = Unresolved(board, cleanup.choices)
  BY SameTies
<1>3. First(board, cleanup.left)' = First(board, cleanup.left)
  BY FirstByOrder
<1>4. QuestionStands'
  BY <1>2, <1>3 DEF QuestionStands
<1> QED BY <1>1, <1>4

\* A step keeps the types of the turn and what a question is about.
LEMMA QuestionStays ==
  ASSUME SetupTypes, StageTypes, TurnTypes, Stages, Asked, QuestionStands, [Next]_vars
  PROVE  TurnTypes' /\ Asked' /\ QuestionStands'
<1> DEFINE Mats == [Players -> [row : {"NONE", "I", "II"}, cards : SUBSET Printed]]
           Shape(q) == /\ DOMAIN q = {"kind", "pd", "of", "options", "fresh"}
                       /\ q.kind \in Kinds /\ q.fresh \in BOOLEAN
<1>0. /\ table' = table /\ Printed' = Printed /\ table \in Tables
      /\ mat \in Mats /\ board \in Boards /\ cleanup \in Cleanups /\ Shape(viralChoice)
      /\ cleanups \in 0 .. table.cleanups /\ table.cleanups \in Nat
  BY SameTable, Instances DEF Printed, TurnTypes, SetupTypes
<1>1. ASSUME mat' \in Mats, board' \in Boards, cleanup' \in Cleanups, Shape(viralChoice'),
             cleanups' \in 0 .. table.cleanups
      PROVE  TurnTypes'
  BY <1>0, <1>1 DEF TurnTypes
<1> HIDE DEF Mats
<1>2. ASSUME UNCHANGED turnVars
      PROVE  TurnTypes'
  BY <1>0, <1>1, <1>2 DEF turnVars
<1>3. ASSUME ~ viralChoice'.fresh
      PROVE  Asked' /\ QuestionStands'
  BY <1>3 DEF Asked, QuestionStands
<1>4. ASSUME viralChoice' = Stale
      PROVE  Shape(viralChoice') /\ Asked' /\ QuestionStands'
  <2>1. Shape(viralChoice') /\ viralChoice'.fresh = FALSE
    BY <1>0, <1>4 DEF Stale
  <2> QED BY <1>3, <2>1
<1>5. ASSUME UNCHANGED turnVars, phase # "RESOLUTION_STAGE"
      PROVE  TurnTypes' /\ Asked' /\ QuestionStands'
  <2>1. ~ viralChoice'.fresh
    BY <1>5 DEF Asked, turnVars
  <2> QED BY <1>2, <1>3, <1>5, <2>1
<1>6. phase = "RESOLUTION_STAGE" =>
        /\ CanonicalSeating
        /\ initiative.order \in Seq(Players)
        /\ \A p \in Players : \E i \in DOMAIN initiative.order : initiative.order[i] = p
  BY DEF Stages, StageTypes
<1>7. CASE Setup /\ UNCHANGED turnVars
  <2>1. phase = "SETUP"
    BY <1>7 DEF Setup, Join, AssignSeat, ConfigureOption, StartGame
  <2> QED BY <1>5, <1>7, <2>1
<1>8. ASSUME NEW p \in Players, Prepare(p), UNCHANGED turnVars
      PROVE  TurnTypes' /\ Asked' /\ QuestionStands'
  <2>1. phase # "RESOLUTION_STAGE"
    BY <1>8 DEF Prepare, SubmitDeck, LockStrategy, ResolveInitiative, SetMaintenance,
         LockMaintenance, DealResources, DealCard, SetPlan, LockPlan, MayDeal
  <2> QED BY <1>5, <1>8, <2>1
<1>9. CASE Overlay
  <2>1. /\ viralChoice' = Stale
        /\ mat' = mat /\ board' = board /\ cleanup' = cleanup /\ cleanups' = cleanups
    BY <1>9 DEF Overlay
  <2> QED BY <1>0, <1>1, <1>4, <2>1
<1>10. CASE EndGame
  <2>1. /\ viralChoice' = Stale
        /\ mat' = mat /\ board' = board /\ cleanup' = cleanup /\ cleanups' = cleanups
    BY <1>10 DEF EndGame
  <2> QED BY <1>0, <1>1, <1>4, <2>1
<1>11. CASE UNCHANGED vars
  <2>1. UNCHANGED <<turnVars, phase, initiative, seat, variant>>
    BY <1>11 DEF vars, prepVars, setupVars, stageVars
  <2> QED BY <1>2, <2>1, StillStands DEF turnVars
<1>12. ASSUME NEW p \in Players, ResolvePlan(p)
       PROVE  TurnTypes' /\ Asked' /\ QuestionStands'
  <2>1. viralChoice' = Stale /\ cleanup' = cleanup /\ cleanups' = cleanups
    BY <1>12 DEF ResolvePlan
  <2>2. board' \in Boards
    BY <1>0, <1>12, Instances DEF ResolvePlan
  <2>3. mat' \in Mats
    <3>1. planning[p].cards \in SUBSET Printed
      BY DEF StageTypes
    <3>2. \/ mat' = [mat EXCEPT ![p] = [row |-> "I", cards |-> planning[p].cards]]
          \/ mat' = mat
      BY <1>12 DEF ResolvePlan
    <3> QED BY <1>0, <3>1, <3>2 DEF Mats
  <2> QED BY <1>0, <1>1, <1>4, <2>1, <2>2, <2>3
<1>13. CASE RunCleanup
  <2> DEFINE k == [step |-> "VIRAL_SNAPSHOT", choices |-> [pd \in PDs |-> "NONE"], left |-> {}]
  <2>1. /\ phase = "RESOLUTION_STAGE" /\ mat' = AgedMat /\ Advance(k, board) /\ board' = board
        /\ cleanups' = cleanups + 1 /\ cleanups < table.cleanups
        /\ UNCHANGED <<seat, variant, initiative>>
    BY <1>13 DEF RunCleanup, setupVars, stageVars
  <2>2. k \in Cleanups /\ k.step = "VIRAL_SNAPSHOT"
    BY DEF Cleanups, Steps
  <2>3. mat' \in Mats
    <3>1. ASSUME NEW p \in Players
          PROVE  AgedMat[p] \in [row : {"NONE", "I", "II"}, cards : SUBSET Printed]
      <4>1. mat[p] \in [row : {"NONE", "I", "II"}, cards : SUBSET Printed]
        BY <1>0 DEF Mats
      <4>2. AgedMat[p] = IF mat[p].row = "I" THEN [mat[p] EXCEPT !.row = "II"] ELSE NoCampaign
        BY DEF AgedMat
      <4> QED BY <4>1, <4>2 DEF NoCampaign
    <3> QED BY <2>1, <3>1 DEF AgedMat, Mats
  <2>4. cleanups' \in 0 .. table.cleanups /\ cleanups' # 0
    BY <1>0, <2>1
  <2> HIDE DEF k
  <2>5. cleanup' \in Cleanups /\ Shape(viralChoice') /\ Asked' /\ QuestionStands'
    BY <1>0, <1>6, <2>1, <2>2, <2>4, Asks
  <2> QED BY <1>0, <1>1, <2>1, <2>3, <2>4, <2>5
<1>14. ASSUME NEW p \in Players, NEW t \in Types, ChooseType(p, t)
       PROVE  TurnTypes' /\ Asked' /\ QuestionStands'
  <2> DEFINE k == [cleanup EXCEPT !.choices[viralChoice.pd] = t]
  <2>1. /\ phase = "RESOLUTION_STAGE" /\ Advance(k, board) /\ board' = board
        /\ viralChoice.kind = "INFLUENCE_TYPE" /\ viralChoice.fresh
        /\ mat' = mat /\ cleanups' = cleanups
        /\ UNCHANGED <<seat, variant, initiative>>
    BY <1>14 DEF ChooseType, setupVars, stageVars
  <2>2. cleanup.step = "VIRAL_SNAPSHOT" /\ cleanups # 0
    BY <2>1 DEF Asked
  <2>3. k \in Cleanups /\ k.step = "VIRAL_SNAPSHOT"
    BY <1>0, <2>2 DEF Cleanups
  <2> HIDE DEF k
  <2>4. cleanup' \in Cleanups /\ Shape(viralChoice') /\ Asked' /\ QuestionStands'
    BY <1>0, <1>6, <2>1, <2>2, <2>3, Asks
  <2> QED BY <1>0, <1>1, <2>1, <2>4
<1>15. ASSUME NEW p \in Players, NEW pd \in PDs, ChooseDestination(p, pd)
       PROVE  TurnTypes' /\ Asked' /\ QuestionStands'
  <2> DEFINE origin == viralChoice.pd
             k == [cleanup EXCEPT !.left = @ \ {origin}]
  <2>1. /\ phase = "RESOLUTION_STAGE"
        /\ viralChoice.kind = "DESTINATION_PD" /\ viralChoice.fresh
        /\ mat' = mat /\ cleanups' = cleanups
        /\ UNCHANGED <<seat, variant, initiative>>
    BY <1>15 DEF ChooseDestination, setupVars, stageVars
  <2>2. /\ cleanup.step = "VIRAL_RESOLUTION" /\ cleanups # 0 /\ origin \in cleanup.left
        /\ \A x \in cleanup.left : /\ Near[x] # {} /\ board.holder[x] # Nobody
                                   /\ cleanup.choices[x] \in Types
    BY <2>1 DEF Asked
  <2>3. /\ k \in Cleanups /\ k.step = "VIRAL_RESOLUTION" /\ k.left \subseteq cleanup.left
        /\ k.choices = cleanup.choices
    BY <1>0, <2>2 DEF Cleanups
  <2> HIDE DEF k
  <2>4. PICK n \in Generated :
          \E b \in IF n = 0 THEN {board}
                   ELSE Influenced(board, pd, cleanup.choices[origin], seat[p].country, n) :
            board' = b /\ Advance(k, b)
    BY <1>15 DEF ChooseDestination, k
  <2>5. PICK b \in IF n = 0 THEN {board}
                   ELSE Influenced(board, pd, cleanup.choices[origin], seat[p].country, n) :
          board' = b /\ Advance(k, b)
    BY <2>4
  <2>6. b \in Boards /\ b.holder = board.holder
    <3>1. CASE n = 0
      BY <1>0, <2>5, <3>1
    <3>2. CASE n # 0
      <4>1. n \in Nat
        BY <2>4 DEF Generated
      <4>2. cleanup.choices[origin] \in Types
        BY <2>2
      <4>3. seat[p].country \in Countries
        BY <1>6, <2>1, Canonical
      <4>4. b \in Influenced(board, pd, cleanup.choices[origin], seat[p].country, n)
        BY <2>5, <3>2
      <4> HIDE DEF origin
      <4> QED BY <1>0, <4>1, <4>2, <4>3, <4>4, InfluencedBoards
    <3> QED BY <3>1, <3>2
  <2>7. \A x \in k.left : Near[x] # {} /\ b.holder[x] # Nobody /\ k.choices[x] \in Types
    BY <2>2, <2>3, <2>6
  <2>8. cleanup' \in Cleanups /\ Shape(viralChoice') /\ Asked' /\ QuestionStands'
    BY <1>6, <2>1, <2>2, <2>3, <2>5, <2>6, <2>7, Asks
  <2> QED BY <1>0, <1>1, <2>1, <2>5, <2>6, <2>8
<1> QED BY <1>7, <1>8, <1>9, <1>10, <1>11, <1>12, <1>13, <1>14, <1>15 DEF Next, Answer

-------------------------------------------------------------------------------
(***************************************************************************)
(* Money.                                                                  *)
(***************************************************************************)

\* What a player earns, and who has been paid.
Salary == [p \in Players |-> IF seat[p] = NoSeat THEN 0 ELSE Income[seat[p].country]]
Paid   == {p \in Players : maintenance[p].locked}

Balanced == SumOver(money, Countries) = SumOver(StartMoney, Countries) + SumOver(Salary, Paid)

\* MoneyConserved, said with sums.
LEMMA MoneyBySums ==
  /\ money \in [Countries -> Nat] => (MoneyConserved <=> Balanced)
  /\ money' \in [Countries -> Nat] => (MoneyConserved' <=> Balanced')
<1>1. DOMAIN StartMoney = Countries
  BY TopologyAssumption
<1>2. money \in [Countries -> Nat] => (MoneyConserved <=> Balanced)
  BY <1>1 DEF MoneyConserved, Balanced, Salary, Paid, SumFunction, SumFunctionOnSet, SumOver
<1>3. money' \in [Countries -> Nat] => (MoneyConserved' <=> Balanced')
  BY <1>1 DEF MoneyConserved, Balanced, Salary, Paid, SumFunction, SumFunctionOnSet, SumOver
<1> QED BY <1>2, <1>3

\* Sums of salaries are numbers, now and in the next state.
LEMMA Salaries ==
  ASSUME SetupTypes
  PROVE  /\ IsFiniteSet(Paid)
         /\ \A p \in Players : Salary[p] \in Nat
         /\ SumOver(Salary, Paid) \in Int /\ SumOver(StartMoney, Countries) \in Int
         /\ SumOver(money, Countries) \in Int
<1>1. IsFiniteSet(Paid) /\ Paid \subseteq Players
  <2>1. Paid \subseteq Players
    BY DEF Paid
  <2> QED BY <2>1, Topology, FS_Subset
<1>2. \A p \in Players : Salary[p] \in Nat
  <2> TAKE p \in Players
  <2>1. seat[p] # NoSeat => seat[p].country \in Countries
    BY DEF SetupTypes
  <2>2. \A c \in Countries : Income[c] \in Nat
    BY TopologyAssumption
  <2>3. Salary[p] = IF seat[p] = NoSeat THEN 0 ELSE Income[seat[p].country]
    BY DEF Salary
  <2> QED BY <2>1, <2>2, <2>3
<1>3. SumOver(Salary, Paid) \in Int
  BY <1>1, <1>2, SumType
<1>4. \A c \in Countries : StartMoney[c] \in Int /\ money[c] \in Int
  BY TopologyAssumption DEF SetupTypes
<1>5. SumOver(StartMoney, Countries) \in Int /\ SumOver(money, Countries) \in Int
  BY <1>4, SumType, Topology
<1> QED BY <1>1, <1>2, <1>3, <1>5

\* Money does not change hands, nobody sits down and nobody is paid.
LEMMA QuietMoney ==
  ASSUME Balanced, UNCHANGED <<money, seat>>, Paid' = Paid
  PROVE  Balanced'
<1>1. Salary' = Salary
  BY DEF Salary
<1> QED BY <1>1 DEF Balanced

\* A step keeps the sum of all money.
LEMMA MoneyStays ==
  ASSUME SetupTypes, StageTypes, Stages, MoneyConserved, SetupTypes', [Next]_vars
  PROVE  MoneyConserved'
<1>0. Balanced /\ (Balanced' => MoneyConserved')
  BY MoneyBySums DEF SetupTypes
<1> SUFFICES Balanced'
  BY <1>0
<1>1. ASSUME UNCHANGED <<money, seat, maintenance>>
      PROVE  Balanced'
  BY <1>0, <1>1, QuietMoney DEF Paid
<1>2. ASSUME NEW p \in Players, NEW c \in Countries, NEW i \in Places, AssignSeat(p, c, i)
      PROVE  Balanced'
  <2>1. Paid = {} /\ Paid' = {}
    BY <1>2 DEF AssignSeat, Stages, Paid, stageVars
  <2>2. money' = money
    BY <1>2 DEF AssignSeat
  <2>3. SumOver(Salary, Paid) = 0 /\ SumOver(Salary', Paid') = 0
    BY <2>1, SumNone
  <2> QED BY <1>0, <2>2, <2>3 DEF Balanced
<1>3. ASSUME NEW p \in Players, SetMaintenance(p)
      PROVE  Balanced'
  <2>1. PICK d \in SUBSET strategy[p].hand :
          maintenance' = [maintenance EXCEPT ![p].discards = d, ![p].submitted = TRUE]
    BY <1>3 DEF SetMaintenance
  <2>2. \A q \in Players : maintenance'[q].locked = maintenance[q].locked
    BY <2>1 DEF StageTypes
  <2>3. Paid' = Paid
    BY <2>2 DEF Paid
  <2> QED BY <1>0, <1>3, <2>3, QuietMoney DEF SetMaintenance, setupVars
<1>4. ASSUME NEW p \in Players, LockMaintenance(p)
      PROVE  Balanced'
  <2> DEFINE a == seat[p].country
  <2>1. /\ a \in Countries /\ seat[p] # NoSeat /\ seat' = seat
        /\ money' = [money EXCEPT ![a] = @ + Income[a]]
        /\ maintenance' = [maintenance EXCEPT ![p].locked = TRUE]
        /\ ~ maintenance[p].locked
    <3>1. CanonicalSeating
      BY <1>4 DEF Stages, LockMaintenance
    <3>2. Seated = Players /\ a \in Countries
      BY <3>1, Canonical
    <3> QED BY <1>4, <3>2 DEF LockMaintenance, MaintenanceTurn, setupVars, Seated
  <2>2. Paid' = Paid \cup {p} /\ p \notin Paid /\ p \in Paid'
    BY <2>1 DEF Paid, StageTypes
  <2>3. Salary' = Salary /\ Salary[p] = Income[a]
    BY <2>1 DEF Salary
  <2>4. /\ IsFiniteSet(Paid) /\ \A q \in Players : Salary[q] \in Nat
        /\ SumOver(Salary, Paid) \in Int /\ SumOver(StartMoney, Countries) \in Int
        /\ SumOver(money, Countries) \in Int
    BY Salaries
  <2>5. SumOver(Salary', Paid') = Income[a] + SumOver(Salary, Paid)
    <3>1. IsFiniteSet(Paid') /\ Paid' \subseteq Players /\ Paid' \ {p} = Paid
      BY <2>2, <2>4, FS_AddElement DEF Paid
    <3>2. SumOver(Salary, Paid') = Salary[p] + SumOver(Salary, Paid' \ {p})
      BY <2>2, <2>4, <3>1, SumOne
    <3> QED BY <2>3, <3>1, <3>2
  <2>6. SumOver(money', Countries) = SumOver(money, Countries) - money[a] + money'[a]
    <3>1. \A c \in Countries : money[c] \in Int /\ money'[c] \in Int
      BY DEF SetupTypes
    <3>2. \A c \in Countries \ {a} : money'[c] = money[c]
      BY <2>1 DEF SetupTypes
    <3>3. a \in Countries /\ IsFiniteSet(Countries)
      BY <2>1, Topology
    <3> HIDE DEF a
    <3> QED BY <3>1, <3>2, <3>3, SumChange
  <2>7. money[a] \in Nat /\ Income[a] \in Nat /\ money'[a] = money[a] + Income[a]
    BY <2>1, TopologyAssumption DEF SetupTypes
  <2> HIDE DEF a
  <2> QED BY <1>0, <2>4, <2>5, <2>6, <2>7 DEF Balanced
<1>5. ASSUME NEW p \in Players, NEW q \in Players, DealResources(p, q)
      PROVE  Balanced'
  <2> DEFINE a == seat[p].country
             b == seat[q].country
             m == [money EXCEPT ![a] = money[a] - 1]
  <2>1. /\ UNCHANGED <<seat, maintenance>> /\ money[a] >= 1
        /\ money' = [money EXCEPT ![a] = @ - 1, ![b] = @ + 1]
    BY <1>5 DEF DealResources, setupVars, stageVars
  <2>2. a \in Countries /\ b \in Countries /\ a # b
    <3>1. CanonicalSeating /\ p # q
      BY <1>5 DEF Stages, DealResources, MayDeal
    <3> QED BY <3>1, Canonical
  <2>3. money \in [Countries -> Nat] /\ money' \in [Countries -> Nat]
    BY DEF SetupTypes
  <2> HIDE DEF a, b
  <2>4. /\ money'[a] = money[a] - 1 /\ money'[b] = money[b] + 1
        /\ \A c \in Countries \ {a, b} : money'[c] = money[c]
    BY <2>1, <2>2, <2>3
  <2>5. /\ m[a] = money[a] - 1 /\ m[b] = money[b]
        /\ \A c \in Countries \ {a} : m[c] = money[c]
        /\ \A c \in Countries : m[c] \in Int
    BY <2>1, <2>2, <2>3
  <2> HIDE DEF m
  <2>6. \A c \in Countries : money[c] \in Int /\ money'[c] \in Int
    BY <2>3
  <2>7. SumOver(m, Countries) = SumOver(money, Countries) - money[a] + m[a]
    BY <2>2, <2>5, <2>6, SumChange, Topology
  <2>8. SumOver(money', Countries) = SumOver(m, Countries) - m[b] + money'[b]
    <3>1. \A c \in Countries \ {b} : money'[c] = m[c]
      BY <2>4, <2>5
    <3> QED BY <2>2, <2>5, <2>6, <3>1, SumChange, Topology
  <2>9. SumOver(money, Countries) \in Int /\ money[a] \in Int /\ money[b] \in Int
    BY <2>2, <2>6, Salaries
  <2>10. SumOver(money', Countries) = SumOver(money, Countries)
    BY <2>4, <2>5, <2>7, <2>8, <2>9
  <2>11. Salary' = Salary /\ Paid' = Paid
    BY <2>1 DEF Salary, Paid
  <2> QED BY <1>0, <2>10, <2>11 DEF Balanced
<1>6. CASE Setup
  <2>1. CASE (\E p \in Players : Join(p)) \/ (\E v \in {"BASELINE", "SHORT"} : ConfigureOption(v))
               \/ StartGame
    <3>1. UNCHANGED <<money, seat, maintenance>>
      BY <2>1 DEF Join, ConfigureOption, StartGame, setupVars, stageVars
    <3> QED BY <1>1, <3>1
  <2> QED BY <1>2, <1>6, <2>1 DEF Setup
<1>7. ASSUME NEW p \in Players, Prepare(p)
      PROVE  Balanced'
  <2>1. CASE \/ SubmitDeck(p) \/ LockStrategy(p) \/ ResolveInitiative(p) \/ SetPlan(p) \/ LockPlan(p)
             \/ \E q \in Players, c \in strategy[p].hand : DealCard(p, q, c)
    <3>1. UNCHANGED <<money, seat, maintenance>>
      BY <2>1 DEF SubmitDeck, LockStrategy, ResolveInitiative, SetPlan, LockPlan, DealCard,
         setupVars, stageVars
    <3> QED BY <1>1, <3>1
  <2> QED BY <1>3, <1>4, <1>5, <1>7, <2>1 DEF Prepare
<1>8. CASE Overlay
  <2>1. UNCHANGED <<money, seat, maintenance>>
    BY <1>8 DEF Overlay, Pause, Resume, setupVars, stageVars
  <2> QED BY <1>1, <2>1
<1>9. CASE UNCHANGED vars
  <2>1. UNCHANGED <<money, seat, maintenance>>
    BY <1>9 DEF vars, prepVars, setupVars, stageVars
  <2> QED BY <1>1, <2>1
<1>10. CASE RunCleanup \/ (\E p \in Players : ResolvePlan(p) \/ Answer(p)) \/ EndGame
  <2>1. UNCHANGED <<money, seat, maintenance>>
    BY <1>10, TurnFrame DEF setupVars
  <2> QED BY <1>1, <2>1
<1> QED BY <1>6, <1>7, <1>8, <1>9, <1>10 DEF Next

-------------------------------------------------------------------------------
(***************************************************************************)
(* The end of the game.                                                    *)
(***************************************************************************)

\* evaluateObjectives returns a number of points.
ObjectivesAreNumbers ==
  \A c \in Countries : \A b \in Boards : Objective(c, b.cubes) \in Int

EndTypes ==
  endGame \in [vp : [Players -> Int], winners : SUBSET Players, calls : 0 .. table.endings]

\* A step keeps the types of the result.
LEMMA EndTyped ==
  ASSUME ObjectivesAreNumbers, SetupTypes, TurnTypes, Stages, EndTypes, [Next]_vars
  PROVE  EndTypes'
<1>0. table' = table /\ table.endings \in Nat
  BY SameTable, Instances DEF SetupTypes
<1>1. ASSUME endGame' = endGame
      PROVE  EndTypes'
  BY <1>0, <1>1 DEF EndTypes
<1>2. CASE EndGame
  <2> DEFINE vp == [p \in Players |-> endGame.vp[p] + Objective(seat[p].country, board.cubes)]
  <2>1. /\ CanonicalSeating /\ board \in Boards /\ endGame.calls < table.endings
        /\ endGame' = [vp |-> vp, winners |-> Winners(vp), calls |-> endGame.calls + 1]
    BY <1>2 DEF EndGame, Stages, TurnTypes
  <2>2. ASSUME NEW p \in Players
        PROVE  endGame.vp[p] + Objective(seat[p].country, board.cubes) \in Int
    <3>1. seat[p].country \in Countries
      BY <2>1, Canonical
    <3>2. Objective(seat[p].country, board.cubes) \in Int
      BY <2>1, <3>1 DEF ObjectivesAreNumbers
    <3>3. endGame.vp[p] \in Int
      BY DEF EndTypes
    <3> QED BY <3>2, <3>3
  <2>3. vp \in [Players -> Int]
    BY <2>2
  <2> HIDE DEF vp
  <2>4. Winners(vp) \subseteq Players
    BY DEF Winners
  <2>5. endGame.calls + 1 \in 0 .. table.endings
    BY <1>0, <2>1 DEF EndTypes
  <2> QED BY <1>0, <2>1, <2>3, <2>4, <2>5 DEF EndTypes
<1>3. CASE Setup /\ UNCHANGED turnVars
  BY <1>1, <1>3 DEF turnVars
<1>4. CASE \E p \in Players : Prepare(p) /\ UNCHANGED turnVars
  BY <1>1, <1>4 DEF turnVars
<1>5. CASE Overlay
  BY <1>1, <1>5 DEF Overlay
<1>6. CASE UNCHANGED vars
  BY <1>1, <1>6 DEF vars, turnVars
<1>7. CASE RunCleanup
  BY <1>1, <1>7 DEF RunCleanup
<1>8. CASE \E p \in Players : ResolvePlan(p) \/ Answer(p)
  BY <1>1, <1>8 DEF ResolvePlan, Answer, ChooseType, ChooseDestination
<1> QED BY <1>2, <1>3, <1>4, <1>5, <1>6, <1>7, <1>8 DEF Next

-------------------------------------------------------------------------------
(***************************************************************************)
(* The theorems.                                                           *)
(***************************************************************************)

\* The inductive invariant: the types, where the cards are, the stages, the
\* question and the money.
Inv ==
  /\ SetupTypes /\ StageTypes /\ TurnTypes /\ CardInv
  /\ Stages /\ Asked /\ QuestionStands /\ MoneyConserved

\* A game that has been created satisfies it.
LEMMA InvCreated ==
  ASSUME Init
  PROVE  Inv
<1>1. SetupTypes /\ CardTypes /\ StageTypes /\ TurnTypes /\ Stages /\ Asked /\ Piles
  BY Created
<1>2. QuestionStands
  BY DEF Init, NoQuestion, QuestionStands
<1>3. MoneyConserved
  <2>1. Paid = {} /\ money = StartMoney
    BY <1>1 DEF Init, PrepInit, Stages, Paid
  <2>2. SumOver(Salary, Paid) = 0
    BY <2>1, SumNone
  <2>3. SumOver(StartMoney, Countries) \in Int
    BY <1>1, Salaries
  <2>4. Balanced
    BY <2>1, <2>2, <2>3 DEF Balanced
  <2> QED BY <1>1, <2>4, MoneyBySums DEF SetupTypes
<1>4. CardsAccounted
  <2>1. ASSUME NEW q \in Players
        PROVE  Accounted(q)
    <3>1. \A c \in Printed : card[c].by # q
      BY TopologyAssumption DEF Init, PrepInit, Printed
    <3>2. \A z : In(q, z) = {}
      BY <1>1, <3>1, Location DEF In, CardTypes
    <3>3. strategy[q] = EmptyStrategy /\ mat[q] = NoCampaign
      BY DEF Init, PrepInit
    <3>4. Cardinality({}) = 0 /\ table.limit \in Nat
      BY <1>1, FS_EmptySet, Instances DEF SetupTypes
    <3>5. \A e : {} \ {e} = {}
      OBVIOUS
    <3> QED BY <3>2, <3>3, <3>4, <3>5 DEF Accounted, EmptyStrategy, NoCampaign
  <2> QED BY <2>1, AccountedForAll
<1> QED BY <1>1, <1>2, <1>3, <1>4 DEF Inv, CardInv

\* Every step keeps it.
LEMMA InvStays ==
  ASSUME Inv, [Next]_vars
  PROVE  Inv'
<1>1. /\ SetupTypes /\ StageTypes /\ TurnTypes /\ CardInv /\ CardTypes
      /\ Stages /\ Asked /\ QuestionStands /\ MoneyConserved
  BY DEF Inv, CardInv
<1>2. SetupTypes'
  BY <1>1, SetupTyped
<1>3. StageTypes'
  BY <1>1, StageTyped
<1>4. CardInv'
  BY <1>1, CardsStay
<1>5. Stages'
  BY <1>1, StagesStay
<1>6. TurnTypes' /\ Asked' /\ QuestionStands'
  BY <1>1, QuestionStays
<1>7. MoneyConserved'
  BY <1>1, <1>2, MoneyStays
<1> QED BY <1>2, <1>3, <1>4, <1>5, <1>6, <1>7 DEF Inv

\* It says that cards are accounted for, money is kept and questions stand.
LEMMA InvHolds == Spec => []Inv
<1>1. Init => Inv
  BY InvCreated
<1>2. Inv /\ [Next]_vars => Inv'
  BY InvStays
<1> QED BY <1>1, <1>2, PTL DEF Spec

\* Where the record of a card says that it is, there its controller has it and
\* nowhere else, through the deals, draws, reshuffles and intercepted Leaks cards
\* and through the cleanups, which may be run any number of times.  No hand
\* exceeds the limit up to the first cleanup, and after it by one card at most,
\* the player's own False Identities that came home (discardWithLifecycle).
THEOREM CardsAreAccounted == Spec => []CardsAccounted
<1>1. Inv => CardsAccounted
  BY DEF Inv, CardInv
<1> QED BY <1>1, InvHolds, PTL

\* However players trade and whoever locks first, the money of all countries is
\* what the scenario gave and one income for each maintenance that was locked.
THEOREM MoneyIsConserved == Spec => []MoneyConserved
<1>1. Inv => MoneyConserved
  BY DEF Inv
<1> QED BY <1>1, InvHolds, PTL

\* A viral question that its player can answer is about the board as it is: no
\* cleanup, pause or resolved plan in between leaves an old one open.
THEOREM QuestionIsTrue == Spec => []QuestionStands
<1>1. Inv => QuestionStands
  BY DEF Inv
<1> QED BY <1>1, InvHolds, PTL

\* The state that the commands of a turn share keeps its shape.
THEOREM TypeCorrect ==
  ASSUME ObjectivesAreNumbers
  PROVE  Spec => []TypeOK
<1>1. Init => EndTypes
  <2> SUFFICES ASSUME Init PROVE EndTypes
    OBVIOUS
  <2>1. table.endings \in Nat
    BY Instances DEF Init, PrepInit
  <2>2. endGame = [vp |-> [p \in Players |-> 0], winners |-> {}, calls |-> 0]
    BY DEF Init
  <2> QED BY <2>1, <2>2 DEF EndTypes
<1>2. Inv /\ EndTypes /\ [Next]_vars => EndTypes'
  BY EndTyped DEF Inv
<1>3. Inv /\ EndTypes => TypeOK
  <2> SUFFICES ASSUME Inv, EndTypes PROVE TypeOK
    OBVIOUS
  <2>1. Cards = Printed /\ \A c \in Cards : card[c] \in [by : Players \cup {Nobody}, zone : Zones]
    BY DEF Inv, CardInv, CardTypes, Cards
  <2>2. /\ strategy \in [Players -> [submitted : SUBSET Cards, deck : SUBSET Cards,
                                     hand : SUBSET Cards, discard : SUBSET Cards, locked : BOOLEAN]]
        /\ maintenance \in [Players -> [discards : SUBSET Cards, submitted : BOOLEAN, locked : BOOLEAN]]
        /\ planning \in [Players -> [cards : SUBSET Cards, locked : BOOLEAN, done : BOOLEAN]]
        /\ mat \in [Players -> [row : {"NONE", "I", "II"}, cards : SUBSET Cards]]
    BY <2>1 DEF Inv, CardInv, CardTypes, StageTypes, TurnTypes
  <2>3. /\ initiative.status \in {"PENDING_ROLL", "MAINTENANCE", "COMPLETE"}
        /\ Range(initiative.order) \subseteq Players
    BY DEF Inv, StageTypes, Range
  <2>4. /\ table \in Tables /\ phase \in Phases
        /\ paused \in BOOLEAN /\ variant \in {"BASELINE", "SHORT"}
        /\ joined \in SUBSET Players
        /\ seat \in [Players -> {NoSeat} \cup [country : Countries, index : Places]]
        /\ money \in [Countries -> Nat]
        /\ deals \in 0 .. table.deals /\ pauses \in 0 .. table.pauses
    BY DEF Inv, SetupTypes
  <2>5. /\ board \in Boards /\ cleanup \in Cleanups /\ viralChoice.kind \in Kinds
        /\ cleanups \in 0 .. table.cleanups
    BY DEF Inv, TurnTypes
  <2>6. /\ endGame.vp \in [Players -> Int] /\ endGame.winners \in SUBSET Players
        /\ endGame.calls \in 0 .. table.endings
    BY DEF EndTypes
  <2>7. /\ cleanup.step \in Steps /\ cleanup.choices \in [PDs -> Types \cup {"NONE"}]
        /\ cleanup.left \in SUBSET PDs
    BY <2>5 DEF Cleanups
  <2> QED BY <2>1, <2>2, <2>3, <2>4, <2>5, <2>6, <2>7 DEF TypeOK, Phases, Steps, Kinds
<1> QED BY <1>1, <1>2, <1>3, InvHolds, PTL DEF Spec

\* Two cubes that are placed on a demographic cancel one of the other type, as
\* long as there is one, and nothing else is gained or lost, whoever places
\* them and whichever cubes are taken (applyDirectInfluence, resolveTwoToOne).
THEOREM TwoForOne ==
  ASSUME NEW b \in Boards, NEW pd \in PDs, NEW t \in Types, NEW country \in Countries,
         NEW generated \in Nat, NEW r \in Influenced(b, pd, t, country, generated)
  PROVE  LET here(x)  == SumFunction(x.cubes[pd][t])
             there(x) == SumFunction(x.cubes[pd][Opposite(t)])
             gone     == there(b) - there(r)
         IN  /\ gone \in 0 .. there(b)
             /\ here(r) = here(b) + generated - 2 * gone
             /\ here(r) > here(b) + 1 => there(r) = 0
             /\ \A q \in PDs \ {pd} : r.cubes[q] = b.cubes[q]
<1>1. /\ Opposite(t) \in Types /\ Opposite(t) # t
      /\ b.cubes \in [PDs -> [Types -> [Countries -> Nat]]]
      /\ b = [holder |-> b.holder, cubes |-> b.cubes]
  BY DEF Opposite, Types, Boards
<1>2. PICK had, held : /\ had = b.cubes[pd][t] /\ had \in [Countries -> Nat]
                       /\ held = b.cubes[pd][Opposite(t)] /\ held \in [Countries -> Nat]
  BY <1>1
<1>3. \A f \in [Countries -> Nat] : SumFunction(f) \in Nat /\ SumFunction(f) = SumOver(f, Countries)
  <2> SUFFICES ASSUME NEW f \in [Countries -> Nat]
               PROVE  SumFunction(f) \in Nat /\ SumFunction(f) = SumOver(f, Countries)
    OBVIOUS
  <2>1. SumFunction(f) = SumOver(f, Countries)
    BY DEF SumFunction, SumFunctionOnSet, SumOver
  <2>2. \A c \in Countries : f[c] \in Nat
    OBVIOUS
  <2> QED BY <2>1, <2>2, SumNat, Topology
<1>4. PICK s \in Nat : s = SumFunction(held)
  BY <1>2, <1>3
<1>5. PICK gone, n : gone = Removed(generated, s) /\ n = Placed(generated, s)
  OBVIOUS
<1>6. /\ gone \in 0 .. s /\ n \in Nat /\ n = generated - 2 * gone
      /\ n > 1 => gone = s
  BY <1>4, <1>5 DEF Removed, Placed
<1>7. PICK f \in [Countries -> 0 .. s] :
        /\ SumFunction(f) = s - gone
        /\ r = [b EXCEPT !.cubes[pd] =
                  [u \in Types |-> IF u = t THEN [had EXCEPT ![country] = @ + n] ELSE f]]
  BY <1>2, <1>4, <1>5 DEF Influenced
<1>8. PICK grown : grown = [had EXCEPT ![country] = @ + n]
  OBVIOUS
<1>9. /\ r.cubes[pd][t] = grown /\ r.cubes[pd][Opposite(t)] = f
      /\ \A q \in PDs \ {pd} : r.cubes[q] = b.cubes[q]
  <2>1. PICK both : both = [u \in Types |-> IF u = t THEN grown ELSE f]
    OBVIOUS
  <2>2. r.cubes = [b.cubes EXCEPT ![pd] = both]
    BY <1>1, <1>7, <1>8, <2>1
  <2>3. both[t] = grown /\ both[Opposite(t)] = f
    BY <1>1, <2>1
  <2> QED BY <1>1, <2>2, <2>3
<1>10. SumFunction(grown) = SumFunction(had) + n
  <2>1. grown \in [Countries -> Nat]
    BY <1>2, <1>6, <1>8
  <2>2. /\ \A c \in Countries : had[c] \in Int /\ grown[c] \in Int
        /\ \A c \in Countries : c # country => grown[c] = had[c]
        /\ grown[country] = had[country] + n
    BY <1>2, <1>6, <1>8, <2>1
  <2>3. SumOver(grown, Countries) = SumOver(had, Countries) - had[country] + grown[country]
    <3>1. IsFiniteSet(Countries)
      BY Topology
    <3> QED BY <2>2, <3>1, SumChange
  <2>4. SumOver(had, Countries) \in Nat
    BY <1>2, <1>3
  <2>5. had[country] \in Nat
    BY <1>2
  <2>6. SumOver(grown, Countries) = SumOver(had, Countries) + n
    BY <1>6, <2>2, <2>3, <2>4, <2>5
  <2> QED BY <1>2, <1>3, <2>1, <2>6
<1>11. SumFunction(had) \in Nat
  BY <1>2, <1>3
<1>12. PICK h \in Nat : h = SumFunction(had)
  BY <1>11
<1>13. /\ SumFunction(b.cubes[pd][t]) = h /\ SumFunction(r.cubes[pd][t]) = h + n
       /\ SumFunction(b.cubes[pd][Opposite(t)]) = s
       /\ SumFunction(r.cubes[pd][Opposite(t)]) = s - gone
  BY <1>2, <1>4, <1>7, <1>9, <1>10, <1>12
<1>14. s - (s - gone) = gone /\ (h + n > h + 1 => s - gone = 0) /\ h + n = h + generated - 2 * gone
  BY <1>4, <1>6, <1>12
<1> QED BY <1>6, <1>9, <1>13, <1>14

===============================================================================
