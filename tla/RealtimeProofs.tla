---------------------------- MODULE RealtimeProofs ----------------------------
(***************************************************************************)
(* Theorems about Realtime, for every shape of commit, batch size, limit   *)
(* of pending frames and bound: types, that a position the client was      *)
(* given is complete, that a well-behaved client is not rejected, that     *)
(* nothing is sent after the end, and that the viewer's feed is            *)
(* implemented.                                                            *)
(***************************************************************************)
EXTENDS Realtime, SequenceTheorems, FiniteSetTheorems, TLAPS

\* What most proofs use of the sizes.
LEMMA Sizes ==
  /\ BatchSize \in Nat \ {0}
  /\ MaxPending \in Nat \ {0}
  /\ MaxEvents \in Nat \ {0}
  /\ MaxOverrides \in Nat
BY SizesAssumption DEF SizesAssumption

USE Sizes

SubStates == {"none", "live", "closing", "gone"}

Positions == Cursors \cup {NoCursor}

\* The shapes of the records.
Subscriptions ==
  [state : SubStates, issuedLast : Positions, ackedLast : Positions,
   initial : Positions, issued : SUBSET Cursors, acked : SUBSET Cursors]

Operations ==
  [kind : OpKinds, from : Positions, stage : Stages, head : Positions]

Clients ==
  [base : Positions, heard : SUBSET (1 .. MaxEvents), points : SUBSET Cursors,
   got : SUBSET Cursors, acked : Positions, anew : BOOLEAN]

Budgets ==
  [overrides : Nat, resends : Nat, outages : Nat, connections : Nat,
   requests : Nat, faults : Nat]

Sockets == {"open", "closed", "rejected", "overloaded", "expired"}

SubscribeFrames ==
  [stage : {"idle", "member", "synced"}, after : Positions, head : Positions]

Events == [ver : Nat, vis : BOOLEAN]

\* The versions of the log never fall, and lead to the game's.
LogGrows ==
  /\ \A i, j \in DOMAIN log : i <= j => log[i].ver <= log[j].ver
  /\ log[Len(log)].ver <= version
  /\ spent.overrides = 0 => log[Len(log)].ver = version
  /\ version <= Len(log) + spent.overrides
  /\ spent.overrides <= MaxOverrides

\* The game, the outbox and its notifications.
GameOK ==
  /\ log \in Seq(Events) /\ Len(log) \in 1 .. MaxEvents
  /\ version \in Nat /\ sent \in 0 .. version
  /\ listener \in [up : BOOLEAN, last : Nat]
  /\ notes \in Seq(Nat)
  /\ spent \in Budgets
  /\ LogGrows

\* The connection, its subscription and its client.
LinkOK ==
  /\ socket \in Sockets
  /\ session \in BOOLEAN
  /\ frame \in SubscribeFrames
  /\ sub \in Subscriptions
  /\ tail \in Seq(Operations)
  /\ wire \in Seq(Frames) /\ Len(wire) <= MaxPending
  /\ client \in Clients

\* A position of the game's past or present, with the version of its last event
\* unless an override moved the version on.
Known(c) ==
  /\ c.seq \in 1 .. Len(log)
  /\ c.ver \in log[c.seq].ver .. version
  /\ spent.overrides = 0 => c.ver = log[c.seq].ver

TypeInv == GameOK /\ LinkOK

-------------------------------------------------------------------------------
(* The queue of one subscription.                                          *)

Subscribing == frame.stage # "idle"

HasFirst == \E i \in DOMAIN tail : tail[i].kind = "first"

\* Operations run one at a time, none without a subscription; the first
\* delivery is the first of all.
QueueInv ==
  /\ sub.state \in {"none", "gone"} => tail = <<>>
  /\ ~session => socket # "open"
  /\ Subscribing => sub.state \in {"none", "gone"}
  /\ \A i \in DOMAIN tail :
       /\ i > 1 => tail[i].stage = "queued" /\ tail[i].kind # "first"
       /\ tail[i].kind # "wake" => sub.state = "live"
       /\ tail[i].kind = "first" => tail[i].from = sub.initial /\ sub.issuedLast = sub.initial
       /\ tail[i].kind = "wake" /\ tail[i].stage # "queued" => tail[i].from = sub.issuedLast
       /\ tail[i].kind = "resync" => tail[i].from \in sub.issued \cup {sub.initial}
       /\ tail[i].kind = "ack" => tail[i].from \in sub.issued /\ tail[i].stage = "queued"

\* The game that was read is not behind what was issued.
ReadsKnown ==
  \A i \in DOMAIN tail : tail[i].stage = "read" =>
    /\ Known(tail[i].head)
    /\ AtOrBefore(sub.issuedLast, tail[i].head)
    /\ AtOrBefore(tail[i].from, tail[i].head)
    /\ \A c \in sub.issued : c.seq <= tail[i].head.seq

\* Every position that is handled is known.
CursorsKnown ==
  /\ \A c \in client.points \cup client.got : Known(c)
  /\ client.base # NoCursor => Known(client.base)
  /\ \A i \in DOMAIN wire : wire[i].type # "gap" => Known(wire[i].cursor)
  /\ sub.state # "none" =>
       \A c \in sub.issued \cup sub.acked \cup {sub.initial, sub.issuedLast, sub.ackedLast} : Known(c)
  /\ frame.stage = "synced" => Known(frame.head)
  /\ frame.stage = "synced" /\ frame.after # NoCursor => AtOrBefore(frame.after, frame.head)
  /\ ReadsKnown

\* What a subscription has issued lies at or after the position it began with.
SubscriptionInv ==
  sub.state # "none" =>
    /\ sub.issuedLast \in sub.issued \cup {sub.initial}
    /\ sub.acked \subseteq sub.issued \cup {sub.initial}
    /\ \A c \in sub.issued : sub.initial.seq <= c.seq

-------------------------------------------------------------------------------
(* What the client holds, and will hold when it has received the wire.     *)

Resets(f, anew) == f.type = "sync" /\ anew

Gives(f, anew) == f.type = "batch" \/ Resets(f, anew)

\* No frame of w after i and up to k lets the client start anew.
KeptTo(w, anew, i, k) == \A j \in (i + 1) .. k : ~ Resets(w[j], anew)

\* The positions a client with those of P has been given once it has received
\* k frames of w.
PointsOf(P, anew, w, k) ==
  {c \in P : KeptTo(w, anew, 0, k)}
    \cup {w[i].cursor : i \in {j \in 1 .. k : Gives(w[j], anew) /\ KeptTo(w, anew, j, k)}}

PointsAt(k) == PointsOf(client.points, client.anew, wire, k)

Ahead == PointsAt(Len(wire))

\* A position between two of P.
Within(p, P) == (\E c \in P : c.seq <= p.seq) /\ (\E d \in P : p.seq <= d.seq)

\* A batch holds the visible events from a position the client will have
\* covered to its cursor.
Continues(f, P) ==
  \E p \in Cursors :
    /\ Within(p, P) /\ p.seq <= f.cursor.seq
    /\ f.events = Visible(p, f.cursor)

Told(b, P) == UNION {Visible(b, c) : c \in P}

ClientInv ==
  /\ client.heard = Told(client.base, client.points)
  /\ client.base = NoCursor <=> client.points = {}
  /\ \A c \in client.points : client.base.seq <= c.seq
  /\ client.points # {} => \E m \in client.points : \A c \in client.points : c.seq <= m.seq

FramesContinue ==
  \A i \in DOMAIN wire : wire[i].type = "batch" => Continues(wire[i], PointsAt(i - 1))

WireInv ==
  /\ FramesContinue
  /\ \A i \in DOMAIN wire : wire[i].type = "sync" =>
       /\ client.got = {} /\ sub.state = "live"
       /\ \A j \in DOMAIN wire : j # i => wire[j].type # "sync"
       /\ client.anew => client.base.seq <= wire[i].cursor.seq
       /\ wire[i].cursor \in sub.issued
       /\ \A j \in DOMAIN wire : j > i /\ wire[j].type = "batch" => wire[j].cursor \in sub.issued
  /\ client.got # {} =>
       /\ sub.state = "live"
       /\ client.got \subseteq sub.issued
       /\ \A j \in DOMAIN wire : wire[j].type = "batch" => wire[j].cursor \in sub.issued
  /\ Subscribing => (frame.after = NoCursor <=> client.anew)
  /\ Subscribing /\ frame.after # NoCursor => frame.after \in client.points
  /\ frame.stage = "synced" => client.base.seq <= frame.head.seq

\* On an open connection all that was issued has been, or is being, told.
Covered ==
  socket = "open" /\ sub.state \in {"live", "closing"} =>
    /\ Within(sub.initial, Ahead)
    /\ Within(sub.issuedLast, Ahead)
    /\ ~HasFirst => \A c \in sub.issued : Within(c, Ahead)

FeedInv ==
  /\ TypeInv /\ QueueInv /\ CursorsKnown /\ SubscriptionInv
  /\ ClientInv /\ WireInv /\ Covered

\* The client's acknowledgements move forward.
AckInv ==
  sub.state = "live" /\ ~AnyAckOrder =>
    /\ \A i \in DOMAIN tail : tail[i].kind = "ack" =>
         tail[i].from = client.acked /\ sub.ackedLast.seq <= client.acked.seq
    /\ \/ sub.ackedLast = sub.initial
       \/ client.acked \in sub.issued /\ sub.ackedLast.seq <= client.acked.seq

-------------------------------------------------------------------------------
(* Groups of a finite set of numbers, in order.                            *)

\* How many elements of E are not beyond i.
RankIn(E, i) == Cardinality({j \in E : j <= i})

\* The ranks of a finite set of numbers are 1, 2, ... in its order.
LEMMA Ranks ==
  ASSUME NEW E \in SUBSET Int, IsFiniteSet(E)
  PROVE  /\ Cardinality(E) \in Nat
         /\ \A i \in E : RankIn(E, i) \in 1 .. Cardinality(E)
         /\ \A i, j \in E : i < j => RankIn(E, i) < RankIn(E, j)
         /\ \A r \in 1 .. Cardinality(E) : \E i \in E : RankIn(E, i) = r
<1> DEFINE Upto(i) == {j \in E : j <= i}
           N == Cardinality(E)
           f == [i \in E |-> RankIn(E, i)]
<1>1. N \in Nat
  BY FS_CardinalityType
<1>2. \A i : /\ Upto(i) \in SUBSET E /\ IsFiniteSet(Upto(i))
             /\ Cardinality(Upto(i)) \in Nat /\ Cardinality(Upto(i)) <= N
  <2> TAKE i
  <2>1. Upto(i) \in SUBSET E
    OBVIOUS
  <2> HIDE DEF Upto
  <2> QED BY <2>1, FS_Subset, FS_CardinalityType
<1>3. \A i \in E : RankIn(E, i) \in 1 .. N
  <2> TAKE i \in E
  <2>1. i \in Upto(i)
    OBVIOUS
  <2>2. Cardinality(Upto(i)) # 0
    BY <1>2, <2>1, FS_EmptySet
  <2>3. RankIn(E, i) = Cardinality(Upto(i))
    BY DEF RankIn
  <2>4. Cardinality(Upto(i)) \in Nat /\ Cardinality(Upto(i)) <= N
    BY <1>2
  <2> HIDE DEF Upto, N
  <2> QED BY <1>1, <2>2, <2>3, <2>4
<1>4. \A i, j \in E : i < j => RankIn(E, i) < RankIn(E, j)
  <2> SUFFICES ASSUME NEW i \in E, NEW j \in E, i < j
               PROVE  Cardinality(Upto(i)) < Cardinality(Upto(j))
    BY DEF RankIn
  <2>0. i \in Int /\ j \in Int /\ \A x \in E : x \in Int
    OBVIOUS
  <2>1. Upto(i) \subseteq Upto(j) /\ j \in Upto(j) /\ j \notin Upto(i)
    <3>1. \A x \in E : x <= i => x <= j
      BY <2>0
    <3>2. j <= j /\ ~ (j <= i)
      BY <2>0
    <3> QED BY <3>1, <3>2
  <2> HIDE DEF Upto
  <2>2. Cardinality(Upto(i)) <= Cardinality(Upto(j)) /\ Cardinality(Upto(i)) # Cardinality(Upto(j))
    BY <1>2, <2>1, FS_Subset
  <2> QED BY <1>2, <2>2
<1>5. f \in Injection(E, 1 .. N)
  <2>1. f \in [E -> 1 .. N]
    BY <1>3
  <2>2. \A i, j \in E : f[i] = f[j] => i = j
    <3> SUFFICES ASSUME NEW i \in E, NEW j \in E, f[i] = f[j] PROVE i = j
      OBVIOUS
    <3>1. RankIn(E, i) = RankIn(E, j) /\ RankIn(E, i) \in Int /\ i \in Int /\ j \in Int
      BY <1>3
    <3>2. ~ (i < j) /\ ~ (j < i)
      BY <1>3, <1>4, <3>1
    <3> QED BY <3>1, <3>2
  <2> HIDE DEF f
  <2> QED BY <2>1, <2>2 DEF Injection, IsInjective
<1>6. IsFiniteSet(1 .. N) /\ Cardinality(1 .. N) = N
  BY <1>1, FS_Interval
<1>7. f \in Surjection(E, 1 .. N)
  <2> HIDE DEF f
  <2> QED BY <1>5, <1>6, FS_Injection
<1>8. \A r \in 1 .. N : \E i \in E : RankIn(E, i) = r
  <2>1. \A r \in 1 .. N : \E i \in E : f[i] = r
    <3> HIDE DEF f
    <3> QED BY <1>7 DEF Surjection
  <2> QED BY <2>1
<1> QED BY <1>1, <1>3, <1>4, <1>8

\* A non-empty finite set of numbers has a last element.
LEMMA LastExists ==
  ASSUME NEW E \in SUBSET Int, IsFiniteSet(E), E # {}
  PROVE  \E m \in E : \A j \in E : j <= m
<1>1. Cardinality(E) \in Nat /\ Cardinality(E) # 0
  BY FS_CardinalityType, FS_EmptySet
<1>2. PICK m \in E : RankIn(E, m) = Cardinality(E)
  BY <1>1, Ranks
<1>3. \A j \in E : j \in Int /\ RankIn(E, j) \in 1 .. Cardinality(E)
  BY Ranks
<1>4. \A j \in E : ~ (m < j)
  BY <1>1, <1>2, <1>3, Ranks
<1> QED BY <1>3, <1>4

\* The quotient of a division, bounded by products.
LEMMA Quotient ==
  ASSUME NEW b \in Nat \ {0}, NEW x \in Nat
  PROVE  /\ x \div b \in Nat
         /\ b * (x \div b) <= x
         /\ x < b * (x \div b) + b
OBVIOUS

\* A product decides a quotient.
LEMMA QuotientIs ==
  ASSUME NEW b \in Nat \ {0}, NEW x \in Nat, NEW k \in Nat, b * k <= x, x < b * k + b
  PROVE  x \div b = k
BY Quotient

\* The batch of an element of E.
GroupIn(E, i) == (RankIn(E, i) + BatchSize - 1) \div BatchSize

GroupCount(E) == (Cardinality(E) + BatchSize - 1) \div BatchSize

\* The batches cut E into intervals, none of them empty.
LEMMA Groups ==
  ASSUME NEW E \in SUBSET Int, IsFiniteSet(E), E # {}
  PROVE  /\ GroupCount(E) \in Nat \ {0}
         /\ \A i \in E : GroupIn(E, i) \in 1 .. GroupCount(E)
         /\ \A i, j \in E : i <= j => GroupIn(E, i) <= GroupIn(E, j)
         /\ \A k \in 1 .. GroupCount(E) : \E i \in E : GroupIn(E, i) = k
<1> DEFINE N == Cardinality(E)
           b == BatchSize
           Q(r) == (r + b - 1) \div b
<1>1. b \in Nat \ {0} /\ N \in Nat /\ N # 0
  BY FS_CardinalityType, FS_EmptySet
<1>2. /\ \A i \in E : RankIn(E, i) \in 1 .. N
      /\ \A i, j \in E : i < j => RankIn(E, i) < RankIn(E, j)
      /\ \A r \in 1 .. N : \E i \in E : RankIn(E, i) = r
  BY Ranks
<1> HIDE DEF N, b
<1>3. ASSUME NEW r \in Nat \ {0}
      PROVE  Q(r) \in Nat \ {0} /\ b * Q(r) <= r + b - 1 /\ r <= b * Q(r)
  <2> DEFINE q == Q(r)
  <2>1. r + b - 1 \in Nat /\ r + b - 1 >= b
    BY <1>1
  <2>2. q \in Nat /\ b * q <= r + b - 1 /\ r + b - 1 < b * q + b
    BY <1>1, <2>1, Quotient
  <2> HIDE DEF q
  <2>3. q # 0
    BY <1>1, <2>1, <2>2
  <2> QED BY <1>1, <2>2, <2>3 DEF q
<1>4. ASSUME NEW r \in Nat \ {0}, NEW s \in Nat \ {0}, r <= s
      PROVE  Q(r) <= Q(s)
  <2> DEFINE x == Q(r)
             y == Q(s)
  <2>1. x \in Nat /\ b * x <= r + b - 1
    BY <1>3
  <2>0. y \in Nat /\ s <= b * y
    BY <1>3
  <2> HIDE DEF x, y
  <2>2. b * x < b * (y + 1)
    BY <1>1, <1>4, <2>0, <2>1
  <2>3. ~ (y + 1 <= x)
    BY <1>1, <2>0, <2>1, <2>2
  <2>4. x <= y
    BY <2>0, <2>1, <2>3
  <2> QED BY <2>4 DEF x, y
<1>5. GroupCount(E) = Q(N) /\ Q(N) \in Nat \ {0}
  BY <1>1, <1>3 DEF GroupCount, N, b
<1>6. \A i \in E : GroupIn(E, i) = Q(RankIn(E, i)) /\ RankIn(E, i) \in Nat \ {0} /\ RankIn(E, i) <= N
  BY <1>1, <1>2 DEF GroupIn, b
<1>7. \A i \in E : GroupIn(E, i) \in 1 .. GroupCount(E)
  <2> TAKE i \in E
  <2>1. GroupIn(E, i) = Q(RankIn(E, i)) /\ Q(RankIn(E, i)) \in Nat \ {0}
    BY <1>3, <1>6
  <2>2. Q(RankIn(E, i)) <= Q(N)
    BY <1>1, <1>4, <1>6
  <2> HIDE DEF Q
  <2> QED BY <1>5, <2>1, <2>2
<1>8. \A i, j \in E : i <= j => GroupIn(E, i) <= GroupIn(E, j)
  <2> SUFFICES ASSUME NEW i \in E, NEW j \in E, i <= j PROVE GroupIn(E, i) <= GroupIn(E, j)
    OBVIOUS
  <2>1. i \in Int /\ j \in Int
    OBVIOUS
  <2>2. RankIn(E, i) <= RankIn(E, j)
    BY <1>2, <1>6, <2>1
  <2> QED BY <1>4, <1>6, <2>2
<1>9. ASSUME NEW k \in 1 .. GroupCount(E)
      PROVE  \E i \in E : GroupIn(E, i) = k
  <2> DEFINE r == b * (k - 1) + 1
  <2>1. k \in Nat /\ k - 1 \in Nat /\ k <= Q(N)
    BY <1>5
  <2>2. b * k <= b * Q(N)
    <3> HIDE DEF Q
    <3> QED BY <1>1, <1>5, <2>1
  <2>3. b * k = b * (k - 1) + b /\ b * (k - 1) \in Nat
    BY <1>1, <2>1
  <2>4. r \in 1 .. N
    BY <1>1, <1>3, <1>5, <2>1, <2>2, <2>3
  <2>5. r + b - 1 = b * k
    BY <1>1, <2>3
  <2>6. Q(r) = k
    <3>1. r + b - 1 \in Nat /\ b * k <= r + b - 1 /\ r + b - 1 < b * k + b
      BY <1>1, <2>3, <2>4, <2>5
    <3> QED BY <1>1, <2>1, <3>1, QuotientIs
  <2>7. PICK i \in E : RankIn(E, i) = r
    BY <1>2, <2>4
  <2> QED BY <1>6, <2>6, <2>7
<1> QED BY <1>5, <1>7, <1>8, <1>9

\* The position a batch starts from: the feed's, or the previous batch's.
StartOf(batches, from, k) == IF k = 1 THEN from ELSE batches[k - 1].cursor

\* sendFeed's batches follow one another from the first position to the last:
\* each holds what lies between its predecessor's cursor and its own.
LEMMA BatchesFollow ==
  ASSUME NEW from \in [seq : Nat, ver : Int], NEW head \in [seq : Nat, ver : Int],
         from.seq <= head.seq
  PROVE  LET batches == Batches(from, head)
             n == Len(batches)
         IN  /\ n \in Nat \ {0} /\ DOMAIN batches = 1 .. n
             /\ batches = [k \in 1 .. n |-> batches[k]]
             /\ batches[n].cursor = head
             /\ \A k \in 1 .. n :
                  /\ batches[k] = Batch(batches[k].cursor, batches[k].events)
                  /\ batches[k].events = Visible(StartOf(batches, from, k), batches[k].cursor)
                  /\ StartOf(batches, from, k).seq <= batches[k].cursor.seq
                  /\ from.seq <= batches[k].cursor.seq
                  /\ batches[k].cursor.seq <= head.seq
                  /\ \/ batches[k].cursor = head
                     \/ /\ batches[k].cursor.seq \in Visible(from, head)
                        /\ batches[k].cursor.ver = log[batches[k].cursor.seq].ver
                        /\ batches[k].cursor = [seq |-> batches[k].cursor.seq,
                                                ver |-> batches[k].cursor.ver]
<1> DEFINE E == Visible(from, head)
           n == GroupCount(E)
           Group(k) == {i \in E : GroupIn(E, i) = k}
           Last(k) == CHOOSE i \in Group(k) : \A j \in Group(k) : j <= i
           CursorOf(k) == [seq |-> Last(k), ver |-> log[Last(k)].ver]
           F == [k \in 1 .. n |-> Batch(IF k = n THEN head ELSE CursorOf(k), Group(k))]
           B == Batches(from, head)
<1>1. E \in SUBSET Int /\ IsFiniteSet(E) /\ \A i \in E : i \in Nat /\ from.seq < i /\ i <= head.seq
  <2>1. E \subseteq (from.seq + 1) .. head.seq
    BY DEF Visible
  <2>2. IsFiniteSet((from.seq + 1) .. head.seq)
    BY FS_Interval
  <2> QED BY <2>1, <2>2, FS_Subset
<1>2. CASE E = {}
  <2>1. B = <<Batch(head, {})>>
    BY <1>2 DEF Batches
  <2>2. Len(B) = 1 /\ DOMAIN B = 1 .. 1 /\ B[1] = Batch(head, {})
    BY <2>1
  <2>3. B[1].cursor = head /\ B[1].events = {}
    BY <2>2 DEF Batch
  <2>4. \A k \in 1 .. 1 : k = 1
    OBVIOUS
  <2>5. Visible(from, head) = {}
    BY <1>2
  <2>6. StartOf(B, from, 1) = from
    BY DEF StartOf
  <2>7. Len(B) \in Nat \ {0} /\ B[Len(B)].cursor = head
    BY <2>2, <2>3
  <2>9. B = [k \in 1 .. Len(B) |-> B[k]]
    BY <2>1, <2>2
  <2> HIDE DEF B
  <2>8. ASSUME NEW k \in 1 .. Len(B)
        PROVE  /\ B[k] = Batch(B[k].cursor, B[k].events)
               /\ B[k].events = Visible(StartOf(B, from, k), B[k].cursor)
               /\ StartOf(B, from, k).seq <= B[k].cursor.seq
               /\ from.seq <= B[k].cursor.seq
               /\ B[k].cursor.seq <= head.seq
               /\ B[k].cursor = head
    <3>1. k = 1
      BY <2>2
    <3>2. head.seq \in Int /\ from.seq \in Int /\ B[k].cursor = head /\ B[k].events = {}
      BY <2>3, <3>1
    <3>3. B[k] = Batch(B[k].cursor, B[k].events)
      BY <2>2, <3>1, <3>2
    <3>4. StartOf(B, from, k) = from
      BY <2>6, <3>1
    <3>5. B[k].events = Visible(StartOf(B, from, k), B[k].cursor)
      BY <2>5, <3>2, <3>4
    <3>6. StartOf(B, from, k).seq <= B[k].cursor.seq /\ from.seq <= B[k].cursor.seq
      BY <3>2, <3>4
    <3>7. B[k].cursor.seq <= head.seq
      BY <3>2
    <3> QED BY <3>2, <3>3, <3>5, <3>6, <3>7
  <2> QED BY <2>2, <2>7, <2>8, <2>9 DEF B
<1>3. CASE E # {}
  <2>1. B = F
    BY <1>3 DEF Batches, GroupIn, GroupCount, RankIn
  <2> HIDE DEF B
  <2>2. /\ n \in Nat \ {0}
        /\ \A i \in E : GroupIn(E, i) \in 1 .. n
        /\ \A i, j \in E : i <= j => GroupIn(E, i) <= GroupIn(E, j)
        /\ \A k \in 1 .. n : Group(k) # {}
    BY <1>1, <1>3, Groups
  <2>3. \A k \in 1 .. n : /\ Last(k) \in Group(k) /\ \A j \in Group(k) : j <= Last(k)
    <3> TAKE k \in 1 .. n
    <3>1. Group(k) \in SUBSET Int /\ IsFiniteSet(Group(k)) /\ Group(k) # {}
      BY <1>1, <2>2, FS_Subset
    <3> HIDE DEF Group
    <3>2. \E i \in Group(k) : \A j \in Group(k) : j <= i
      BY <3>1, LastExists
    <3> QED BY <3>2
  <2> HIDE DEF n, Last
  <2>4. /\ Len(B) = n /\ DOMAIN B = 1 .. n
        /\ \A k \in 1 .. n : /\ B[k].cursor = IF k = n THEN head ELSE CursorOf(k)
                             /\ B[k].events = Group(k)
                             /\ B[k] = Batch(B[k].cursor, B[k].events)
    <3>1. \A k \in 1 .. n : B[k] = Batch(IF k = n THEN head ELSE CursorOf(k), Group(k))
      BY <2>1
    <3>2. DOMAIN B = 1 .. n
      BY <2>1
    <3>3. Len(B) = n
      BY <2>1, <2>2
    <3> QED BY <3>1, <3>2, <3>3 DEF Batch
  <2>5. ASSUME NEW k \in 1 .. n
        PROVE  /\ B[k].events = Visible(StartOf(B, from, k), B[k].cursor)
               /\ StartOf(B, from, k).seq <= B[k].cursor.seq
               /\ from.seq <= B[k].cursor.seq
               /\ B[k].cursor.seq <= head.seq
               /\ \/ B[k].cursor = head
                  \/ /\ B[k].cursor.seq \in Visible(from, head)
                     /\ B[k].cursor.ver = log[B[k].cursor.seq].ver
                     /\ B[k].cursor = [seq |-> B[k].cursor.seq, ver |-> B[k].cursor.ver]
    <3> DEFINE s == StartOf(B, from, k).seq
               c == B[k].cursor.seq
    <3>1. /\ B[k].cursor = IF k = n THEN head ELSE CursorOf(k)
          /\ c = IF k = n THEN head.seq ELSE Last(k)
          /\ s = IF k = 1 THEN from.seq ELSE Last(k - 1)
      <4>1. B[k].cursor = IF k = n THEN head ELSE CursorOf(k)
        BY <2>4
      <4>2. CursorOf(k).seq = Last(k)
        OBVIOUS
      <4>3. k # 1 => k - 1 \in 1 .. n /\ k - 1 # n
        BY <2>2
      <4>4. k # 1 => B[k - 1].cursor = CursorOf(k - 1)
        BY <2>4, <4>3
      <4>5. CursorOf(k - 1).seq = Last(k - 1)
        OBVIOUS
      <4>6. s = IF k = 1 THEN from.seq ELSE Last(k - 1)
        BY <4>4, <4>5 DEF StartOf
      <4> QED BY <4>1, <4>2, <4>6
    <3>2. Last(k) \in E /\ GroupIn(E, Last(k)) = k /\ \A i \in E : GroupIn(E, i) = k => i <= Last(k)
      BY <2>3
    <3>3. k # 1 => /\ Last(k - 1) \in E /\ GroupIn(E, Last(k - 1)) = k - 1
                   /\ \A i \in E : GroupIn(E, i) = k - 1 => i <= Last(k - 1)
      BY <2>2, <2>3
    <3>4. \A i \in E : i \in Nat /\ from.seq < i /\ i <= head.seq /\ GroupIn(E, i) \in 1 .. n
      BY <1>1, <2>2
    <3>5. s \in Nat /\ c \in Nat /\ from.seq <= s /\ from.seq <= c /\ c <= head.seq
      BY <3>1, <3>2, <3>3, <3>4
    <3>6. s <= c
      <4>1. CASE k = 1
        BY <3>1, <3>5, <4>1
      <4>2. CASE k # 1
        <5>1. ~ (Last(k) <= Last(k - 1))
          BY <2>2, <3>2, <3>3, <4>2
        <5> QED BY <3>1, <3>2, <3>3, <3>4, <4>2, <5>1
      <4> QED BY <4>1, <4>2
    <3>7. ASSUME NEW i \in E PROVE GroupIn(E, i) = k <=> s < i /\ i <= c
      <4>1. i \in Nat /\ from.seq < i /\ i <= head.seq /\ GroupIn(E, i) \in 1 .. n
        BY <3>4
      <4>2. ASSUME GroupIn(E, i) = k PROVE s < i
        <5>1. CASE k = 1
          BY <3>1, <4>1, <5>1
        <5>2. CASE k # 1
          <6>1. ~ (i <= Last(k - 1))
            BY <2>2, <3>3, <4>2, <5>2
          <6>2. Last(k - 1) \in Nat /\ s = Last(k - 1)
            BY <3>1, <3>3, <3>4, <5>2
          <6> QED BY <4>1, <6>1, <6>2
        <5> QED BY <5>1, <5>2
      <4>3. ASSUME GroupIn(E, i) = k PROVE i <= c
        BY <3>1, <3>2, <4>1, <4>3
      <4>4. ASSUME s < i, i <= c PROVE GroupIn(E, i) = k
        <5>1. GroupIn(E, i) <= k
          <6>1. CASE k = n
            BY <2>2, <4>1, <6>1
          <6>2. CASE k # n
            BY <2>2, <3>1, <3>2, <4>4, <6>2
          <6> QED BY <6>1, <6>2
        <5>2. GroupIn(E, i) >= k
          <6>1. CASE k = 1
            BY <4>1, <6>1
          <6>2. CASE k # 1
            <7>1. Last(k - 1) <= i /\ ~ (i <= Last(k - 1))
              <8>1. Last(k - 1) \in Nat /\ s = Last(k - 1)
                BY <3>1, <3>3, <3>4, <6>2
              <8> QED BY <4>1, <4>4, <8>1
            <7>2. k - 1 <= GroupIn(E, i) /\ GroupIn(E, i) # k - 1
              BY <2>2, <3>3, <6>2, <7>1
            <7> QED BY <2>2, <4>1, <7>2
          <6> QED BY <6>1, <6>2
        <5> QED BY <2>2, <4>1, <5>1, <5>2
      <4> QED BY <4>2, <4>3, <4>4
    <3>8. B[k].events = Visible(StartOf(B, from, k), B[k].cursor)
      <4>1. B[k].events = {i \in E : GroupIn(E, i) = k}
        BY <2>4
      <4>2. B[k].events = {i \in E : s < i /\ i <= c}
        BY <3>7, <4>1
      <4>3. E = {i \in (from.seq + 1) .. head.seq : log[i].vis}
        BY DEF Visible
      <4>4. Visible(StartOf(B, from, k), B[k].cursor) = {i \in (s + 1) .. c : log[i].vis}
        BY DEF Visible
      <4> HIDE DEF s, c, E
      <4>5. {i \in E : s < i /\ i <= c} = {i \in (s + 1) .. c : log[i].vis}
        BY <3>5, <4>3
      <4> QED BY <4>2, <4>4, <4>5
    <3>9. \/ B[k].cursor = head
          \/ /\ B[k].cursor.seq \in Visible(from, head)
             /\ B[k].cursor.ver = log[B[k].cursor.seq].ver
             /\ B[k].cursor = [seq |-> B[k].cursor.seq, ver |-> B[k].cursor.ver]
      BY <3>1, <3>2
    <3> QED BY <3>5, <3>6, <3>8, <3>9
  <2>6. B[n].cursor = head
    <3>1. n \in 1 .. n
      BY <2>2
    <3> QED BY <2>4, <3>1
  <2>7. B = [k \in 1 .. Len(B) |-> B[k]]
    BY <2>1, <2>4
  <2> QED BY <2>2, <2>4, <2>5, <2>6, <2>7 DEF B
<1> QED BY <1>2, <1>3

-------------------------------------------------------------------------------
(* The game only grows.                                                    *)

\* What was in the log stays, and an override stays counted.
LogExtends ==
  /\ Len(log) <= Len(log')
  /\ \A i \in 1 .. Len(log) : log'[i] = log[i]
  /\ version <= version'
  /\ spent'.overrides = 0 => spent.overrides = 0

\* What the types say of the log, the version and the bounds.
LEMMA LogFacts ==
  ASSUME GameOK
  PROVE  /\ log \in Seq(Events) /\ Len(log) \in 1 .. MaxEvents /\ Len(log) \in Nat
         /\ DOMAIN log = 1 .. Len(log)
         /\ version \in Nat /\ spent.overrides \in Nat
         /\ \A i \in 1 .. Len(log) : log[i].ver \in Nat /\ log[i].ver <= version
         /\ \A i, j \in 1 .. Len(log) : i <= j => log[i].ver <= log[j].ver
         /\ version <= MaxEvents + MaxOverrides
<1>1. log \in Seq(Events) /\ Len(log) \in 1 .. MaxEvents /\ Len(log) \in Nat /\ version \in Nat
  BY DEF GameOK
<1>2. DOMAIN log = 1 .. Len(log)
  BY <1>1
<1>3. spent.overrides \in Nat
  <2>1. spent \in Budgets
    BY DEF GameOK
  <2> QED BY <2>1 DEF Budgets
<1>4. \A i \in 1 .. Len(log) : log[i].ver \in Nat
  <2>1. \A i \in 1 .. Len(log) : log[i] \in Events
    BY <1>1, ElementOfSeq
  <2> QED BY <2>1 DEF Events
<1>5. \A i, j \in 1 .. Len(log) : i <= j => log[i].ver <= log[j].ver
  BY <1>2 DEF GameOK, LogGrows
<1>6. \A i \in 1 .. Len(log) : log[i].ver <= version
  <2> TAKE i \in 1 .. Len(log)
  <2>1. Len(log) \in 1 .. Len(log) /\ i <= Len(log)
    BY <1>1
  <2>2. log[Len(log)].ver <= version
    BY DEF GameOK, LogGrows
  <2>3. log[i].ver <= log[Len(log)].ver
    BY <1>5, <2>1
  <2> QED BY <1>1, <1>4, <2>1, <2>2, <2>3
<1>7. version <= MaxEvents + MaxOverrides
  <2>1. version <= Len(log) + spent.overrides /\ spent.overrides <= MaxOverrides
    BY DEF GameOK, LogGrows
  <2> QED BY <1>1, <1>3, <2>1
<1> QED BY <1>1, <1>2, <1>3, <1>4, <1>5, <1>6, <1>7

\* A step of one of the bounds.
LEMMA Spending ==
  ASSUME spent \in Budgets,
         NEW what \in {"overrides", "resends", "outages", "connections", "requests", "faults"},
         spent' = [spent EXCEPT ![what] = @ + 1]
  PROVE  /\ spent' \in Budgets
         /\ what = "overrides" => spent'.overrides = spent.overrides + 1
         /\ what # "overrides" => spent'.overrides = spent.overrides
<1> DEFINE Fields == {"overrides", "resends", "outages", "connections", "requests", "faults"}
<1>1. spent = [f \in Fields |-> spent[f]] /\ \A f \in Fields : spent[f] \in Nat
  BY DEF Budgets
<1>2. /\ \A f \in Fields : spent'[f] = IF f = what THEN spent[f] + 1 ELSE spent[f]
      /\ spent' = [f \in Fields |-> spent'[f]]
  BY <1>1
<1>3. \A f \in Fields : spent'[f] \in Nat
  <2> TAKE f \in Fields
  <2>1. spent[f] \in Nat /\ spent'[f] = IF f = what THEN spent[f] + 1 ELSE spent[f]
    BY <1>1, <1>2
  <2> HIDE DEF Fields
  <2> QED BY <2>1
<1>4. spent' \in Budgets
  <2>1. /\ spent'.overrides \in Nat /\ spent'.resends \in Nat /\ spent'.outages \in Nat
        /\ spent'.connections \in Nat /\ spent'.requests \in Nat /\ spent'.faults \in Nat
    BY <1>3
  <2>2. spent' = [overrides |-> spent'.overrides, resends |-> spent'.resends,
                  outages |-> spent'.outages, connections |-> spent'.connections,
                  requests |-> spent'.requests, faults |-> spent'.faults]
    BY <1>2
  <2> QED BY <2>1, <2>2 DEF Budgets
<1> QED BY <1>2, <1>4

\* A committed transition extends the log.
LEMMA CommitExtends ==
  ASSUME GameOK, Commit
  PROVE  GameOK' /\ LogExtends
<1>1. PICK shape \in CommitShapes :
        /\ Len(log) + Len(shape) <= MaxEvents
        /\ log' = log \o [k \in DOMAIN shape |-> [ver |-> version + 1, vis |-> shape[k]]]
  BY DEF Commit
<1> DEFINE new == [k \in DOMAIN shape |-> [ver |-> version + 1, vis |-> shape[k]]]
           n == Len(log)
           m == Len(shape)
<1>2. /\ log \in Seq(Events) /\ n \in 1 .. MaxEvents /\ version \in Nat /\ sent \in 0 .. version
      /\ spent \in Budgets
      /\ \A i, j \in 1 .. n : i <= j => log[i].ver <= log[j].ver
      /\ log[n].ver <= version
      /\ version <= n + spent.overrides /\ spent.overrides <= MaxOverrides
      /\ \A i \in 1 .. n : log[i].ver \in Nat /\ log[i].ver <= version
  BY LogFacts DEF GameOK, LogGrows
<1>3. shape \in Seq(BOOLEAN) /\ m \in Nat \ {0} /\ DOMAIN shape = 1 .. m
  BY <1>1, SizesAssumption DEF SizesAssumption
<1>4. new \in Seq(Events) /\ Len(new) = m /\ \A k \in 1 .. m : new[k].ver = version + 1
  <2>1. \A k \in 1 .. m : shape[k] \in BOOLEAN
    BY <1>3
  <2>2. \A k \in 1 .. m : [ver |-> version + 1, vis |-> shape[k]] \in Events
    BY <1>2, <2>1 DEF Events
  <2> QED BY <1>3, <2>2
<1> HIDE DEF new, m
<1>5. /\ log' \in Seq(Events) /\ Len(log') = n + m
      /\ \A i \in 1 .. n : log'[i] = log[i]
      /\ \A i \in 1 .. m : log'[n + i] = new[i]
  BY <1>1, <1>2, <1>4 DEF new
<1>6. version' = version + 1 /\ UNCHANGED <<sent, listener, notes, spent>> /\ n + m <= MaxEvents
  BY <1>1 DEF Commit, fanout, m
<1> HIDE DEF n
<1>7. \A i \in 1 .. Len(log') : \/ i \in 1 .. n /\ log'[i] = log[i]
                                \/ i \notin 1 .. n /\ log'[i].ver = version + 1
  <2> TAKE i \in 1 .. Len(log')
  <2>1. CASE i \in 1 .. n
    BY <1>5, <2>1
  <2>2. CASE i \notin 1 .. n
    <3>1. i - n \in 1 .. m /\ n + (i - n) = i
      BY <1>2, <1>3, <1>5, <2>2
    <3>2. log'[n + (i - n)] = new[i - n] /\ new[i - n].ver = version + 1
      BY <1>4, <1>5, <3>1
    <3> QED BY <2>2, <3>1, <3>2
  <2> QED BY <2>1, <2>2
<1>8. \A i, j \in 1 .. Len(log') : i <= j => log'[i].ver <= log'[j].ver
  <2> SUFFICES ASSUME NEW i \in 1 .. Len(log'), NEW j \in 1 .. Len(log'), i <= j
               PROVE  log'[i].ver <= log'[j].ver
    OBVIOUS
  <2>1. \A k \in 1 .. n : log[k].ver <= version /\ log[k].ver \in Nat
    BY <1>2
  <2>0. n \in Nat /\ Len(log') \in Nat /\ version \in Nat
    BY <1>2, <1>3, <1>5
  <2>2. CASE j \in 1 .. n
    <3>1. i \in 1 .. n
      BY <2>0, <2>2
    <3> QED BY <1>2, <1>7, <2>2, <3>1
  <2>3. CASE j \notin 1 .. n
    <3>1. log'[j].ver = version + 1
      BY <1>7, <2>3
    <3>2. log'[i].ver = version + 1 \/ (log'[i].ver \in Nat /\ log'[i].ver <= version)
      <4>1. CASE i \in 1 .. n
        BY <1>7, <2>1, <4>1
      <4>2. CASE i \notin 1 .. n
        BY <1>7, <4>2
      <4> QED BY <4>1, <4>2
    <3> QED BY <2>0, <3>1, <3>2
  <2> QED BY <2>2, <2>3
<1>9. log'[Len(log')].ver = version + 1
  <2>1. Len(log') \in 1 .. Len(log') /\ Len(log') \notin 1 .. n
    BY <1>2, <1>3, <1>5
  <2> QED BY <1>7, <2>1
<1>10. LogGrows'
  <2>1. DOMAIN (log') = 1 .. Len(log')
    BY <1>5, LenProperties
  <2>2. version' <= Len(log') + spent'.overrides /\ spent'.overrides <= MaxOverrides
    <3>1. spent.overrides \in Nat /\ n \in Nat /\ version \in Nat
      BY <1>2, LogFacts
    <3>2. version <= n + spent.overrides /\ spent.overrides <= MaxOverrides
      BY <1>2
    <3>3. version' = version + 1 /\ spent' = spent /\ Len(log') = n + m /\ m \in Nat \ {0}
      BY <1>3, <1>5, <1>6
    <3> QED BY <3>1, <3>2, <3>3
  <2>3. \A i, j \in DOMAIN (log') : i <= j => log'[i].ver <= log'[j].ver
    BY <1>8, <2>1
  <2>4. /\ log'[Len(log')].ver <= version'
        /\ spent'.overrides = 0 => log'[Len(log')].ver = version'
    <3>1. version + 1 <= version + 1
      BY <1>2
    <3> QED BY <1>6, <1>9, <3>1
  <2> QED BY <2>2, <2>3, <2>4 DEF LogGrows
<1>11. GameOK'
  <2>1. version' \in Nat /\ sent' \in 0 .. version'
    BY <1>2, <1>6
  <2>2. Len(log') \in 1 .. MaxEvents
    BY <1>2, <1>3, <1>5, <1>6
  <2>3. listener' \in [up : BOOLEAN, last : Nat] /\ notes' \in Seq(Nat) /\ spent' \in Budgets
    BY <1>6 DEF GameOK
  <2> QED BY <1>5, <1>10, <2>1, <2>2, <2>3 DEF GameOK
<1> QED BY <1>2, <1>3, <1>5, <1>6, <1>11 DEF LogExtends, n

\* A step that leaves log and version alone, or moves the version with an
\* override, keeps the game in order.
LEMMA GameKept ==
  ASSUME GameOK, log' = log, spent' \in Budgets,
         \/ version' = version /\ spent'.overrides = spent.overrides
         \/ /\ version' = version + 1 /\ spent'.overrides = spent.overrides + 1
            /\ spent.overrides < MaxOverrides,
         sent' \in 0 .. version', listener' \in [up : BOOLEAN, last : Nat],
         notes' \in Seq(Nat)
  PROVE  GameOK' /\ LogExtends
<1>1. log \in Seq(Events) /\ Len(log) \in 1 .. MaxEvents /\ log[Len(log)].ver \in Nat
      /\ version \in Nat /\ spent.overrides \in Nat /\ MaxOverrides \in Nat
  <2>1. Len(log) \in 1 .. Len(log)
    BY LogFacts
  <2> QED BY <2>1, LogFacts
<1>2. LogGrows'
  <2>1. /\ \A i, j \in DOMAIN log : i <= j => log[i].ver <= log[j].ver
        /\ log[Len(log)].ver <= version
        /\ spent.overrides = 0 => log[Len(log)].ver = version
        /\ version <= Len(log) + spent.overrides
        /\ spent.overrides <= MaxOverrides
    BY DEF GameOK, LogGrows
  <2>2. Len(log) \in Nat
    BY <1>1
  <2>3. CASE version' = version /\ spent'.overrides = spent.overrides
    BY <2>1, <2>3 DEF LogGrows
  <2>4. CASE /\ version' = version + 1 /\ spent'.overrides = spent.overrides + 1
             /\ spent.overrides < MaxOverrides
    <3>1. /\ log[Len(log)].ver <= version'
          /\ spent'.overrides # 0
          /\ version' <= Len(log) + spent'.overrides
          /\ spent'.overrides <= MaxOverrides
      <4>1. spent.overrides < MaxOverrides => spent.overrides + 1 <= MaxOverrides
        BY <1>1
      <4>2. spent.overrides + 1 # 0
        BY <1>1
      <4>3. /\ log[Len(log)].ver <= version + 1
            /\ version + 1 <= Len(log) + (spent.overrides + 1)
        <5>1. log[Len(log)].ver <= version /\ version <= Len(log) + spent.overrides
          BY <2>1
        <5>2. \A v, l, o, e \in Nat : l <= v /\ v <= e + o => l <= v + 1 /\ v + 1 <= e + (o + 1)
          OBVIOUS
        <5> QED BY <1>1, <2>2, <5>1, <5>2
      <4> QED BY <2>4, <4>1, <4>2, <4>3
    <3> QED BY <2>1, <3>1 DEF LogGrows
  <2> QED BY <2>3, <2>4
<1>3. version' \in Nat
  BY <1>1
<1>4. GameOK'
  BY <1>1, <1>2, <1>3 DEF GameOK
<1>5. LogExtends
  <2>1. Len(log) <= Len(log) /\ version <= version' /\ (spent'.overrides = 0 => spent.overrides = 0)
    <3>1. CASE version' = version /\ spent'.overrides = spent.overrides
      BY <1>1, <3>1
    <3>2. CASE version' = version + 1 /\ spent'.overrides = spent.overrides + 1
      <4>1. version <= version + 1 /\ spent.overrides + 1 # 0
        BY <1>1
      <4>2. Len(log) <= Len(log)
        BY <1>1
      <4> QED BY <3>2, <4>1, <4>2
    <3> QED BY <3>1, <3>2
  <2> QED BY <2>1 DEF LogExtends
<1> QED BY <1>4, <1>5

\* Every step keeps the game in order and only extends it.
LEMMA GameStep ==
  ASSUME GameOK, [Next]_vars
  PROVE  GameOK' /\ LogExtends
<1>1. /\ spent \in Budgets /\ sent \in 0 .. version /\ version \in Nat
      /\ listener \in [up : BOOLEAN, last : Nat] /\ notes \in Seq(Nat)
  BY DEF GameOK
<1>2. CASE Commit
  BY <1>2, CommitExtends
<1>3. CASE FacilitatorOverride
  <2>1. spent' = [spent EXCEPT !.overrides = @ + 1] /\ spent.overrides < MaxOverrides
    BY <1>3 DEF FacilitatorOverride, Spend
  <2>2. spent' \in Budgets /\ spent'.overrides = spent.overrides + 1
    BY <1>1, <2>1, Spending
  <2>3. UNCHANGED <<log, sent, listener, notes>> /\ version' = version + 1
    BY <1>3 DEF FacilitatorOverride, fanout
  <2>4. sent' \in 0 .. version'
    BY <1>1, <2>3
  <2> QED BY <1>1, <2>1, <2>2, <2>3, <2>4, GameKept
<1>4. CASE UNCHANGED <<game, spent>> /\ listener' \in [up : BOOLEAN, last : Nat] /\ notes' \in Seq(Nat)
  BY <1>1, <1>4, GameKept DEF game
<1>5. CASE Notify
  <2>1. UNCHANGED <<log, version, listener, spent>> /\ sent' = sent + 1 /\ sent < version
    BY <1>5 DEF Notify
  <2>2. notes' \in Seq(Nat)
    BY <1>1, <1>5 DEF Notify
  <2>3. sent' \in 0 .. version'
    BY <1>1, <2>1
  <2> QED BY <1>1, <2>1, <2>2, <2>3, GameKept
<1>6. ASSUME UNCHANGED <<game, listener>>, notes' \in Seq(Nat),
             \E what \in {"resends", "outages", "connections", "requests", "faults"} :
               spent' = [spent EXCEPT ![what] = @ + 1]
      PROVE  GameOK' /\ LogExtends
  <2>1. spent' \in Budgets /\ spent'.overrides = spent.overrides
    <3>1. PICK what \in {"resends", "outages", "connections", "requests", "faults"} :
            spent' = [spent EXCEPT ![what] = @ + 1]
      BY <1>6
    <3> QED BY <1>1, <3>1, Spending
  <2> QED BY <1>1, <1>6, <2>1, GameKept DEF game
<1>7. CASE NotifyAgain
  <2>1. notes' \in Seq(Nat)
    BY <1>1, <1>7 DEF NotifyAgain
  <2> QED BY <1>6, <1>7, <2>1 DEF NotifyAgain, Spend
<1>8. CASE Disconnected
  <2>1. /\ spent' = [spent EXCEPT !.outages = @ + 1]
        /\ UNCHANGED game /\ notes' = <<>> /\ listener' = [listener EXCEPT !.up = FALSE]
    BY <1>8 DEF Disconnected, Spend
  <2>2. spent' \in Budgets /\ spent'.overrides = spent.overrides
    BY <1>1, <2>1, Spending
  <2>3. listener' \in [up : BOOLEAN, last : Nat] /\ notes' \in Seq(Nat)
    <3>1. <<>> \in Seq(Nat)
      BY EmptySeq
    <3> QED BY <1>1, <2>1, <3>1
  <2> QED BY <1>1, <2>1, <2>2, <2>3, GameKept DEF game
<1>9. CASE Notification
  <2>1. notes' \in Seq(Nat)
    BY <1>1, <1>9, HeadTailProperties DEF Notification
  <2>2. Head(notes) \in Nat
    BY <1>1, <1>9, HeadTailProperties DEF Notification
  <2>3. listener' \in [up : BOOLEAN, last : Nat]
    BY <1>1, <1>9, <2>2 DEF Notification
  <2> QED BY <1>4, <1>9, <2>1, <2>3 DEF Notification
<1>10. CASE Reconnect
  BY <1>1, <1>4, <1>10 DEF Reconnect
<1>11. CASE UNCHANGED <<game, fanout, spent>>
  BY <1>1, <1>4, <1>11 DEF fanout
<1>12. CASE UNCHANGED <<game, fanout>> /\ \E what \in {"resends", "outages", "connections", "requests", "faults"} :
               spent' = [spent EXCEPT ![what] = @ + 1]
  BY <1>1, <1>6, <1>12 DEF fanout
<1>13. CASE Deliver
  BY <1>11, <1>13 DEF Deliver, DeliverySkipped, DeliveryRefused, DeliveryStarts, ReadFeed,
                      CursorRefused, SendFeed, Acknowledge
<1>14. CASE Handle
  BY <1>11, <1>14 DEF Handle, SubscribeReads, Subscribed, UnsubscribeDone
<1>15. CASE SubscribeFails \/ ReadFails \/ Connect \/ AckFrame \/ ResyncFrame \/ UnsubscribeFrame
  BY <1>12, <1>15 DEF SubscribeFails, ReadFails, Connect, AckFrame, ResyncFrame, UnsubscribeFrame,
                      MaySend, Spend
<1>16. CASE ConnectionLost \/ SessionInvalidated \/ SubscribeFrame \/ CatchUp \/ Receive \/ UNCHANGED vars
  BY <1>11, <1>16 DEF ConnectionLost, SessionInvalidated, SubscribeFrame, CatchUp, Receive, vars,
                      game, fanout
<1> QED BY <1>2, <1>3, <1>5, <1>7, <1>8, <1>9, <1>10, <1>13, <1>14, <1>15, <1>16
        DEF Next, Environment, ClientSends

\* A known position stays known, and what is visible up to it stays the same.
LEMMA Stable ==
  ASSUME GameOK, GameOK', LogExtends
  PROVE  /\ \A c : Known(c) => Known(c)'
         /\ \A a, b \in Positions : b.seq <= Len(log) /\ 0 <= a.seq => Visible(a, b)' = Visible(a, b)
<1>0. Len(log') \in Nat /\ version' \in Nat
  BY DEF GameOK
<1>1. /\ Len(log) \in Nat /\ Len(log') >= Len(log) /\ version \in Nat /\ version' >= version
      /\ \A i \in 1 .. Len(log) : log'[i] = log[i]
      /\ spent'.overrides = 0 => spent.overrides = 0
      /\ \A i \in 1 .. Len(log) : log[i].ver \in Nat
  BY LogFacts DEF LogExtends
<1>2. ASSUME NEW c, Known(c)
      PROVE  Known(c)'
  <2>1. /\ c.seq \in 1 .. Len(log) /\ c.ver \in log[c.seq].ver .. version
        /\ spent.overrides = 0 => c.ver = log[c.seq].ver
    BY <1>2 DEF Known
  <2>2. c.seq \in 1 .. Len(log') /\ log'[c.seq] = log[c.seq] /\ log[c.seq].ver \in Nat
    <3>1. Len(log') \in Int
      BY <1>1, <1>0
    <3> QED BY <1>1, <2>1, <3>1
  <2>3. c.ver \in log'[c.seq].ver .. version'
    BY <1>1, <2>1, <2>2, <1>0
  <2> QED BY <1>1, <2>1, <2>2, <2>3 DEF Known
<1>3. ASSUME NEW a \in Positions, NEW b \in Positions, b.seq <= Len(log), 0 <= a.seq
      PROVE  Visible(a, b)' = Visible(a, b)
  <2>1. \A i \in (a.seq + 1) .. b.seq : log'[i] = log[i]
    <3>1. a.seq \in Int /\ b.seq \in Int
      BY DEF Positions, Cursors, NoCursor
    <3>2. \A i \in (a.seq + 1) .. b.seq : i \in 1 .. Len(log)
      <4>1. Len(log) \in Int /\ b.seq <= Len(log) /\ 0 <= a.seq
        BY <1>1, <1>3
      <4>2. \A x, y, z \in Int : 0 <= x /\ y <= z => \A i \in (x + 1) .. y : i \in 1 .. z
        OBVIOUS
      <4> QED BY <3>1, <4>1, <4>2
    <3> QED BY <1>1, <3>2
  <2> QED BY <2>1 DEF Visible
<1> QED BY <1>2, <1>3

\* A known position is a cursor; its numbers are in range.
LEMMA KnownIsCursor ==
  ASSUME GameOK, NEW c \in Positions, Known(c)
  PROVE  /\ c \in Cursors /\ c # NoCursor
         /\ c.seq \in 1 .. Len(log) /\ c.seq \in Nat /\ c.ver \in Nat /\ c.ver <= version
         /\ log[c.seq].ver <= c.ver
<1>1. c.seq \in 1 .. Len(log) /\ c.ver \in log[c.seq].ver .. version /\ Len(log) \in Nat
  BY LogFacts DEF Known
<1>2. log[c.seq].ver \in Nat /\ version \in Nat
  BY <1>1, LogFacts
<1>3. c # NoCursor
  BY <1>1 DEF NoCursor
<1> QED BY <1>1, <1>2, <1>3 DEF Positions

\* The head of the game is a known position, at or after every other one.
LEMMA HeadKnown ==
  ASSUME GameOK
  PROVE  /\ HeadCursor \in Cursors
         /\ Known(HeadCursor)
         /\ \A c \in Positions : Known(c) => AtOrBefore(c, HeadCursor)
<1>1. /\ Len(log) \in 1 .. MaxEvents /\ Len(log) \in Nat /\ version \in Nat
      /\ version <= MaxEvents + MaxOverrides
      /\ log[Len(log)].ver \in Nat /\ log[Len(log)].ver <= version
      /\ spent.overrides = 0 => log[Len(log)].ver = version
  <2>1. Len(log) \in 1 .. Len(log)
    BY LogFacts
  <2> QED BY <2>1, LogFacts DEF GameOK, LogGrows
<1>2. HeadCursor \in Cursors
  BY <1>1 DEF HeadCursor, Cursors
<1>3. Known(HeadCursor)
  BY <1>1 DEF HeadCursor, Known
<1>4. \A c \in Positions : Known(c) => AtOrBefore(c, HeadCursor)
  BY <1>1, KnownIsCursor DEF HeadCursor, AtOrBefore
<1> QED BY <1>2, <1>3, <1>4

\* Between positions of a feed, visible events add up.
LEMMA VisibleParts ==
  ASSUME NEW a \in Positions, NEW b \in Positions, NEW c \in Positions,
         a.seq <= b.seq, b.seq <= c.seq
  PROVE  Visible(a, c) = Visible(a, b) \cup Visible(b, c)
<1>1. a.seq \in Int /\ b.seq \in Int /\ c.seq \in Int
  BY DEF Positions, Cursors, NoCursor
<1>2. \A i \in Int : i \in (a.seq + 1) .. c.seq <=> i \in (a.seq + 1) .. b.seq \/ i \in (b.seq + 1) .. c.seq
  BY <1>1
<1>3. \A i : i \in (a.seq + 1) .. c.seq \/ i \in (a.seq + 1) .. b.seq \/ i \in (b.seq + 1) .. c.seq => i \in Int
  OBVIOUS
<1> QED BY <1>2, <1>3 DEF Visible

\* Nothing is visible from a position to one that is not after it; more is
\* visible up to a later one.
LEMMA VisibleGrows ==
  ASSUME NEW a \in Positions, NEW b \in Positions, NEW c \in Positions, b.seq <= c.seq
  PROVE  /\ Visible(a, b) \subseteq Visible(a, c)
         /\ Visible(c, b) = {}
<1>1. a.seq \in Int /\ b.seq \in Int /\ c.seq \in Int
  BY DEF Positions, Cursors, NoCursor
<1>2. \A i \in (a.seq + 1) .. b.seq : i \in (a.seq + 1) .. c.seq
  BY <1>1
<1>3. \A i \in (c.seq + 1) .. b.seq : FALSE
  BY <1>1
<1> QED BY <1>2, <1>3 DEF Visible

-------------------------------------------------------------------------------
(* The positions a client has been given, frame after frame.               *)

\* A position is one the client had and kept, or that of a frame since the
\* client last started anew.
LEMMA InPoints ==
  ASSUME NEW P, NEW anew, NEW w, NEW k, NEW p
  PROVE  p \in PointsOf(P, anew, w, k)
           <=> \/ p \in P /\ KeptTo(w, anew, 0, k)
               \/ \E i \in 1 .. k : /\ Gives(w[i], anew) /\ KeptTo(w, anew, i, k)
                                    /\ p = w[i].cursor
BY DEF PointsOf

\* Frames sent later change nothing of what the earlier ones give.
LEMMA PointsAppended ==
  ASSUME NEW P, NEW anew, NEW w, NEW v, NEW n \in Nat,
         \A i \in 1 .. n : v[i] = w[i]
  PROVE  \A k \in 0 .. n : PointsOf(P, anew, v, k) = PointsOf(P, anew, w, k)
<1> TAKE k \in 0 .. n
<1>1. \A i \in 1 .. k : v[i] = w[i]
  OBVIOUS
<1>2. \A i \in 0 .. k : KeptTo(v, anew, i, k) <=> KeptTo(w, anew, i, k)
  <2> TAKE i \in 0 .. k
  <2>1. \A j \in (i + 1) .. k : v[j] = w[j]
    BY <1>1
  <2> QED BY <2>1 DEF KeptTo
<1>3. \A p : p \in PointsOf(P, anew, v, k) <=> p \in PointsOf(P, anew, w, k)
  <2> TAKE p
  <2>1. /\ KeptTo(v, anew, 0, k) <=> KeptTo(w, anew, 0, k)
        /\ \A i \in 1 .. k : /\ KeptTo(v, anew, i, k) <=> KeptTo(w, anew, i, k)
                             /\ v[i] = w[i]
    BY <1>1, <1>2
  <2> QED BY <2>1, InPoints
<1> QED BY <1>3

\* Frames that do not let the client start anew add their positions.
LEMMA PointsKept ==
  ASSUME NEW P, NEW anew, NEW w, NEW m \in Nat, NEW k \in Nat, m <= k,
         KeptTo(w, anew, m, k)
  PROVE  PointsOf(P, anew, w, k) =
           PointsOf(P, anew, w, m)
             \cup {w[i].cursor : i \in {j \in (m + 1) .. k : Gives(w[j], anew)}}
<1>1. \A i \in 0 .. m : KeptTo(w, anew, i, k) <=> KeptTo(w, anew, i, m)
  <2> TAKE i \in 0 .. m
  <2>1. \A j \in Int : j \in (i + 1) .. k <=> j \in (i + 1) .. m \/ j \in (m + 1) .. k
    OBVIOUS
  <2>2. \A j \in (i + 1) .. k : j \in Int
    OBVIOUS
  <2>3. \A j \in (i + 1) .. m : j \in Int
    OBVIOUS
  <2> QED BY <2>1, <2>2, <2>3 DEF KeptTo
<1>2. \A i \in (m + 1) .. k : KeptTo(w, anew, i, k)
  BY DEF KeptTo
<1> DEFINE new == {w[i].cursor : i \in {j \in (m + 1) .. k : Gives(w[j], anew)}}
<1>3. ASSUME NEW p
      PROVE  p \in PointsOf(P, anew, w, k) <=> p \in PointsOf(P, anew, w, m) \/ p \in new
  <2>1. p \in new <=> \E i \in (m + 1) .. k : Gives(w[i], anew) /\ p = w[i].cursor
    OBVIOUS
  <2> HIDE DEF new
  <2>2. ASSUME p \in PointsOf(P, anew, w, k)
        PROVE  p \in PointsOf(P, anew, w, m) \/ p \in new
    <3>1. CASE p \in P /\ KeptTo(w, anew, 0, k)
      BY <1>1, <3>1, InPoints
    <3>2. ASSUME NEW i \in 1 .. k, Gives(w[i], anew), KeptTo(w, anew, i, k), p = w[i].cursor
          PROVE  p \in PointsOf(P, anew, w, m) \/ p \in new
      <4>1. CASE i \in 1 .. m
        <5>1. KeptTo(w, anew, i, m)
          BY <1>1, <3>2, <4>1
        <5> QED BY <3>2, <4>1, <5>1, InPoints
      <4>2. CASE i \in (m + 1) .. k
        BY <2>1, <3>2, <4>2
      <4> QED BY <4>1, <4>2
    <3> QED BY <2>2, <3>1, <3>2, InPoints
  <2>3. ASSUME p \in PointsOf(P, anew, w, m)
        PROVE  p \in PointsOf(P, anew, w, k)
    <3>1. CASE p \in P /\ KeptTo(w, anew, 0, m)
      BY <1>1, <3>1, InPoints
    <3>2. ASSUME NEW i \in 1 .. m, Gives(w[i], anew), KeptTo(w, anew, i, m), p = w[i].cursor
          PROVE  p \in PointsOf(P, anew, w, k)
      <4>1. i \in 1 .. k /\ KeptTo(w, anew, i, k)
        BY <1>1, <3>2
      <4> QED BY <3>2, <4>1, InPoints
    <3> QED BY <2>3, <3>1, <3>2, InPoints
  <2>4. ASSUME p \in new
        PROVE  p \in PointsOf(P, anew, w, k)
    <3>1. PICK i \in (m + 1) .. k : Gives(w[i], anew) /\ p = w[i].cursor
      BY <2>1, <2>4
    <3>2. i \in 1 .. k
      OBVIOUS
    <3> QED BY <1>2, <3>1, <3>2, InPoints
  <2> QED BY <2>2, <2>3, <2>4
<1> HIDE DEF new
<1>4. PointsOf(P, anew, w, k) = PointsOf(P, anew, w, m) \cup new
  BY <1>3
<1> QED BY <1>4 DEF new

\* A frame that lets the client start anew gives its position alone.
LEMMA PointsReset ==
  ASSUME NEW P, NEW anew, NEW w, NEW k \in Nat \ {0}, Resets(w[k], anew)
  PROVE  PointsOf(P, anew, w, k) = {w[k].cursor}
<1>1. \A i \in 0 .. (k - 1) : ~ KeptTo(w, anew, i, k)
  BY DEF KeptTo
<1>2. KeptTo(w, anew, k, k)
  BY DEF KeptTo
<1>3. Gives(w[k], anew) /\ 0 \in 0 .. (k - 1)
  BY DEF Gives
<1>4. \A i \in 1 .. k : i = k \/ i \in 0 .. (k - 1)
  OBVIOUS
<1>5. \A p : p \in PointsOf(P, anew, w, k) <=> p = w[k].cursor
  BY <1>1, <1>2, <1>3, <1>4, InPoints
<1> QED BY <1>5

\* What a client has been given when it has taken the first frame.
AfterFirst(P, anew, f) ==
  CASE Resets(f, anew) -> {f.cursor}
    [] f.type = "batch" -> P \cup {f.cursor}
    [] OTHER -> P

\* A client that takes a frame is one frame further.
LEMMA PointsReceived ==
  ASSUME NEW P, NEW anew, NEW w, NEW v, NEW k \in Nat,
         \A i \in 1 .. k : v[i] = w[i + 1]
  PROVE  PointsOf(AfterFirst(P, anew, w[1]), anew, v, k) = PointsOf(P, anew, w, k + 1)
<1> DEFINE Q == AfterFirst(P, anew, w[1])
<1>1. \A i \in 0 .. k : KeptTo(v, anew, i, k) <=> KeptTo(w, anew, i + 1, k + 1)
  <2> TAKE i \in 0 .. k
  <2>1. \A j \in (i + 1) .. k : v[j] = w[j + 1] /\ j + 1 \in (i + 1 + 1) .. (k + 1)
    OBVIOUS
  <2>2. \A j \in (i + 1 + 1) .. (k + 1) : v[j - 1] = w[j] /\ j - 1 \in (i + 1) .. k
    <3> TAKE j \in (i + 1 + 1) .. (k + 1)
    <3>1. j - 1 \in 1 .. k /\ j - 1 \in (i + 1) .. k /\ (j - 1) + 1 = j
      OBVIOUS
    <3> QED BY <3>1
  <2> QED BY <2>1, <2>2 DEF KeptTo
<1>2. KeptTo(w, anew, 0, k + 1) <=> KeptTo(w, anew, 1, k + 1) /\ ~ Resets(w[1], anew)
  <2>1. \A j \in 1 .. (k + 1) : j = 1 \/ j \in 2 .. (k + 1)
    OBVIOUS
  <2>2. 1 \in 1 .. (k + 1) /\ \A j \in 2 .. (k + 1) : j \in 1 .. (k + 1)
    OBVIOUS
  <2> QED BY <2>1, <2>2 DEF KeptTo
<1>3. \A p : p \in Q <=> \/ p \in P /\ ~ Resets(w[1], anew)
                         \/ Gives(w[1], anew) /\ p = w[1].cursor
  BY DEF AfterFirst, Gives, Resets
<1> HIDE DEF Q
<1>4. ASSUME NEW p
      PROVE  p \in PointsOf(Q, anew, v, k) <=> p \in PointsOf(P, anew, w, k + 1)
  <2>1. ASSUME p \in PointsOf(Q, anew, v, k)
        PROVE  p \in PointsOf(P, anew, w, k + 1)
    <3>1. CASE p \in Q /\ KeptTo(v, anew, 0, k)
      <4>1. KeptTo(w, anew, 1, k + 1) /\ 1 \in 1 .. (k + 1)
        BY <1>1, <3>1
      <4> QED BY <1>2, <1>3, <3>1, <4>1, InPoints
    <3>2. ASSUME NEW i \in 1 .. k, Gives(v[i], anew), KeptTo(v, anew, i, k), p = v[i].cursor
          PROVE  p \in PointsOf(P, anew, w, k + 1)
      <4>1. i + 1 \in 1 .. (k + 1) /\ v[i] = w[i + 1] /\ KeptTo(w, anew, i + 1, k + 1)
        BY <1>1, <3>2
      <4> QED BY <3>2, <4>1, InPoints
    <3> QED BY <2>1, <3>1, <3>2, InPoints
  <2>2. ASSUME p \in PointsOf(P, anew, w, k + 1)
        PROVE  p \in PointsOf(Q, anew, v, k)
    <3>1. CASE p \in P /\ KeptTo(w, anew, 0, k + 1)
      <4>1. KeptTo(v, anew, 0, k) /\ p \in Q
        BY <1>1, <1>2, <1>3, <3>1
      <4> QED BY <4>1, InPoints
    <3>2. ASSUME NEW i \in 1 .. (k + 1), Gives(w[i], anew), KeptTo(w, anew, i, k + 1),
                 p = w[i].cursor
          PROVE  p \in PointsOf(Q, anew, v, k)
      <4>1. CASE i = 1
        <5>1. KeptTo(v, anew, 0, k) /\ p \in Q
          BY <1>1, <1>3, <3>2, <4>1
        <5> QED BY <5>1, InPoints
      <4>2. CASE i # 1
        <5>1. i - 1 \in 1 .. k /\ (i - 1) + 1 = i
          BY <4>2
        <5>2. v[i - 1] = w[i] /\ KeptTo(v, anew, i - 1, k)
          BY <1>1, <3>2, <5>1
        <5> QED BY <3>2, <5>1, <5>2, InPoints
      <4> QED BY <4>1, <4>2
    <3> QED BY <2>2, <3>1, <3>2, InPoints
  <2> QED BY <2>1, <2>2
<1> QED BY <1>4 DEF Q

\* Without a synchronisation on its way it does not matter how the client means
\* to start.
LEMMA PointsWithoutSync ==
  ASSUME NEW P, NEW w, NEW a, NEW b, NEW k \in Nat,
         \A i \in 1 .. k : w[i].type # "sync"
  PROVE  PointsOf(P, a, w, k) = PointsOf(P, b, w, k)
<1>1. \A i \in 0 .. k : KeptTo(w, a, i, k) /\ KeptTo(w, b, i, k)
  BY DEF KeptTo, Resets
<1>2. \A i \in 1 .. k : Gives(w[i], a) <=> Gives(w[i], b)
  BY DEF Gives, Resets
<1>3. \A p : p \in PointsOf(P, a, w, k) <=> p \in PointsOf(P, b, w, k)
  BY <1>1, <1>2, InPoints
<1> QED BY <1>3

-------------------------------------------------------------------------------
(* Steps of the game, the outbox and the listener.                         *)

\* The types of the parts of a link, and where its positions lie.
LEMMA LinkFacts ==
  ASSUME FeedInv
  PROVE  /\ sub.state \in SubStates
         /\ {sub.issuedLast, sub.ackedLast, sub.initial} \subseteq Positions
         /\ sub.issued \subseteq Cursors /\ sub.acked \subseteq Cursors
         /\ \A i \in DOMAIN tail : tail[i] \in Operations
         /\ \A i \in DOMAIN tail : tail[i].from \in Positions /\ tail[i].head \in Positions
         /\ DOMAIN tail = 1 .. Len(tail) /\ Len(tail) \in Nat
         /\ DOMAIN wire = 1 .. Len(wire) /\ Len(wire) \in Nat
         /\ \A i \in DOMAIN wire : /\ wire[i] \in Frames /\ wire[i].cursor \in Positions
                                   /\ wire[i].type \in {"sync", "gap", "batch"}
         /\ client.base \in Positions /\ client.heard \subseteq 1 .. MaxEvents
         /\ client.points \subseteq Cursors /\ client.got \subseteq Cursors
         /\ client.acked \in Positions /\ client.anew \in BOOLEAN
         /\ frame.after \in Positions /\ frame.head \in Positions
<1>1. LinkOK
  BY DEF FeedInv, TypeInv
<1>2. sub \in Subscriptions /\ client \in Clients /\ frame \in SubscribeFrames
      /\ tail \in Seq(Operations) /\ wire \in Seq(Frames)
  BY <1>1 DEF LinkOK
<1>3. /\ DOMAIN tail = 1 .. Len(tail) /\ Len(tail) \in Nat
      /\ DOMAIN wire = 1 .. Len(wire) /\ Len(wire) \in Nat
  BY <1>2, LenProperties
<1>4. \A i \in DOMAIN tail : tail[i] \in Operations
  BY <1>2, <1>3, ElementOfSeq
<1>5. \A i \in DOMAIN tail : tail[i].from \in Positions /\ tail[i].head \in Positions
  BY <1>4 DEF Operations
<1>6. \A i \in DOMAIN wire : wire[i] \in Frames
  BY <1>2, <1>3, ElementOfSeq
<1>7. \A i \in DOMAIN wire : /\ wire[i].cursor \in Positions
                             /\ wire[i].type \in {"sync", "gap", "batch"}
  BY <1>6 DEF Frames, Positions
<1>8. /\ sub.state \in SubStates
      /\ {sub.issuedLast, sub.ackedLast, sub.initial} \subseteq Positions
      /\ sub.issued \subseteq Cursors /\ sub.acked \subseteq Cursors
  BY <1>2 DEF Subscriptions
<1>9. /\ client.base \in Positions /\ client.heard \subseteq 1 .. MaxEvents
      /\ client.points \subseteq Cursors /\ client.got \subseteq Cursors
      /\ client.acked \in Positions /\ client.anew \in BOOLEAN
  BY <1>2 DEF Clients
<1>10. frame.after \in Positions /\ frame.head \in Positions
  BY <1>2 DEF SubscribeFrames
<1> QED BY <1>3, <1>4, <1>5, <1>6, <1>7, <1>8, <1>9, <1>10

\* What is told up to known positions does not change as the game grows.
LEMMA ToldStable ==
  ASSUME FeedInv, GameOK', LogExtends
  PROVE  /\ \A b \in Positions, P \in SUBSET Cursors :
              (\A c \in P : Known(c)) /\ (P # {} => 0 <= b.seq) => Told(b, P)' = Told(b, P)
         /\ \A f \in Frames, P \in SUBSET Cursors :
              Known(f.cursor) /\ Continues(f, P) => Continues(f, P)'
<1>0. GameOK
  BY DEF FeedInv, TypeInv
<1>1. \A a, b \in Positions : b.seq <= Len(log) /\ 0 <= a.seq => Visible(a, b)' = Visible(a, b)
  BY <1>0, Stable
<1>2. ASSUME NEW b \in Positions, NEW P \in SUBSET Cursors, \A c \in P : Known(c),
             P # {} => 0 <= b.seq
      PROVE  Told(b, P)' = Told(b, P)
  <2>1. \A c \in P : c \in Positions /\ c.seq <= Len(log)
    BY <1>0, <1>2, KnownIsCursor, LogFacts DEF Positions
  <2>2. \A c \in P : Visible(b, c)' = Visible(b, c)
    BY <1>1, <1>2, <2>1
  <2> QED BY <2>2 DEF Told
<1>3. ASSUME NEW f \in Frames, NEW P \in SUBSET Cursors, Known(f.cursor), Continues(f, P)
      PROVE  Continues(f, P)'
  <2>1. PICK p \in Cursors : /\ Within(p, P) /\ p.seq <= f.cursor.seq
                             /\ f.events = Visible(p, f.cursor)
    BY <1>3 DEF Continues
  <2>2. f.cursor \in Positions
    BY DEF Frames, Positions
  <2>3. f.cursor.seq <= Len(log)
    BY <1>0, <1>3, <2>2, KnownIsCursor, LogFacts
  <2>4. p \in Positions /\ 0 <= p.seq
    BY DEF Positions, Cursors
  <2>5. f.events = Visible(p, f.cursor)'
    BY <1>1, <2>1, <2>2, <2>3, <2>4
  <2> QED BY <2>1, <2>5 DEF Continues
<1> QED BY <1>2, <1>3

\* The positions a client has been given are known ones.
LEMMA PointsKnown ==
  ASSUME FeedInv
  PROVE  \A k \in 0 .. Len(wire) : /\ PointsAt(k) \in SUBSET Cursors
                                   /\ \A c \in PointsAt(k) : Known(c)
<1> SUFFICES ASSUME NEW k \in 0 .. Len(wire), NEW c \in PointsAt(k)
             PROVE  c \in Cursors /\ Known(c)
  OBVIOUS
<1>1. CASE c \in client.points
  BY <1>1, LinkFacts DEF FeedInv, CursorsKnown
<1>2. ASSUME NEW i \in 1 .. k, Gives(wire[i], client.anew), c = wire[i].cursor
      PROVE  c \in Cursors /\ Known(c)
  <2>1. i \in DOMAIN wire /\ wire[i].type # "gap" /\ wire[i].cursor \in Positions
    BY <1>2, LinkFacts DEF Gives, Resets
  <2>2. Known(c)
    BY <1>2, <2>1 DEF FeedInv, CursorsKnown
  <2> QED BY <1>2, <2>1, <2>2, KnownIsCursor DEF FeedInv, TypeInv
<1> QED BY <1>1, <1>2, InPoints DEF PointsAt

\* What the client holds stays true as the game grows.
LEMMA ClientStays ==
  ASSUME FeedInv, GameOK', LogExtends, client'.base = client.base,
         client'.heard = client.heard, client'.points = client.points
  PROVE  ClientInv'
<1>1. /\ client.base \in Positions /\ client.points \in SUBSET Cursors
      /\ client.heard = Told(client.base, client.points)
      /\ client.points # {} => Known(client.base)
      /\ \A c \in client.points : Known(c)
  BY LinkFacts DEF FeedInv, ClientInv, CursorsKnown
<1>2. client.points # {} => 0 <= client.base.seq
  BY <1>1, KnownIsCursor DEF FeedInv, TypeInv
<1> DEFINE b == client.base
           P == client.points
<1>3. \A bb \in Positions, PP \in SUBSET Cursors :
        (\A c \in PP : Known(c)) /\ (PP # {} => 0 <= bb.seq) => Told(bb, PP)' = Told(bb, PP)
  BY ToldStable
<1>4. Told(client.base, client.points)' = Told(client.base, client.points)
  BY <1>1, <1>2, <1>3
<1> QED BY <1>4 DEF FeedInv, ClientInv

\* What is on its way stays true as the game grows, as long as neither the
\* frames nor the positions before them change.
LEMMA FramesStay ==
  ASSUME FeedInv, GameOK', LogExtends, wire' = wire,
         \A k \in 0 .. Len(wire) : PointsAt(k)' = PointsAt(k)
  PROVE  FramesContinue'
<1>1. /\ FramesContinue
      /\ \A i \in DOMAIN wire : wire[i].type # "gap" => Known(wire[i].cursor)
  BY DEF FeedInv, WireInv, CursorsKnown
<1>2. SUFFICES ASSUME NEW i \in DOMAIN wire, wire[i].type = "batch"
               PROVE  Continues(wire[i], PointsAt(i - 1))'
  BY DEF FramesContinue
<1>3. /\ wire[i] \in Frames /\ i - 1 \in 0 .. Len(wire)
      /\ Known(wire[i].cursor) /\ Continues(wire[i], PointsAt(i - 1))
  BY <1>1, <1>2, LinkFacts DEF FramesContinue
<1>4. PointsAt(i - 1) \in SUBSET Cursors
  BY <1>3, PointsKnown
<1>5. \A f \in Frames, P \in SUBSET Cursors : Known(f.cursor) /\ Continues(f, P) => Continues(f, P)'
  BY ToldStable
<1> DEFINE f == wire[i]
<1>6. PointsAt(i - 1)' = PointsAt(i - 1)
  BY <1>3
<1> QED BY <1>3, <1>4, <1>5, <1>6

-------------------------------------------------------------------------------
(* Steps that neither send nor receive.                                    *)

\* Nothing the client has been told changes; it may have acknowledged.
ClientSame ==
  /\ client' \in Clients
  /\ client'.base = client.base /\ client'.heard = client.heard
  /\ client'.points = client.points /\ client'.got = client.got
  /\ client'.anew = client.anew

\* Nothing more is issued; a cursor may have been acknowledged.
SubSame ==
  /\ sub' \in Subscriptions
  /\ sub'.state = sub.state /\ sub'.issuedLast = sub.issuedLast
  /\ sub'.initial = sub.initial /\ sub'.issued = sub.issued
  /\ sub'.acked \subseteq sub.acked \cup sub.issued
  /\ sub'.ackedLast \in sub.issued \cup {sub.ackedLast}

\* A connection that is open was open, with its session; a SUBSCRIBE that is
\* being handled goes on or is dropped.
LinkFalls ==
  /\ socket' \in Sockets /\ (socket' = "open" => socket = "open")
  /\ session' \in BOOLEAN /\ (~ session' => socket' # "open")
  /\ frame' \in {frame, Idle}

\* The parts of the invariant that such a step leaves as they were, given the
\* queue it leaves.
LEMMA Quietly ==
  ASSUME FeedInv, GameOK', LogExtends, ClientSame, SubSame, LinkFalls, wire' = wire,
         tail' \in Seq(Operations), QueueInv', ReadsKnown',
         HasFirst' \/ ~ HasFirst \/ socket' # "open" \/ (\A c \in sub.issued : Within(c, Ahead))
  PROVE  FeedInv'
<1>0. /\ GameOK /\ LinkOK /\ QueueInv /\ CursorsKnown /\ SubscriptionInv /\ ClientInv
      /\ WireInv /\ Covered
  BY DEF FeedInv, TypeInv
<1>1. /\ client'.base = client.base /\ client'.heard = client.heard
      /\ client'.points = client.points /\ client'.got = client.got
      /\ client'.anew = client.anew
  BY DEF ClientSame
<1>2. \A c : Known(c) => Known(c)'
  BY <1>0, Stable
<1>3. frame' = frame \/ (frame' = Idle /\ Idle.stage = "idle")
  BY DEF LinkFalls, Idle
<1>4. /\ sub'.state = sub.state /\ sub'.issuedLast = sub.issuedLast
      /\ sub'.initial = sub.initial /\ sub'.issued = sub.issued
      /\ sub'.acked \subseteq sub.acked \cup sub.issued
      /\ sub'.ackedLast \in sub.issued \cup {sub.ackedLast}
  BY DEF SubSame
<1>5. LinkOK'
  <2>1. frame' \in SubscribeFrames
    <3>1. frame \in SubscribeFrames
      BY <1>0 DEF LinkOK
    <3>2. Idle \in SubscribeFrames
      BY DEF Idle, SubscribeFrames, Positions
    <3> QED BY <1>3, <3>1, <3>2
  <2> QED BY <1>0, <2>1 DEF LinkOK, LinkFalls, ClientSame, SubSame
<1>6. CursorsKnown'
  <2>1. \A c \in client'.points \cup client'.got : Known(c)'
    BY <1>0, <1>1, <1>2 DEF CursorsKnown
  <2>2. client'.base # NoCursor => Known(client.base)'
    BY <1>0, <1>1, <1>2 DEF CursorsKnown
  <2>3. \A i \in DOMAIN wire : wire'[i].type # "gap" => Known(wire[i].cursor)'
    BY <1>0, <1>2 DEF CursorsKnown
  <2>4. sub'.state # "none" =>
          \A c \in sub'.issued \cup sub'.acked \cup {sub'.initial, sub'.issuedLast, sub'.ackedLast} :
            Known(c)'
    BY <1>0, <1>2, <1>4 DEF CursorsKnown
  <2>5. frame'.stage = "synced" => Known(frame.head)'
    BY <1>0, <1>2, <1>3 DEF CursorsKnown
  <2>6. frame'.stage = "synced" /\ frame'.after # NoCursor => AtOrBefore(frame'.after, frame'.head)
    BY <1>0, <1>3 DEF CursorsKnown
  <2> QED BY <1>1, <2>1, <2>2, <2>3, <2>4, <2>5, <2>6 DEF CursorsKnown
<1>7. SubscriptionInv'
  BY <1>0, <1>4 DEF SubscriptionInv
<1>8. ClientInv'
  BY <1>1, ClientStays
<1>9. \A k : PointsAt(k)' = PointsAt(k)
  BY <1>1 DEF PointsAt
<1>10. WireInv'
  <2>1. FramesContinue'
    BY <1>9, FramesStay
  <2>2. Subscribing' => Subscribing /\ frame' = frame
    BY <1>3 DEF Subscribing
  <2>3. frame'.stage = "synced" => frame.stage = "synced" /\ frame' = frame
    BY <1>3
  <2> QED BY <1>0, <1>1, <1>4, <2>1, <2>2, <2>3 DEF WireInv
<1>11. Covered'
  <2>1. Ahead' = Ahead
    BY <1>9 DEF Ahead
  <2>2. socket' = "open" => socket = "open"
    BY DEF LinkFalls
  <2> QED BY <1>0, <1>4, <2>1, <2>2 DEF Covered
<1> QED BY <1>5, <1>6, <1>7, <1>8, <1>10, <1>11 DEF FeedInv, TypeInv

-------------------------------------------------------------------------------
(* The queue of a subscription.                                            *)

\* What the queue's invariant says of one operation.
LEMMA QueueFacts ==
  ASSUME FeedInv, NEW i \in DOMAIN tail
  PROVE  /\ i > 1 => tail[i].stage = "queued" /\ tail[i].kind # "first"
         /\ tail[i].kind # "wake" => sub.state = "live"
         /\ tail[i].kind = "first" => tail[i].from = sub.initial /\ sub.issuedLast = sub.initial
         /\ tail[i].kind = "wake" /\ tail[i].stage # "queued" => tail[i].from = sub.issuedLast
         /\ tail[i].kind = "resync" => tail[i].from \in sub.issued \cup {sub.initial}
         /\ tail[i].kind = "ack" => tail[i].from \in sub.issued /\ tail[i].stage = "queued"
         /\ sub.state \in {"live", "closing"}
         /\ tail[i].kind \in OpKinds /\ tail[i].stage \in Stages
<1>1. tail # <<>> /\ tail[i] \in Operations /\ sub.state \in SubStates
  BY LinkFacts
<1>2. tail[i].kind \in OpKinds /\ tail[i].stage \in Stages
  BY <1>1 DEF Operations
<1>3. QueueInv
  BY DEF FeedInv
<1> QED BY <1>1, <1>2, <1>3 DEF QueueInv, SubStates

\* A queue that stays keeps its invariant.
LEMMA QueueKept ==
  ASSUME FeedInv, GameOK', LogExtends, SubSame, LinkFalls, tail' = tail
  PROVE  /\ tail' \in Seq(Operations) /\ QueueInv' /\ ReadsKnown'
         /\ HasFirst' <=> HasFirst
<1>1. QueueInv /\ ReadsKnown /\ tail \in Seq(Operations)
  BY DEF FeedInv, TypeInv, LinkOK, CursorsKnown
<1>2. /\ sub'.state = sub.state /\ sub'.issuedLast = sub.issuedLast
      /\ sub'.initial = sub.initial /\ sub'.issued = sub.issued
  BY DEF SubSame
<1>3. \A c : Known(c) => Known(c)'
  BY Stable DEF FeedInv, TypeInv
<1>4. (~ session' => socket' # "open") /\ (Subscribing' => Subscribing)
  BY DEF LinkFalls, Subscribing, Idle
<1>5. QueueInv'
  BY <1>1, <1>2, <1>4 DEF QueueInv
<1>6. ReadsKnown'
  BY <1>1, <1>2, <1>3 DEF ReadsKnown
<1> QED BY <1>1, <1>5, <1>6 DEF HasFirst

\* So does the queue that gets an operation at its end.
LEMMA QueueAppended ==
  ASSUME FeedInv, GameOK', LogExtends, SubSame, LinkFalls,
         NEW kind \in {"wake", "resync", "ack"}, NEW from \in Positions,
         sub.state = "live", tail' = Append(tail, Op(kind, from)),
         kind = "resync" => from \in sub.issued \cup {sub.initial},
         kind = "ack" => from \in sub.issued,
         kind # "wake" => ~ FrameInProgress
  PROVE  /\ tail' \in Seq(Operations) /\ QueueInv' /\ ReadsKnown'
         /\ HasFirst' <=> HasFirst
<1> DEFINE op == Op(kind, from)
           n == Len(tail) + 1
<1>1. /\ op \in Operations
      /\ op.kind = kind /\ op.from = from /\ op.stage = "queued"
  BY DEF Op, Operations, OpKinds, Stages, Positions
<1> HIDE DEF op
<1>2. /\ tail \in Seq(Operations) /\ QueueInv /\ ReadsKnown
      /\ DOMAIN tail = 1 .. Len(tail) /\ Len(tail) \in Nat
  BY LinkFacts DEF FeedInv, TypeInv, LinkOK, CursorsKnown
<1>3. /\ tail' \in Seq(Operations) /\ Len(tail') = n /\ DOMAIN (tail') = 1 .. n
      /\ tail'[n] = op
      /\ \A i \in DOMAIN tail : tail'[i] = tail[i]
  <2>1. tail' = Append(tail, op)
    BY DEF op
  <2> QED BY <1>1, <1>2, <2>1, AppendProperties
<1>4. \A i \in DOMAIN (tail') : i = n \/ i \in DOMAIN tail
  BY <1>2, <1>3
<1>5. /\ sub'.state = sub.state /\ sub'.issuedLast = sub.issuedLast
      /\ sub'.initial = sub.initial /\ sub'.issued = sub.issued
  BY DEF SubSame
<1>6. \A c : Known(c) => Known(c)'
  BY Stable DEF FeedInv, TypeInv
<1>7. (~ session' => socket' # "open") /\ (Subscribing' => Subscribing)
  BY DEF LinkFalls, Subscribing, Idle
<1>8. QueueInv'
  <2>1. ASSUME NEW i \in DOMAIN (tail')
        PROVE  /\ i > 1 => tail'[i].stage = "queued" /\ tail'[i].kind # "first"
               /\ tail'[i].kind # "wake" => sub'.state = "live"
               /\ tail'[i].kind = "first" => tail'[i].from = sub'.initial /\ sub'.issuedLast = sub'.initial
               /\ tail'[i].kind = "wake" /\ tail'[i].stage # "queued" => tail'[i].from = sub'.issuedLast
               /\ tail'[i].kind = "resync" => tail'[i].from \in sub'.issued \cup {sub'.initial}
               /\ tail'[i].kind = "ack" => tail'[i].from \in sub'.issued /\ tail'[i].stage = "queued"
    <3>1. CASE i = n
      BY <1>1, <1>3, <1>5, <3>1
    <3>2. CASE i \in DOMAIN tail
      <4>1. tail'[i] = tail[i]
        BY <1>3, <3>2
      <4> QED BY <1>5, <3>2, <4>1, QueueFacts
    <3> QED BY <1>4, <3>1, <3>2
  <2>2. sub'.state \notin {"none", "gone"} /\ ~ Subscribing'
    BY <1>2, <1>5, <1>7 DEF QueueInv
  <2> QED BY <1>7, <2>1, <2>2 DEF QueueInv
<1>9. ReadsKnown'
  <2>1. ASSUME NEW i \in DOMAIN (tail'), tail'[i].stage = "read"
        PROVE  /\ Known(tail[i].head)' /\ tail'[i] = tail[i]
               /\ AtOrBefore(sub.issuedLast, tail[i].head)
               /\ AtOrBefore(tail[i].from, tail[i].head)
               /\ \A c \in sub.issued : c.seq <= tail[i].head.seq
    <3>1. i \in DOMAIN tail
      BY <1>1, <1>3, <1>4, <2>1
    <3>2. tail'[i] = tail[i]
      BY <1>3, <3>1
    <3> QED BY <1>2, <1>6, <2>1, <3>1, <3>2 DEF ReadsKnown
  <2> QED BY <1>5, <2>1 DEF ReadsKnown
<1>10. HasFirst' <=> HasFirst
  <2>1. \A i \in DOMAIN tail : i \in DOMAIN (tail') /\ tail'[i] = tail[i]
    BY <1>2, <1>3
  <2>2. \A i \in DOMAIN (tail') : tail'[i].kind = "first" => i \in DOMAIN tail
    BY <1>1, <1>3, <1>4
  <2> QED BY <2>1, <2>2 DEF HasFirst
<1> QED BY <1>3, <1>8, <1>9, <1>10

\* The queue without its first operation: a first delivery is over.
LEMMA QueueShifted ==
  ASSUME FeedInv, GameOK', tail # <<>>, tail' = Tail(tail)
  PROVE  /\ tail' \in Seq(Operations)
         /\ \A i \in DOMAIN (tail') : /\ i + 1 \in DOMAIN tail /\ i + 1 > 1 /\ tail'[i] = tail[i + 1]
                                      /\ tail'[i].stage = "queued" /\ tail'[i].kind # "first"
         /\ ~ HasFirst'
         /\ ReadsKnown'
         /\ (/\ sub'.state = sub.state /\ sub'.initial = sub.initial
             /\ sub.issued \subseteq sub'.issued
             /\ (~ session' => socket' # "open") /\ (Subscribing' => Subscribing))
            => QueueInv'
<1>1. /\ tail \in Seq(Operations) /\ QueueInv
      /\ DOMAIN tail = 1 .. Len(tail) /\ Len(tail) \in Nat
  BY LinkFacts DEF FeedInv, TypeInv, LinkOK
<1>2. /\ tail' \in Seq(Operations) /\ Len(tail') = Len(tail) - 1
      /\ DOMAIN (tail') = 1 .. (Len(tail) - 1) /\ Len(tail) # 0
      /\ \A i \in 1 .. (Len(tail) - 1) : tail'[i] = tail[i + 1]
  BY <1>1, HeadTailProperties, LenProperties, EmptySeq
<1>3. \A i \in DOMAIN (tail') : /\ i + 1 \in DOMAIN tail /\ i + 1 > 1 /\ tail'[i] = tail[i + 1]
  BY <1>1, <1>2
<1>4. \A i \in DOMAIN (tail') : tail'[i].stage = "queued" /\ tail'[i].kind # "first"
  BY <1>3, QueueFacts
<1>5. ~ HasFirst'
  BY <1>4 DEF HasFirst
<1>6. ReadsKnown'
  BY <1>4 DEF ReadsKnown
<1>7. ASSUME sub'.state = sub.state, sub'.initial = sub.initial, sub.issued \subseteq sub'.issued,
             ~ session' => socket' # "open", Subscribing' => Subscribing
      PROVE  QueueInv'
  <2>1. sub.state \notin {"none", "gone"}
    BY <1>1 DEF QueueInv
  <2>2. ASSUME NEW i \in DOMAIN (tail')
        PROVE  /\ tail'[i].kind # "wake" => sub'.state = "live"
               /\ tail'[i].kind = "resync" => tail'[i].from \in sub'.issued \cup {sub'.initial}
               /\ tail'[i].kind = "ack" => tail'[i].from \in sub'.issued
    <3>1. i + 1 \in DOMAIN tail /\ tail'[i] = tail[i + 1]
      BY <1>3
    <3> QED BY <1>7, <3>1, QueueFacts
  <2>3. ~ Subscribing'
    BY <1>1, <1>7, <2>1 DEF QueueInv
  <2> QED BY <1>4, <1>7, <2>1, <2>2, <2>3 DEF QueueInv
<1> QED BY <1>2, <1>3, <1>4, <1>5, <1>6, <1>7

-------------------------------------------------------------------------------
(* The actions that neither send nor receive.                              *)

\* What does not change stays as it is.
LEMMA Unchanged ==
  ASSUME FeedInv
  PROVE  /\ client' = client => ClientSame
         /\ sub' = sub => SubSame
         /\ socket' = socket /\ session' = session /\ frame' = frame => LinkFalls
         /\ (socket = "open" => session)
         /\ socket \in Sockets /\ session \in BOOLEAN
<1>1. LinkOK /\ QueueInv
  BY DEF FeedInv, TypeInv
<1>2. client' = client => ClientSame
  BY <1>1 DEF LinkOK, ClientSame
<1>3. sub' = sub => SubSame
  BY <1>1 DEF LinkOK, SubSame
<1>4. (socket = "open" => session) /\ socket \in Sockets /\ session \in BOOLEAN
  BY <1>1 DEF LinkOK, QueueInv
<1>5. socket' = socket /\ session' = session /\ frame' = frame => LinkFalls
  BY <1>4 DEF LinkFalls
<1> QED BY <1>2, <1>3, <1>4, <1>5

\* A policy close leaves the rest of a link as it is.
LEMMA Rejecting ==
  ASSUME FeedInv, Reject \/ socket' = socket, session' = session, frame' \in {frame, Idle}
  PROVE  LinkFalls
<1>1. (socket = "open" => session) /\ socket \in Sockets /\ session \in BOOLEAN
  BY Unchanged
<1>2. socket' \in Sockets /\ (socket' = "open" => socket = "open")
  BY <1>1 DEF Reject, Sockets
<1> QED BY <1>1, <1>2 DEF LinkFalls

\* Nothing happens to the queue.
LEMMA RestStep ==
  ASSUME FeedInv, GameOK', LogExtends, LinkFalls, UNCHANGED <<sub, tail, wire, client>>
  PROVE  FeedInv'
<1>1. SubSame /\ ClientSame
  BY Unchanged
<1>2. tail' \in Seq(Operations) /\ QueueInv' /\ ReadsKnown' /\ (HasFirst' <=> HasFirst)
  BY <1>1, QueueKept
<1> QED BY <1>1, <1>2, Quietly

\* An operation ends, and nothing is sent.
LEMMA EndStep ==
  ASSUME FeedInv, GameOK', LogExtends, LinkFalls, SubSame, frame' = frame,
         UNCHANGED <<wire, client>>, tail # <<>>, tail' = Tail(tail),
         tail[1].kind # "first" \/ socket' # "open" \/ (\A c \in sub.issued : Within(c, Ahead))
  PROVE  FeedInv'
<1>1. ClientSame
  BY Unchanged
<1>2. sub'.state = sub.state /\ sub'.initial = sub.initial /\ sub.issued \subseteq sub'.issued
  BY DEF SubSame
<1>3. (~ session' => socket' # "open") /\ (Subscribing' => Subscribing)
  BY DEF LinkFalls, Subscribing, Idle
<1>4. tail' \in Seq(Operations) /\ QueueInv' /\ ReadsKnown'
  BY <1>2, <1>3, QueueShifted
<1>5. HasFirst => tail[1].kind = "first"
  <2>1. DOMAIN tail = 1 .. Len(tail) /\ \A i \in DOMAIN tail : i > 1 => tail[i].kind # "first"
    BY LinkFacts, QueueFacts
  <2>2. \A i \in DOMAIN tail : i = 1 \/ i > 1
    BY <2>1
  <2> QED BY <2>1, <2>2 DEF HasFirst
<1> QED BY <1>1, <1>4, <1>5, Quietly

\* The game, the outbox, the transport and the session.
LEMMA EnvironmentStep ==
  ASSUME FeedInv, GameOK', LogExtends,
         \/ Commit \/ FacilitatorOverride \/ Notify \/ NotifyAgain \/ Disconnected
         \/ ConnectionLost \/ SessionInvalidated \/ SubscribeFails \/ UNCHANGED vars
  PROVE  FeedInv'
<1>1. UNCHANGED <<sub, tail, wire, client>>
  BY DEF Commit, FacilitatorOverride, Notify, NotifyAgain, Disconnected, ConnectionLost,
         SessionInvalidated, SubscribeFails, connection, vars
<1>2. LinkFalls
  <2>1. CASE UNCHANGED <<socket, session, frame>>
    BY <2>1, Unchanged
  <2>2. CASE ConnectionLost
    BY <2>2, Unchanged DEF ConnectionLost, LinkFalls, Sockets
  <2>3. CASE SessionInvalidated
    BY <2>3, Unchanged DEF SessionInvalidated, LinkFalls, Sockets
  <2>4. CASE SubscribeFails
    BY <2>4, Rejecting DEF SubscribeFails
  <2> QED BY <2>1, <2>2, <2>3, <2>4
          DEF Commit, FacilitatorOverride, Notify, NotifyAgain, Disconnected, connection, vars
<1> QED BY <1>1, <1>2, RestStep

\* The wakes: notifications, the catch-up timer, a new LISTEN connection.
LEMMA WakeStep ==
  ASSUME FeedInv, GameOK', LogExtends, Notification \/ CatchUp \/ Reconnect
  PROVE  FeedInv'
<1>1. UNCHANGED <<socket, session, frame, sub, wire, client>> /\ tail' \in {tail, Woken}
  BY DEF Notification, CatchUp, Reconnect
<1>2. SubSame /\ ClientSame /\ LinkFalls
  BY <1>1, Unchanged
<1>3. CASE tail' = tail
  BY <1>1, <1>2, <1>3, RestStep
<1>4. CASE tail' # tail
  <2>1. sub.state = "live" /\ tail' = Append(tail, Op("wake", NoCursor))
    BY <1>1, <1>4 DEF Woken
  <2>2. tail' \in Seq(Operations) /\ QueueInv' /\ ReadsKnown' /\ (HasFirst' <=> HasFirst)
    BY <1>2, <2>1, QueueAppended DEF Positions
  <2> QED BY <1>1, <1>2, <2>2, Quietly
<1> QED BY <1>3, <1>4

\* The client's frames on an open subscription.
LEMMA RequestStep ==
  ASSUME FeedInv, GameOK', LogExtends, AckFrame \/ ResyncFrame
  PROVE  FeedInv'
<1>1. /\ ~ FrameInProgress /\ sub.state = "live" /\ client.got # {} /\ client.got \subseteq sub.issued
      /\ sub.issued \subseteq Cursors /\ sub.initial \in Positions /\ UNCHANGED <<session, frame, sub, wire>>
  BY LinkFacts DEF AckFrame, ResyncFrame, MaySend, FeedInv, WireInv
<1>2. SubSame
  BY <1>1, Unchanged
<1>3. CASE AckFrame
  <2>1. PICK c \in client.got : /\ client' = [client EXCEPT !.acked = c]
                                /\ tail' = Append(tail, Op("ack", c))
    BY <1>3 DEF AckFrame
  <2>2. ClientSame
    <3>1. client \in Clients /\ c \in Positions
      BY <1>1 DEF FeedInv, TypeInv, LinkOK, Positions
    <3> QED BY <2>1, <3>1 DEF ClientSame, Clients
  <2>3. LinkFalls
    BY <1>1, <1>3, Unchanged DEF AckFrame
  <2>4. c \in Positions /\ c \in sub.issued
    BY <1>1 DEF Positions
  <2>5. tail' \in Seq(Operations) /\ QueueInv' /\ ReadsKnown' /\ (HasFirst' <=> HasFirst)
    BY <1>1, <1>2, <2>1, <2>3, <2>4, QueueAppended
  <2> QED BY <1>1, <1>2, <2>2, <2>3, <2>5, Quietly
<1>4. CASE ResyncFrame
  <2>1. PICK c \in client.got \cup {sub.initial} :
          IF c \in {sub.initial} \cup sub.issued \cup sub.acked
          THEN tail' = Append(tail, Op("resync", c)) /\ UNCHANGED socket
          ELSE Reject /\ UNCHANGED tail
    BY <1>4 DEF ResyncFrame
  <2>2. c \in Positions /\ c \in sub.issued \cup {sub.initial}
    BY <1>1 DEF Positions
  <2>3. UNCHANGED client /\ ClientSame
    BY <1>4, Unchanged DEF ResyncFrame
  <2>4. tail' = Append(tail, Op("resync", c)) /\ LinkFalls
    BY <1>1, <2>1, <2>2, Unchanged
  <2>5. tail' \in Seq(Operations) /\ QueueInv' /\ ReadsKnown' /\ (HasFirst' <=> HasFirst)
    BY <1>1, <1>2, <2>2, <2>4, QueueAppended
  <2> QED BY <1>1, <1>2, <2>3, <2>4, <2>5, Quietly
<1> QED BY <1>3, <1>4

\* A delivery that is skipped, refused or fails.
LEMMA FailStep ==
  ASSUME FeedInv, GameOK', LogExtends,
         DeliverySkipped \/ DeliveryRefused \/ ReadFails \/ CursorRefused
  PROVE  FeedInv'
<1>1. tail # <<>> /\ tail' = Tail(tail) /\ UNCHANGED <<session, frame, sub, wire, client>>
  BY DEF DeliverySkipped, DeliveryRefused, ReadFails, CursorRefused, AtStage, OpFails, OpDone
<1>2. SubSame /\ 1 \in DOMAIN tail
  BY <1>1, Unchanged, LinkFacts
<1>3. CASE DeliverySkipped
  <2>1. tail[1].kind # "first"
    BY <1>2, <1>3, QueueFacts DEF DeliverySkipped
  <2>2. LinkFalls
    BY <1>1, <1>3, Unchanged DEF DeliverySkipped
  <2> QED BY <1>1, <1>2, <2>1, <2>2, EndStep
<1>4. CASE DeliveryRefused \/ ReadFails \/ CursorRefused
  <2>1. IF tail[1].kind = "wake" THEN UNCHANGED socket ELSE Reject
    BY <1>4 DEF DeliveryRefused, ReadFails, CursorRefused, OpFails
  <2>2. LinkFalls
    BY <1>1, <2>1, Rejecting
  <2>3. tail[1].kind # "first" \/ socket' # "open"
    BY <2>1 DEF Reject
  <2> QED BY <1>1, <1>2, <2>2, <2>3, EndStep
<1> QED BY <1>3, <1>4

\* An acknowledgement.
LEMMA AcknowledgeStep ==
  ASSUME FeedInv, GameOK', LogExtends, Acknowledge
  PROVE  FeedInv'
<1> DEFINE cursor == tail[1].from
<1>1. /\ tail # <<>> /\ tail' = Tail(tail) /\ tail[1].kind = "ack"
      /\ UNCHANGED <<session, frame, wire, client>> /\ (Reject \/ socket' = socket)
      /\ \/ sub' = sub
         \/ cursor \in sub.issued /\ sub' = [sub EXCEPT !.ackedLast = cursor, !.acked = @ \cup {cursor}]
  BY DEF Acknowledge, AtStage, OpFails, OpDone
<1>2. LinkFalls
  BY <1>1, Rejecting
<1>3. SubSame
  <2>1. sub \in Subscriptions /\ sub.issued \subseteq Cursors
    BY LinkFacts DEF FeedInv, TypeInv, LinkOK
  <2>2. CASE sub' = sub
    BY <2>2, Unchanged
  <2>3. CASE cursor \in sub.issued /\ sub' = [sub EXCEPT !.ackedLast = cursor, !.acked = @ \cup {cursor}]
    <3>1. cursor \in Cursors /\ cursor \in Positions
      BY <2>1, <2>3 DEF Positions
    <3> HIDE DEF cursor
    <3>2. sub' \in Subscriptions
      BY <2>1, <2>3, <3>1 DEF Subscriptions
    <3> QED BY <2>1, <2>3, <3>2 DEF SubSame, Subscriptions
  <2> QED BY <1>1, <2>2, <2>3
<1> QED BY <1>1, <1>2, <1>3, EndStep

-------------------------------------------------------------------------------
(* The actions that open, read and end a subscription.                     *)

\* A delivery that has started goes from a position of the subscription.
LEMMA FromKnown ==
  ASSUME FeedInv, tail # <<>>, tail[1].stage # "queued" \/ tail[1].kind \in {"first", "resync"}
  PROVE  /\ 1 \in DOMAIN tail /\ tail[1].kind # "ack"
         /\ tail[1].from \in Positions /\ Known(tail[1].from)
         /\ \/ tail[1].from \in {sub.initial, sub.issuedLast}
            \/ tail[1].kind = "resync" /\ tail[1].from \in sub.issued
<1>1. 1 \in DOMAIN tail
  BY LinkFacts
<1>2. /\ tail[1].kind # "ack"
      /\ \/ tail[1].from \in {sub.initial, sub.issuedLast}
         \/ tail[1].kind = "resync" /\ tail[1].from \in sub.issued
  BY <1>1, QueueFacts DEF OpKinds
<1>3. sub.state # "none"
  BY <1>1, QueueFacts
<1>4. \A c \in sub.issued \cup {sub.initial, sub.issuedLast} : Known(c)
  BY <1>3 DEF FeedInv, CursorsKnown
<1> QED BY <1>1, <1>2, <1>4, LinkFacts

\* The first operation of the queue moves on.
LEMMA QueueHead ==
  ASSUME FeedInv, tail # <<>>, NEW op \in Operations, op.kind = tail[1].kind,
         tail' = [tail EXCEPT ![1] = op]
  PROVE  /\ tail' \in Seq(Operations) /\ DOMAIN (tail') = DOMAIN tail
         /\ 1 \in DOMAIN tail /\ tail'[1] = op
         /\ \A i \in DOMAIN tail : i # 1 => tail'[i] = tail[i] /\ i > 1
         /\ HasFirst' <=> HasFirst
<1>1. tail \in Seq(Operations) /\ 1 \in DOMAIN tail /\ DOMAIN tail = 1 .. Len(tail)
  BY LinkFacts DEF FeedInv, TypeInv, LinkOK
<1>2. tail' \in Seq(Operations) /\ DOMAIN (tail') = DOMAIN tail
  BY <1>1
<1>3. tail'[1] = op /\ \A i \in DOMAIN tail : i # 1 => tail'[i] = tail[i] /\ i > 1
  BY <1>1
<1>4. HasFirst' <=> HasFirst
  BY <1>2, <1>3 DEF HasFirst
<1> QED BY <1>1, <1>2, <1>3, <1>4

\* The database answers a delivery.
LEMMA ReadStep ==
  ASSUME FeedInv, GameOK', LogExtends, ReadFeed
  PROVE  FeedInv'
<1> DEFINE op == [tail[1] EXCEPT !.stage = "read", !.head = HeadCursor]
<1>1. /\ tail # <<>> /\ tail[1].stage = "reading"
      /\ tail' = [tail EXCEPT ![1].stage = "read", ![1].head = HeadCursor]
      /\ UNCHANGED <<socket, session, frame, sub, wire, client>>
  BY DEF ReadFeed, AtStage
<1>2. GameOK /\ tail \in Seq(Operations) /\ 1 \in DOMAIN tail /\ tail[1] \in Operations
  BY <1>1, LinkFacts DEF FeedInv, TypeInv, LinkOK
<1>3. /\ HeadCursor \in Positions /\ Known(HeadCursor)
      /\ \A c \in Positions : Known(c) => AtOrBefore(c, HeadCursor)
  BY <1>2, HeadKnown DEF Positions
<1>4. /\ op \in Operations /\ op.kind = tail[1].kind /\ op.from = tail[1].from
      /\ op.stage = "read" /\ op.head = HeadCursor
  BY <1>2, <1>3 DEF Operations, Stages
<1>5. tail' = [tail EXCEPT ![1] = op]
  BY <1>1, <1>2
<1> HIDE DEF op
<1>6. /\ tail' \in Seq(Operations) /\ DOMAIN (tail') = DOMAIN tail
      /\ tail'[1] = op
      /\ \A i \in DOMAIN tail : i # 1 => tail'[i] = tail[i] /\ i > 1
      /\ HasFirst' <=> HasFirst
  BY <1>1, <1>4, <1>5, QueueHead
<1>7. SubSame /\ ClientSame /\ LinkFalls
  BY <1>1, Unchanged
<1>8. QueueInv'
  <2>1. ASSUME NEW i \in DOMAIN tail
        PROVE  /\ i > 1 => tail'[i].stage = "queued" /\ tail'[i].kind # "first"
               /\ tail'[i].kind # "wake" => sub.state = "live"
               /\ tail'[i].kind = "first" => tail'[i].from = sub.initial /\ sub.issuedLast = sub.initial
               /\ tail'[i].kind = "wake" /\ tail'[i].stage # "queued" => tail'[i].from = sub.issuedLast
               /\ tail'[i].kind = "resync" => tail'[i].from \in sub.issued \cup {sub.initial}
               /\ tail'[i].kind = "ack" => tail'[i].from \in sub.issued /\ tail'[i].stage = "queued"
    <3>1. CASE i = 1
      BY <1>1, <1>2, <1>4, <1>6, <3>1, QueueFacts, FromKnown
    <3>2. CASE i # 1
      BY <1>6, <3>2, QueueFacts
    <3> QED BY <3>1, <3>2
  <2>2. QueueInv /\ sub.state \notin {"none", "gone"}
    BY <1>2, QueueFacts DEF FeedInv
  <2> QED BY <1>1, <1>6, <2>1, <2>2 DEF QueueInv, Subscribing
<1>9. ReadsKnown'
  <2>1. \A c : Known(c) => Known(c)'
    BY <1>2, Stable
  <2>2. sub.state # "none"
    BY <1>2, QueueFacts
  <2>3. \A c \in sub.issued \cup {sub.issuedLast} : c \in Positions /\ Known(c)
    BY <2>2, LinkFacts DEF FeedInv, CursorsKnown, Positions
  <2>4. \A c \in sub.issued \cup {sub.issuedLast, tail[1].from} : AtOrBefore(c, HeadCursor)
    BY <1>1, <1>3, <2>3, FromKnown
  <2>5. ASSUME NEW i \in DOMAIN tail, tail'[i].stage = "read"
        PROVE  i = 1
    BY <1>6, <2>5, QueueFacts
  <2>6. PICK h \in Positions : h = HeadCursor
    BY <1>3
  <2>7. Known(h) /\ Known(h)' /\ \A c \in sub.issued : c.seq <= h.seq
    BY <1>3, <2>1, <2>4, <2>6 DEF AtOrBefore
  <2>8. tail'[1].head = h /\ tail'[1].from = tail[1].from
    BY <1>4, <1>6, <2>6
  <2>9. AtOrBefore(sub.issuedLast, h) /\ AtOrBefore(tail[1].from, h)
    BY <2>4, <2>6
  <2> QED BY <1>1, <1>6, <2>5, <2>7, <2>8, <2>9 DEF ReadsKnown
<1> QED BY <1>1, <1>6, <1>7, <1>8, <1>9, Quietly

\* The client opens a connection.
LEMMA ConnectStep ==
  ASSUME FeedInv, GameOK', LogExtends, Connect
  PROVE  FeedInv'
<1>0. /\ GameOK /\ LinkOK /\ QueueInv /\ CursorsKnown /\ SubscriptionInv /\ ClientInv
      /\ WireInv /\ Covered
  BY DEF FeedInv, TypeInv
<1>1. /\ socket' = "open" /\ session' = TRUE /\ frame' = Idle /\ sub' = NoSubscription
      /\ tail' = <<>> /\ wire' = <<>>
      /\ client' = [client EXCEPT !.got = {}, !.acked = NoCursor]
  BY DEF Connect
<1>2. client' \in Clients /\ client'.got = {} /\ client'.base = client.base
      /\ client'.heard = client.heard /\ client'.points = client.points /\ client'.anew = client.anew
  BY <1>0, <1>1 DEF LinkOK, Clients, Positions
<1>3. frame'.stage = "idle" /\ sub'.state = "none" /\ DOMAIN (tail') = {} /\ DOMAIN (wire') = {}
  BY <1>1 DEF Idle, NoSubscription
<1>4. LinkOK'
  <2>1. Idle \in SubscribeFrames /\ NoSubscription \in Subscriptions
    BY DEF Idle, SubscribeFrames, NoSubscription, Subscriptions, SubStates, Positions
  <2>2. <<>> \in Seq(Operations) /\ <<>> \in Seq(Frames) /\ Len(<<>>) <= MaxPending
    BY EmptySeq
  <2> QED BY <1>1, <1>2, <2>1, <2>2 DEF LinkOK, Sockets
<1>5. QueueInv'
  BY <1>1, <1>3 DEF QueueInv, Subscribing
<1>6. CursorsKnown'
  <2>1. \A c : Known(c) => Known(c)'
    BY <1>0, Stable
  <2>2. \A c \in client.points : Known(c)'
    BY <1>0, <2>1 DEF CursorsKnown
  <2>3. client'.base # NoCursor => Known(client.base)'
    BY <1>0, <1>2, <2>1 DEF CursorsKnown
  <2>4. ReadsKnown'
    BY <1>3 DEF ReadsKnown
  <2> QED BY <1>2, <1>3, <2>2, <2>3, <2>4 DEF CursorsKnown
<1>7. SubscriptionInv' /\ Covered'
  BY <1>3 DEF SubscriptionInv, Covered
<1>8. ClientInv'
  BY <1>2, ClientStays
<1>9. WireInv'
  BY <1>2, <1>3 DEF WireInv, FramesContinue, Subscribing
<1> QED BY <1>4, <1>5, <1>6, <1>7, <1>8, <1>9 DEF FeedInv, TypeInv

\* The client subscribes: nothing of an earlier subscription is on its way
\* that could let it start anew.
LEMMA SubscribeStep ==
  ASSUME FeedInv, GameOK', LogExtends, SubscribeFrame \/ SubscribeReads
  PROVE  FeedInv'
<1>0. /\ GameOK /\ LinkOK /\ QueueInv /\ CursorsKnown /\ SubscriptionInv /\ ClientInv
      /\ WireInv /\ Covered
  BY DEF FeedInv, TypeInv
<1>1. UNCHANGED <<socket, session, sub, tail, wire>> /\ sub.state \in {"none", "gone"}
  BY <1>0 DEF SubscribeFrame, SubscribeReads, QueueInv, Subscribing
<1>2. \A c : Known(c) => Known(c)'
  BY <1>0, Stable
<1>3. \A i \in DOMAIN wire : wire[i].type # "sync"
  BY <1>0, <1>1 DEF WireInv
<1>4. /\ frame' \in SubscribeFrames
      /\ client' \in Clients /\ client'.base = client.base /\ client'.heard = client.heard
      /\ client'.points = client.points /\ client'.got = client.got
      /\ frame'.after = NoCursor <=> client'.anew
      /\ frame'.after # NoCursor => frame'.after \in client.points
      /\ frame'.stage # "idle"
  <2>1. client \in Clients /\ frame \in SubscribeFrames /\ client.points \subseteq Positions
    BY <1>0, LinkFacts DEF LinkOK, Positions
  <2>2. CASE SubscribeFrame
    <3>1. PICK after \in client.points \cup {NoCursor} :
            /\ frame' = [stage |-> "member", after |-> after, head |-> NoCursor]
            /\ client' = [client EXCEPT !.anew = (after = NoCursor)]
      BY <2>2 DEF SubscribeFrame
    <3>2. frame' \in SubscribeFrames /\ frame'.after = after /\ frame'.stage = "member"
      BY <2>1, <3>1 DEF SubscribeFrames, Positions
    <3>3. /\ client' \in Clients /\ client'.base = client.base /\ client'.heard = client.heard
          /\ client'.points = client.points /\ client'.got = client.got
          /\ client'.anew = (after = NoCursor)
      BY <2>1, <3>1 DEF Clients
    <3> QED BY <3>1, <3>2, <3>3
  <2>3. CASE SubscribeReads
    <3>1. /\ frame' = [frame EXCEPT !.stage = "synced", !.head = HeadCursor]
          /\ client' = client /\ frame.stage = "member"
      BY <2>3 DEF SubscribeReads
    <3>2. frame' \in SubscribeFrames /\ frame'.after = frame.after /\ frame'.stage = "synced"
      BY <1>0, <2>1, <3>1, HeadKnown DEF SubscribeFrames, Positions
    <3> QED BY <1>0, <2>1, <3>1, <3>2 DEF WireInv, Subscribing
  <2> QED BY <2>2, <2>3
<1>5. frame'.stage = "synced" =>
        /\ frame'.head \in Positions /\ Known(frame.head)'
        /\ frame'.after # NoCursor => AtOrBefore(frame'.after, frame'.head)
        /\ client.base.seq <= frame'.head.seq
  <2>1. CASE SubscribeFrame
    BY <2>1 DEF SubscribeFrame
  <2>2. CASE SubscribeReads
    <3>1. PICK h \in Positions : h = HeadCursor
      BY <1>0, HeadKnown DEF Positions
    <3>2. Known(h) /\ Known(h)' /\ frame'.head = h
      <4>1. frame \in SubscribeFrames
        BY <1>0 DEF LinkOK
      <4> QED BY <1>0, <1>2, <2>2, <3>1, <4>1, HeadKnown DEF SubscribeReads, SubscribeFrames
    <3>3. frame'.after # NoCursor => AtOrBefore(frame'.after, h)
      <4>1. \A c \in client.points : c \in Positions /\ Known(c)
        BY <1>0, LinkFacts DEF CursorsKnown, Positions
      <4> QED BY <1>0, <1>4, <3>1, <4>1, HeadKnown
    <3>4. client.base.seq <= h.seq
      <4>1. h.seq \in Nat
        BY <1>0, <3>1, <3>2, KnownIsCursor
      <4>2. CASE client.base = NoCursor
        BY <4>1, <4>2 DEF NoCursor
      <4>3. CASE client.base # NoCursor
        BY <1>0, <3>1, <4>3, HeadKnown, LinkFacts DEF CursorsKnown, AtOrBefore
      <4> QED BY <4>2, <4>3
    <3> QED BY <3>2, <3>3, <3>4
  <2> QED BY <2>1, <2>2
<1>6. LinkOK'
  BY <1>0, <1>1, <1>4 DEF LinkOK
<1>7. QueueInv'
  BY <1>0, <1>1 DEF QueueInv, Subscribing
<1>8. CursorsKnown'
  <2>1. /\ \A c \in client.points \cup client.got : Known(c)'
        /\ \A i \in DOMAIN wire : wire[i].type # "gap" => Known(wire[i].cursor)'
        /\ sub.state # "none" =>
             \A c \in sub.issued \cup sub.acked \cup {sub.initial, sub.issuedLast, sub.ackedLast} : Known(c)'
    BY <1>0, <1>1, <1>2 DEF CursorsKnown
  <2>2. client'.base # NoCursor => Known(client.base)'
    BY <1>0, <1>2, <1>4 DEF CursorsKnown
  <2>3. ReadsKnown'
    <3>1. SubSame /\ tail = <<>>
      BY <1>0, <1>1, Unchanged DEF QueueInv
    <3> QED BY <1>1, <3>1 DEF ReadsKnown
  <2> QED BY <1>1, <1>4, <1>5, <2>1, <2>2, <2>3 DEF CursorsKnown
<1>9. SubscriptionInv' /\ Covered'
  BY <1>0, <1>1 DEF SubscriptionInv, Covered
<1>10. ClientInv'
  BY <1>4, ClientStays
<1>11. WireInv'
  <2>1. \A k \in 0 .. Len(wire) : PointsAt(k)' = PointsAt(k)
    <3> TAKE k \in 0 .. Len(wire)
    <3>1. k \in Nat /\ \A i \in 1 .. k : wire[i].type # "sync"
      BY <1>3, LinkFacts
    <3> QED BY <1>1, <1>4, <3>1, PointsWithoutSync DEF PointsAt
  <2>2. FramesContinue'
    BY <1>1, <2>1, FramesStay
  <2> QED BY <1>0, <1>1, <1>3, <1>4, <1>5, <2>2 DEF WireInv, Subscribing
<1> QED BY <1>6, <1>7, <1>8, <1>9, <1>10, <1>11 DEF FeedInv, TypeInv

\* The client unsubscribes, and its subscription goes when its queue is empty.
LEMMA UnsubscribeStep ==
  ASSUME FeedInv, GameOK', LogExtends, UnsubscribeFrame \/ UnsubscribeDone
  PROVE  FeedInv'
<1>0. /\ GameOK /\ LinkOK /\ QueueInv /\ CursorsKnown /\ SubscriptionInv /\ ClientInv
      /\ WireInv /\ Covered
  BY DEF FeedInv, TypeInv
<1>1. /\ UNCHANGED <<socket, session, frame, tail, wire>>
      /\ \/ /\ sub.state = "live" /\ sub' = [sub EXCEPT !.state = "closing"]
            /\ client' = [client EXCEPT !.got = {}, !.acked = NoCursor]
            /\ client.got # {} /\ \A i \in DOMAIN tail : tail[i].kind = "wake"
         \/ /\ sub.state = "closing" /\ sub' = [sub EXCEPT !.state = "gone"] /\ tail = <<>>
            /\ client' = client /\ client.got = {}
  BY <1>0 DEF UnsubscribeFrame, UnsubscribeDone, MaySend, FrameInProgress, WireInv
<1>2. \A c : Known(c) => Known(c)'
  BY <1>0, Stable
<1>3. /\ sub' \in Subscriptions /\ sub'.state \in {"closing", "gone"} /\ sub'.issued = sub.issued
      /\ sub'.acked = sub.acked /\ sub'.initial = sub.initial /\ sub'.issuedLast = sub.issuedLast
      /\ sub'.ackedLast = sub.ackedLast /\ sub.state \notin {"none", "gone"}
      /\ sub'.state = "closing" => sub.state = "live"
  <2>1. sub \in Subscriptions
    BY <1>0 DEF LinkOK
  <2> QED BY <1>1, <2>1 DEF Subscriptions, SubStates
<1>4. /\ client' \in Clients /\ client'.base = client.base /\ client'.heard = client.heard
      /\ client'.points = client.points /\ client'.got = {} /\ client'.anew = client.anew
  BY <1>0, <1>1 DEF LinkOK, Clients, Positions
<1>5. \A i \in DOMAIN wire : wire[i].type # "sync"
  BY <1>0, <1>1 DEF WireInv
<1>6. LinkOK'
  BY <1>0, <1>1, <1>3, <1>4 DEF LinkOK
<1>7. QueueInv'
  <2>1. ~ Subscribing /\ \A i \in DOMAIN tail : tail[i].kind = "wake"
    BY <1>0, <1>1, <1>3 DEF QueueInv
  <2>2. sub'.state = "gone" => tail = <<>>
    <3>1. sub \in Subscriptions
      BY <1>0 DEF LinkOK
    <3> QED BY <1>1, <3>1 DEF Subscriptions
  <2> QED BY <1>0, <1>1, <1>3, <2>1, <2>2 DEF QueueInv, Subscribing
<1>8. CursorsKnown'
  <2>1. /\ \A c \in client.points : Known(c)'
        /\ \A i \in DOMAIN wire : wire[i].type # "gap" => Known(wire[i].cursor)'
        /\ \A c \in sub.issued \cup sub.acked \cup {sub.initial, sub.issuedLast, sub.ackedLast} : Known(c)'
    BY <1>0, <1>1, <1>2, <1>3 DEF CursorsKnown
  <2>2. client'.base # NoCursor => Known(client.base)'
    BY <1>0, <1>2, <1>4 DEF CursorsKnown
  <2>3. ReadsKnown'
    BY <1>0, <1>1, <1>2, <1>3 DEF CursorsKnown, ReadsKnown
  <2>4. frame'.stage # "synced"
    BY <1>0, <1>1, <1>3 DEF QueueInv, Subscribing
  <2> QED BY <1>1, <1>3, <1>4, <2>1, <2>2, <2>3, <2>4 DEF CursorsKnown
<1>9. SubscriptionInv'
  BY <1>0, <1>3 DEF SubscriptionInv
<1>10. ClientInv'
  BY <1>4, ClientStays
<1>11. \A k : PointsAt(k)' = PointsAt(k)
  BY <1>1, <1>4 DEF PointsAt
<1>12. WireInv'
  <2>1. FramesContinue'
    BY <1>1, <1>11, FramesStay
  <2>2. ~ Subscribing' /\ frame'.stage # "synced"
    BY <1>0, <1>1, <1>3 DEF QueueInv, Subscribing
  <2> QED BY <1>1, <1>4, <1>5, <2>1, <2>2 DEF WireInv
<1>13. Covered'
  <2>1. Ahead' = Ahead
    BY <1>1, <1>11 DEF Ahead
  <2>2. sub'.state = "closing" => sub.state \in {"live", "closing"}
    BY <1>3
  <2>3. HasFirst' <=> HasFirst
    BY <1>1 DEF HasFirst
  <2> QED BY <1>0, <1>1, <1>3, <2>1, <2>2, <2>3 DEF Covered
<1> QED BY <1>6, <1>7, <1>8, <1>9, <1>10, <1>12, <1>13 DEF FeedInv, TypeInv

-------------------------------------------------------------------------------
(* The actions that send.                                                  *)

\* What leaves: a part of the frames, and all of them on a socket that stays
\* open.
LEMMA SendFacts ==
  ASSUME FeedInv, NEW frames \in Seq(Frames), Send(frames)
  PROVE  /\ wire' \in Seq(Frames) /\ Len(wire') <= MaxPending
         /\ Len(wire') \in Nat /\ DOMAIN (wire') = 1 .. Len(wire')
         /\ Len(wire) <= Len(wire') /\ Len(wire') <= Len(wire) + Len(frames)
         /\ \A i \in 1 .. Len(wire) : wire'[i] = wire[i]
         /\ \A i \in (Len(wire) + 1) .. Len(wire') :
              /\ i - Len(wire) \in 1 .. Len(frames)
              /\ wire'[i] = frames[i - Len(wire)]
         /\ socket' \in Sockets
         /\ socket' = "open" => socket = "open" /\ Len(wire') = Len(wire) + Len(frames)
         /\ socket # "open" => wire' = wire /\ socket' = socket
<1> DEFINE n == Len(wire)
           m == Len(frames)
           r == IF Room < m THEN Room ELSE m
<1>1. /\ wire \in Seq(Frames) /\ n \in Nat /\ n <= MaxPending /\ m \in Nat
      /\ socket \in Sockets /\ DOMAIN wire = 1 .. n
  BY LinkFacts DEF FeedInv, TypeInv, LinkOK
<1>2. Room \in Nat /\ Room = MaxPending - n
  BY <1>1 DEF Room
<1>3. CASE socket # "open"
  <2>1. wire' = wire /\ socket' = socket
    BY <1>3 DEF Send
  <2>2. \A i \in (n + 1) .. n : FALSE
    BY <1>1
  <2>3. Len(wire') = n /\ DOMAIN (wire') = 1 .. n /\ n <= n + m /\ n <= n
    BY <1>1, <2>1
  <2> HIDE DEF n, m
  <2> QED BY <1>1, <1>3, <2>1, <2>2, <2>3 DEF n, m
<1>4. CASE socket = "open"
  <2>1. /\ wire' = wire \o SubSeq(frames, 1, r)
        /\ socket' = IF Room < m THEN "overloaded" ELSE socket
    BY <1>4 DEF Send
  <2>2. r \in 0 .. m /\ n + r <= MaxPending
    BY <1>1, <1>2
  <2> DEFINE part == SubSeq(frames, 1, r)
  <2>3. /\ part \in Seq(Frames) /\ Len(part) = r
        /\ \A i \in 1 .. r : part[i] = frames[i]
    <3> HIDE DEF r
    <3>1. \A i \in 1 .. r : i \in 1 .. m
      BY <1>1, <2>2
    <3> QED BY <1>1, <2>2, <3>1, SubSeqProperties
  <2> HIDE DEF part
  <2>4. /\ wire' \in Seq(Frames) /\ Len(wire') = n + r
        /\ \A i \in 1 .. (n + r) : wire'[i] = IF i <= n THEN wire[i] ELSE part[i - n]
    <3> HIDE DEF r
    <3>1. wire' = wire \o part
      BY <2>1 DEF part
    <3>2. /\ wire \o part \in Seq(Frames) /\ Len(wire \o part) = Len(wire) + Len(part)
          /\ \A i \in 1 .. Len(wire) + Len(part) :
               (wire \o part)[i] = IF i <= Len(wire) THEN wire[i] ELSE part[i - Len(wire)]
      BY <1>1, <2>3, ConcatProperties
    <3> QED BY <2>3, <3>1, <3>2
  <2>5. socket' = "open" => r = m
    BY <1>1, <1>2, <2>1
  <2> HIDE DEF r, n, m
  <2>6. \A i \in 1 .. n : wire'[i] = wire[i]
    BY <1>1, <2>2, <2>4
  <2>7. \A i \in (n + 1) .. (n + r) : i - n \in 1 .. r /\ i - n \in 1 .. m /\ wire'[i] = frames[i - n]
    BY <1>1, <2>2, <2>3, <2>4
  <2>8. socket' \in Sockets
    BY <1>1, <2>1 DEF Sockets
  <2>9. /\ Len(wire') \in Nat /\ DOMAIN (wire') = 1 .. Len(wire') /\ Len(wire') <= MaxPending
        /\ n <= Len(wire') /\ Len(wire') <= n + m
    BY <1>1, <2>2, <2>4, LenProperties
  <2>10. socket' = "open" => Len(wire') = n + m
    BY <2>4, <2>5
  <2>11. Len(wire') = n + r /\ wire' \in Seq(Frames)
    BY <2>4
  <2> QED BY <1>4, <2>6, <2>7, <2>8, <2>9, <2>10, <2>11 DEF n, m
<1> QED BY <1>3, <1>4

\* What a client has been given, with frames added to the wire.
LEMMA SendPoints ==
  ASSUME FeedInv, GameOK', LogExtends, NEW frames \in Seq(Frames), Send(frames),
         client' = client,
         \A i \in 1 .. Len(frames) : frames[i].type # "gap" => Known(frames[i].cursor)
  PROVE  /\ \A k \in 0 .. Len(wire) : PointsAt(k)' = PointsAt(k)
         /\ (\A i \in 1 .. Len(frames) : ~ Resets(frames[i], client.anew)) =>
              \A k \in Len(wire) .. Len(wire') :
                PointsAt(k)' = Ahead \cup {wire'[i].cursor :
                                 i \in {j \in (Len(wire) + 1) .. k : Gives(wire'[j], client.anew)}}
         /\ \A i \in DOMAIN (wire') : wire'[i].type # "gap" => Known(wire[i].cursor)'
         /\ \A i \in DOMAIN wire : wire[i].type = "batch" =>
              wire'[i] = wire[i] /\ Continues(wire[i], PointsAt(i - 1))'
<1> DEFINE n == Len(wire)
<1>1. /\ Len(wire') \in Nat /\ DOMAIN (wire') = 1 .. Len(wire')
      /\ n <= Len(wire') /\ n \in Nat /\ DOMAIN wire = 1 .. n
      /\ \A i \in 1 .. n : wire'[i] = wire[i]
      /\ \A i \in (n + 1) .. Len(wire') :
           i - n \in 1 .. Len(frames) /\ wire'[i] = frames[i - n]
  BY SendFacts, LinkFacts
<1>2. \A c : Known(c) => Known(c)'
  BY Stable DEF FeedInv, TypeInv
<1>3. \A k \in 0 .. n : PointsAt(k)' = PointsAt(k)
  BY <1>1, PointsAppended DEF PointsAt
<1>4. ASSUME \A i \in 1 .. Len(frames) : ~ Resets(frames[i], client.anew), NEW k \in n .. Len(wire')
      PROVE  PointsAt(k)' = Ahead \cup {wire'[i].cursor :
                              i \in {j \in (n + 1) .. k : Gives(wire'[j], client.anew)}}
  <2>1. k \in Nat /\ n <= k /\ k <= Len(wire')
    BY <1>1
  <2>2. KeptTo(wire', client.anew, n, k)
    <3>1. \A j \in (n + 1) .. k : j \in (n + 1) .. Len(wire')
      BY <1>1, <2>1
    <3> QED BY <1>1, <1>4, <3>1 DEF KeptTo
  <2>3. PointsOf(client.points, client.anew, wire', k) =
          PointsOf(client.points, client.anew, wire', n)
            \cup {wire'[i].cursor : i \in {j \in (n + 1) .. k : Gives(wire'[j], client.anew)}}
    <3>1. PICK v : v = wire'
      OBVIOUS
    <3>2. KeptTo(v, client.anew, n, k)
      BY <2>2, <3>1
    <3>4. n \in Nat /\ k \in Nat /\ n <= k
      BY <1>1, <2>1
    <3> HIDE DEF n
    <3>3. PointsOf(client.points, client.anew, v, k) =
            PointsOf(client.points, client.anew, v, n)
              \cup {v[i].cursor : i \in {j \in (n + 1) .. k : Gives(v[j], client.anew)}}
      BY <3>2, <3>4, PointsKept
    <3> QED BY <3>1, <3>3
  <2>4. PointsOf(client.points, client.anew, wire', n) = Ahead
    <3>1. n \in 0 .. n
      BY <1>1
    <3>2. PICK q \in 0 .. n : q = n
      BY <3>1
    <3>3. PointsAt(q)' = PointsAt(q)
      BY <1>3
    <3>4. PointsOf(client.points, client.anew, wire', q) = PointsOf(client.points, client.anew, wire, q)
      BY <3>3 DEF PointsAt
    <3> QED BY <3>2, <3>4 DEF PointsAt, Ahead
  <2>5. PointsAt(k)' = PointsOf(client.points, client.anew, wire', k)
    BY DEF PointsAt
  <2> QED BY <2>3, <2>4, <2>5
<1>5. ASSUME NEW i \in DOMAIN (wire'), wire'[i].type # "gap"
      PROVE  Known(wire[i].cursor)'
  <2>1. PICK c : c = wire'[i].cursor
    OBVIOUS
  <2>2. CASE i \in 1 .. n
    <3>1. Known(c)
      BY <1>1, <1>5, <2>1, <2>2 DEF FeedInv, CursorsKnown
    <3> QED BY <1>2, <2>1, <3>1
  <2>3. CASE i \notin 1 .. n
    <3>1. i \in (n + 1) .. Len(wire')
      BY <1>1, <2>3
    <3>2. Known(c)
      BY <1>1, <1>5, <2>1, <3>1
    <3> QED BY <1>2, <2>1, <3>2
  <2> QED BY <2>2, <2>3
<1>6. ASSUME NEW i \in DOMAIN wire, wire[i].type = "batch"
      PROVE  wire'[i] = wire[i] /\ Continues(wire[i], PointsAt(i - 1))'
  <2>1. /\ wire[i] \in Frames /\ i - 1 \in 0 .. n /\ wire'[i] = wire[i]
        /\ Known(wire[i].cursor) /\ Continues(wire[i], PointsAt(i - 1))
    BY <1>1, <1>6, LinkFacts DEF FeedInv, WireInv, CursorsKnown, FramesContinue
  <2>2. PointsAt(i - 1) \in SUBSET Cursors
    BY <2>1, PointsKnown
  <2>3. \A f \in Frames, P \in SUBSET Cursors : Known(f.cursor) /\ Continues(f, P) => Continues(f, P)'
    BY ToldStable
  <2>4. PointsAt(i - 1)' = PointsAt(i - 1)
    BY <1>3, <2>1
  <2> QED BY <2>1, <2>2, <2>3, <2>4
<1> QED BY <1>3, <1>4, <1>5, <1>6

\* A delivery starts; a resync first says that there is a gap.
LEMMA StartStep ==
  ASSUME FeedInv, GameOK', LogExtends, DeliveryStarts
  PROVE  FeedInv'
<1> DEFINE from == IF tail[1].kind = "wake" THEN sub.issuedLast ELSE tail[1].from
           op == [tail[1] EXCEPT !.stage = "reading", !.from = from]
           frames == IF tail[1].kind = "resync" THEN <<Gap>> ELSE <<>>
           n == Len(wire)
<1>0. /\ GameOK /\ LinkOK /\ QueueInv /\ CursorsKnown /\ SubscriptionInv /\ ClientInv
      /\ WireInv /\ Covered
  BY DEF FeedInv, TypeInv
<1>1. /\ tail # <<>> /\ tail[1].stage = "queued" /\ tail[1].kind # "ack"
      /\ sub.state = "live" /\ session
      /\ tail' = [tail EXCEPT ![1].stage = "reading",
                              ![1].from = IF tail[1].kind = "wake" THEN sub.issuedLast ELSE @]
      /\ Send(frames) /\ UNCHANGED <<session, frame, sub, client>>
  BY DEF DeliveryStarts, AtStage
<1>2. tail \in Seq(Operations) /\ 1 \in DOMAIN tail /\ tail[1] \in Operations /\ sub.issuedLast \in Positions
      /\ tail[1].from \in Positions
  BY <1>0, <1>1, LinkFacts DEF LinkOK
<1>3. /\ op \in Operations /\ op.kind = tail[1].kind /\ op.from = from /\ op.stage = "reading"
  BY <1>2 DEF Operations, Stages
<1>4. tail' = [tail EXCEPT ![1] = op]
  BY <1>1, <1>2
<1> HIDE DEF op
<1>5. /\ tail' \in Seq(Operations) /\ DOMAIN (tail') = DOMAIN tail
      /\ tail'[1] = op
      /\ \A i \in DOMAIN tail : i # 1 => tail'[i] = tail[i] /\ i > 1
      /\ HasFirst' <=> HasFirst
  BY <1>1, <1>3, <1>4, QueueHead
<1>6. /\ frames \in Seq(Frames)
      /\ \A i \in 1 .. Len(frames) : frames[i].type = "gap"
  <2>1. Gap \in Frames /\ Gap.type = "gap"
    BY DEF Gap, Frames
  <2>2. CASE tail[1].kind = "resync"
    <3>1. frames = <<Gap>>
      BY <2>2
    <3> QED BY <2>1, <3>1
  <2>3. CASE tail[1].kind # "resync"
    <3>1. frames = <<>>
      BY <2>3
    <3> QED BY <3>1, EmptySeq
  <2> QED BY <2>2, <2>3
<1> HIDE DEF frames
<1>7. /\ wire' \in Seq(Frames) /\ Len(wire') <= MaxPending
      /\ Len(wire') \in Nat /\ DOMAIN (wire') = 1 .. Len(wire')
      /\ n <= Len(wire') /\ n \in Nat /\ DOMAIN wire = 1 .. n
      /\ \A i \in 1 .. n : wire'[i] = wire[i]
      /\ \A i \in (n + 1) .. Len(wire') : wire'[i].type = "gap"
      /\ socket' \in Sockets
      /\ (socket' = "open" => socket = "open")
  <2>1. /\ wire' \in Seq(Frames) /\ Len(wire') <= MaxPending
        /\ Len(wire') \in Nat /\ DOMAIN (wire') = 1 .. Len(wire')
        /\ n <= Len(wire') /\ \A i \in 1 .. n : wire'[i] = wire[i]
        /\ \A i \in (n + 1) .. Len(wire') :
             i - n \in 1 .. Len(frames) /\ wire'[i] = frames[i - n]
        /\ socket' \in Sockets
        /\ (socket' = "open" => socket = "open")
    BY <1>1, <1>6, SendFacts
  <2>2. \A i \in (n + 1) .. Len(wire') : wire'[i].type = "gap"
    BY <1>6, <2>1
  <2>3. n \in Nat /\ DOMAIN wire = 1 .. n
    BY LinkFacts
  <2> QED BY <2>1, <2>2, <2>3
<1>8. /\ \A k \in 0 .. n : PointsAt(k)' = PointsAt(k)
      /\ (\A i \in 1 .. Len(frames) : ~ Resets(frames[i], client.anew)) =>
           \A k \in n .. Len(wire') :
             PointsAt(k)' = Ahead \cup {wire'[i].cursor :
                              i \in {j \in (n + 1) .. k : Gives(wire'[j], client.anew)}}
      /\ \A i \in DOMAIN (wire') : wire'[i].type # "gap" => Known(wire[i].cursor)'
      /\ \A i \in DOMAIN wire : wire[i].type = "batch" =>
           wire'[i] = wire[i] /\ Continues(wire[i], PointsAt(i - 1))'
  BY <1>1, <1>6, SendPoints
<1>9. Ahead' = Ahead
  <2>1. \A i \in 1 .. Len(frames) : ~ Resets(frames[i], client.anew)
    BY <1>6 DEF Resets
  <2>0. Len(wire') \in n .. Len(wire')
    BY <1>7
  <2>2. PICK k \in n .. Len(wire') : k = Len(wire')
    BY <2>0
  <2>3. \A j \in (n + 1) .. k : ~ Gives(wire'[j], client.anew)
    BY <1>7, <2>2 DEF Gives, Resets
  <2>4. PointsAt(k)' = Ahead
    BY <1>8, <2>1, <2>3
  <2> QED BY <2>2, <2>4 DEF Ahead
<1>10. \A i \in DOMAIN (wire') : wire'[i].type # "gap" => i \in DOMAIN wire /\ wire'[i] = wire[i]
  <2> TAKE i \in DOMAIN (wire')
  <2>1. CASE i \in 1 .. n
    BY <1>7, <2>1
  <2>2. CASE i \notin 1 .. n
    <3>1. i \in (n + 1) .. Len(wire')
      BY <1>7, <2>2
    <3> QED BY <1>7, <3>1
  <2> QED BY <2>1, <2>2
<1>11. LinkOK'
  BY <1>0, <1>1, <1>5, <1>7 DEF LinkOK
<1>12. QueueInv'
  <2>1. ASSUME NEW i \in DOMAIN tail
        PROVE  /\ i > 1 => tail'[i].stage = "queued" /\ tail'[i].kind # "first"
               /\ tail'[i].kind # "wake" => sub.state = "live"
               /\ tail'[i].kind = "first" => tail'[i].from = sub.initial /\ sub.issuedLast = sub.initial
               /\ tail'[i].kind = "wake" /\ tail'[i].stage # "queued" => tail'[i].from = sub.issuedLast
               /\ tail'[i].kind = "resync" => tail'[i].from \in sub.issued \cup {sub.initial}
               /\ tail'[i].kind = "ack" => tail'[i].from \in sub.issued /\ tail'[i].stage = "queued"
    <3>1. CASE i = 1
      <4>1. tail'[i].kind = tail[1].kind /\ tail'[i].from = from
        BY <1>3, <1>5, <3>1
      <4> QED BY <1>1, <1>2, <3>1, <4>1, QueueFacts
    <3>2. CASE i # 1
      BY <1>5, <3>2, QueueFacts
    <3> QED BY <3>1, <3>2
  <2>2. ~ Subscribing
    BY <1>0, <1>1 DEF QueueInv
  <2> QED BY <1>1, <1>5, <2>1, <2>2 DEF QueueInv, Subscribing
<1>13. CursorsKnown'
  <2>1. \A c : Known(c) => Known(c)'
    BY <1>0, Stable
  <2>2. /\ \A c \in client.points \cup client.got : Known(c)'
        /\ client'.base # NoCursor => Known(client.base)'
        /\ \A c \in sub.issued \cup sub.acked \cup {sub.initial, sub.issuedLast, sub.ackedLast} : Known(c)'
    BY <1>0, <1>1, <2>1 DEF CursorsKnown
  <2>3. frame'.stage # "synced"
    BY <1>0, <1>1 DEF QueueInv, Subscribing
  <2>4. ReadsKnown'
    <3>1. \A i \in DOMAIN (tail') : tail'[i].stage # "read"
      BY <1>3, <1>5, QueueFacts
    <3> QED BY <3>1 DEF ReadsKnown
  <2> QED BY <1>1, <1>8, <2>2, <2>3, <2>4 DEF CursorsKnown
<1>14. SubscriptionInv'
  BY <1>0, <1>1 DEF SubscriptionInv
<1>15. ClientInv'
  BY <1>1, ClientStays
<1>16. WireInv'
  <2>1. FramesContinue'
    <3> SUFFICES ASSUME NEW i \in DOMAIN (wire'), wire'[i].type = "batch"
                 PROVE  Continues(wire[i], PointsAt(i - 1))'
      BY DEF FramesContinue
    <3> QED BY <1>8, <1>10
  <2>2. ~ Subscribing' /\ frame'.stage # "synced"
    BY <1>0, <1>1 DEF QueueInv, Subscribing
  <2> QED BY <1>0, <1>1, <1>10, <2>1, <2>2 DEF WireInv
<1>17. Covered'
  BY <1>0, <1>1, <1>5, <1>7, <1>9 DEF Covered
<1> QED BY <1>11, <1>12, <1>13, <1>14, <1>15, <1>16, <1>17 DEF FeedInv, TypeInv

\* The subscription is registered, its SYNC sent and its first delivery queued.
LEMMA SubscribedStep ==
  ASSUME FeedInv, GameOK', LogExtends, Subscribed
  PROVE  FeedInv'
<1> DEFINE n == Len(wire)
<1>0. /\ GameOK /\ LinkOK /\ QueueInv /\ CursorsKnown /\ SubscriptionInv /\ ClientInv
      /\ WireInv /\ Covered
  BY DEF FeedInv, TypeInv
<1>1. frame.stage = "synced" /\ Subscribing /\ sub.state \in {"none", "gone"} /\ tail = <<>>
  BY <1>0 DEF Subscribed, Subscribing, QueueInv
<1>2. PICK h \in Positions, start \in Positions :
        /\ h = frame.head
        /\ start = IF frame.after = NoCursor THEN frame.head ELSE frame.after
  BY LinkFacts
<1>3. /\ Known(h) /\ h \in Cursors /\ h.seq \in Nat /\ h.ver \in Nat
      /\ Known(start) /\ start \in Cursors /\ start.seq \in Nat
      /\ AtOrBefore(start, h) /\ client.base.seq <= h.seq
      /\ client.anew => start = h
      /\ ~ client.anew => start \in client.points
  <2>1. Known(h) /\ h \in Cursors /\ h.seq \in Nat /\ h.ver \in Nat
    BY <1>0, <1>1, <1>2, KnownIsCursor DEF CursorsKnown
  <2>2. /\ frame.after = NoCursor <=> client.anew
        /\ frame.after # NoCursor => frame.after \in client.points
        /\ client.base.seq <= h.seq
    BY <1>0, <1>1, <1>2 DEF WireInv
  <2>3. Known(start)
    BY <1>0, <1>2, <2>1, <2>2 DEF CursorsKnown
  <2>4. AtOrBefore(start, h)
    BY <1>0, <1>1, <1>2, <2>1 DEF CursorsKnown, AtOrBefore
  <2> QED BY <1>0, <1>2, <2>1, <2>2, <2>3, <2>4, KnownIsCursor
<1>4. /\ frame' = Idle
      /\ sub' = [state |-> "live", issuedLast |-> start, ackedLast |-> start,
                 initial |-> start, issued |-> {h}, acked |-> {start}]
      /\ tail' = Append(tail, Op("first", start))
      /\ Send(<<Sync(h)>>)
      /\ UNCHANGED <<session, client>>
  BY <1>2, <1>3 DEF Subscribed
<1>5. /\ sub' \in Subscriptions /\ sub'.state = "live" /\ sub'.issuedLast = start
      /\ sub'.ackedLast = start /\ sub'.initial = start /\ sub'.issued = {h} /\ sub'.acked = {start}
  BY <1>3, <1>4 DEF Subscriptions, SubStates, Positions
<1>6. /\ tail' \in Seq(Operations) /\ DOMAIN (tail') = {1}
      /\ tail'[1].kind = "first" /\ tail'[1].from = start /\ tail'[1].stage = "queued"
  <2>1. Op("first", start) \in Operations
    BY DEF Op, Operations, OpKinds, Stages, Positions
  <2>2. tail' = <<Op("first", start)>>
    BY <1>1, <1>4
  <2>3. tail'[1] = Op("first", start) /\ tail' \in Seq(Operations) /\ DOMAIN (tail') = {1}
    BY <2>1, <2>2
  <2> QED BY <2>3 DEF Op
<1>7. /\ <<Sync(h)>> \in Seq(Frames) /\ Len(<<Sync(h)>>) = 1
      /\ \A i \in 1 .. Len(<<Sync(h)>>) : <<Sync(h)>>[i] = Sync(h)
      /\ Sync(h).type = "sync" /\ Sync(h).cursor = h
  <2>1. Sync(h) \in Frames /\ Sync(h).type = "sync" /\ Sync(h).cursor = h
    BY <1>3 DEF Sync, Frames
  <2>2. <<Sync(h)>> \in Seq(Frames) /\ Len(<<Sync(h)>>) = 1 /\ <<Sync(h)>>[1] = Sync(h)
    BY <2>1
  <2>3. \A i \in 1 .. 1 : i = 1
    OBVIOUS
  <2> QED BY <2>1, <2>2, <2>3
<1>8. /\ wire' \in Seq(Frames) /\ Len(wire') <= MaxPending
      /\ Len(wire') \in Nat /\ DOMAIN (wire') = 1 .. Len(wire')
      /\ n <= Len(wire') /\ Len(wire') <= n + 1 /\ \A i \in 1 .. n : wire'[i] = wire[i]
      /\ \A i \in (n + 1) .. Len(wire') : wire'[i] = Sync(h) /\ i = n + 1
      /\ socket' \in Sockets
      /\ (socket' = "open" => socket = "open" /\ Len(wire') = n + 1)
      /\ n \in Nat /\ DOMAIN wire = 1 .. n
  <2>1. /\ wire' \in Seq(Frames) /\ Len(wire') <= MaxPending
        /\ Len(wire') \in Nat /\ DOMAIN (wire') = 1 .. Len(wire')
        /\ n <= Len(wire') /\ Len(wire') <= n + Len(<<Sync(h)>>) /\ \A i \in 1 .. n : wire'[i] = wire[i]
        /\ \A i \in (n + 1) .. Len(wire') :
             i - n \in 1 .. Len(<<Sync(h)>>) /\ wire'[i] = <<Sync(h)>>[i - n]
        /\ socket' \in Sockets
        /\ (socket' = "open" => socket = "open" /\ Len(wire') = n + Len(<<Sync(h)>>))
    BY <1>4, <1>7, SendFacts
  <2>2. n \in Nat /\ DOMAIN wire = 1 .. n
    BY LinkFacts
  <2>3. \A i \in (n + 1) .. Len(wire') : wire'[i] = Sync(h) /\ i = n + 1
    <3> TAKE i \in (n + 1) .. Len(wire')
    <3>1. i - n \in 1 .. 1 /\ wire'[i] = <<Sync(h)>>[i - n]
      BY <1>7, <2>1
    <3>2. i - n = 1 /\ i = n + 1
      <4>1. n \in Int /\ i \in Int /\ i - n \in 1 .. 1
        BY <2>2, <3>1
      <4> HIDE DEF n
      <4> QED BY <4>1
    <3> QED BY <1>7, <3>1, <3>2
  <2> QED BY <1>7, <2>1, <2>2, <2>3
<1>9. /\ \A i \in DOMAIN (wire') : wire'[i].type # "gap" => Known(wire[i].cursor)'
      /\ \A i \in DOMAIN wire : wire[i].type = "batch" =>
           wire'[i] = wire[i] /\ Continues(wire[i], PointsAt(i - 1))'
  BY <1>3, <1>4, <1>7, SendPoints
<1>30. n \in Nat /\ Len(wire') \in Nat /\ DOMAIN (wire') = 1 .. Len(wire') /\ Len(wire') <= n + 1
  BY <1>8
<1>10. /\ \A i \in DOMAIN (wire') : \/ i \in DOMAIN wire /\ wire'[i] = wire[i] /\ wire'[i].type # "sync"
                                    \/ i = n + 1 /\ wire'[i] = Sync(h)
       /\ client.got = {}
  <2>1. client.got = {} /\ \A i \in DOMAIN wire : wire[i].type # "sync"
    BY <1>0, <1>1 DEF WireInv
  <2>2. ASSUME NEW i \in DOMAIN (wire')
        PROVE  \/ i \in DOMAIN wire /\ wire'[i] = wire[i] /\ wire'[i].type # "sync"
               \/ i = n + 1 /\ wire'[i] = Sync(h)
    <3>1. CASE i \in 1 .. n
      BY <1>8, <2>1, <3>1
    <3>2. CASE i \notin 1 .. n
      <4>1. i \in 1 .. Len(wire')
        BY <1>8
      <4>2. i \in (n + 1) .. Len(wire')
        <5> HIDE DEF n
        <5> QED BY <1>30, <3>2, <4>1
      <4> QED BY <1>8, <4>2
    <3> QED BY <3>1, <3>2
  <2> QED BY <2>1, <2>2
<1>11. session' = session /\ (socket' = "open" => session) /\ frame' \in SubscribeFrames /\ ~ Subscribing'
      /\ frame'.stage # "synced"
  <2>1. Idle \in SubscribeFrames /\ Idle.stage = "idle"
    BY DEF Idle, SubscribeFrames, Positions
  <2> QED BY <1>4, <1>8, <2>1, Unchanged DEF Subscribing
<1>12. LinkOK'
  BY <1>0, <1>4, <1>5, <1>6, <1>8, <1>11 DEF LinkOK
<1>13. QueueInv'
  <2>1. \A i \in DOMAIN (tail') : i = 1
    BY <1>6
  <2> QED BY <1>5, <1>6, <1>11, <2>1 DEF QueueInv
<1>14. CursorsKnown'
  <2>1. \A c : Known(c) => Known(c)'
    BY <1>0, Stable
  <2>2. /\ \A c \in client.points \cup client.got : Known(c)'
        /\ client'.base # NoCursor => Known(client.base)'
    BY <1>0, <1>4, <2>1 DEF CursorsKnown
  <2>3. \A c \in sub'.issued \cup sub'.acked \cup {sub'.initial, sub'.issuedLast, sub'.ackedLast} : Known(c)'
    BY <1>3, <1>5, <2>1
  <2>4. ReadsKnown'
    BY <1>6 DEF ReadsKnown
  <2> QED BY <1>4, <1>9, <1>11, <2>2, <2>3, <2>4 DEF CursorsKnown
<1>15. SubscriptionInv'
  BY <1>3, <1>5 DEF SubscriptionInv, AtOrBefore
<1>16. ClientInv'
  BY <1>4, ClientStays
<1>17. WireInv'
  <2>1. Sync(h).type # "batch"
    BY <1>7
  <2>2. FramesContinue'
    <3> SUFFICES ASSUME NEW i \in DOMAIN (wire'), wire'[i].type = "batch"
                 PROVE  Continues(wire[i], PointsAt(i - 1))'
      BY DEF FramesContinue
    <3> QED BY <1>9, <1>10, <2>1
  <2>3. ASSUME NEW i \in DOMAIN (wire'), wire'[i].type = "sync"
        PROVE  /\ wire'[i].cursor = h
               /\ \A j \in DOMAIN (wire') : j # i => wire'[j].type # "sync"
               /\ \A j \in DOMAIN (wire') : ~ (j > i)
    <3>1. i = n + 1 /\ wire'[i] = Sync(h)
      BY <1>10, <2>3
    <3>3. \A j \in DOMAIN (wire') : ~ (j > i)
      <4> HIDE DEF n
      <4>1. \A j \in DOMAIN (wire') : j \in Int /\ j <= n + 1
        BY <1>30
      <4> QED BY <1>30, <3>1, <4>1
    <3>4. \A j \in DOMAIN (wire') : j # i => wire'[j].type # "sync"
      BY <1>10, <3>1
    <3> QED BY <1>7, <3>1, <3>3, <3>4
  <2> QED BY <1>3, <1>4, <1>5, <1>10, <1>11, <2>2, <2>3 DEF WireInv
<1>18. Covered'
  <2>1. SUFFICES ASSUME socket' = "open"
                 PROVE  Within(start, Ahead')
    <3>1. HasFirst'
      BY <1>6 DEF HasFirst
    <3> QED BY <1>5, <2>1, <3>1 DEF Covered
  <2>2. Len(wire') = n + 1 /\ wire'[n + 1] = Sync(h)
    BY <1>8, <2>1
  <2>3. start \in Ahead'
    <3>1. Ahead' = PointsOf(client.points, client.anew, wire', n + 1)
      BY <1>4, <2>2 DEF Ahead, PointsAt
    <3>2. CASE client.anew
      <4>1. Resets(wire'[n + 1], client.anew) /\ n + 1 \in Nat \ {0}
        BY <1>7, <1>8, <2>2, <3>2 DEF Resets
      <4>2. PointsOf(client.points, client.anew, wire', n + 1) = {wire'[n + 1].cursor}
        BY <4>1, PointsReset
      <4> QED BY <1>3, <1>7, <2>2, <3>1, <3>2, <4>2
    <3>3. CASE ~ client.anew
      <4>1. KeptTo(wire', client.anew, 0, n + 1)
        BY <3>3 DEF KeptTo, Resets
      <4> QED BY <1>3, <3>1, <3>3, <4>1, InPoints
    <3> QED BY <3>2, <3>3
  <2> QED BY <1>3, <2>3 DEF Within
<1> QED BY <1>12, <1>13, <1>14, <1>15, <1>16, <1>17, <1>18 DEF FeedInv, TypeInv

\* The batches of a delivery are frames at known positions.
LEMMA FeedFrames ==
  ASSUME FeedInv, AtStage("read")
  PROVE  LET from == tail[1].from
             head == tail[1].head
             B == Batches(from, head)
         IN  /\ B \in Seq(Frames) /\ Len(B) \in Nat \ {0}
             /\ from \in Cursors /\ head \in Cursors /\ Known(head)
             /\ B[Len(B)].cursor = head
             /\ \A k \in 1 .. Len(B) :
                  /\ B[k] \in Frames /\ B[k].type = "batch"
                  /\ B[k].cursor \in Cursors /\ Known(B[k].cursor)
                  /\ from.seq <= B[k].cursor.seq
                  /\ StartOf(B, from, k) \in Cursors
                  /\ StartOf(B, from, k).seq <= B[k].cursor.seq
                  /\ B[k].events = Visible(StartOf(B, from, k), B[k].cursor)
<1>1. PICK from \in Positions, head \in Positions : from = tail[1].from /\ head = tail[1].head
  BY LinkFacts DEF AtStage
<1>2. GameOK /\ tail # <<>> /\ tail[1].stage = "read" /\ 1 \in DOMAIN tail
  BY LinkFacts DEF AtStage, FeedInv, TypeInv
<1>3. Known(from) /\ Known(head) /\ from.seq <= head.seq
  <2>1. Known(from)
    BY <1>1, <1>2, FromKnown
  <2>2. Known(head) /\ AtOrBefore(from, head)
    BY <1>1, <1>2 DEF FeedInv, CursorsKnown, ReadsKnown
  <2> QED BY <2>1, <2>2 DEF AtOrBefore
<1>4. /\ from \in Cursors /\ from.seq \in Nat /\ from.seq \in 1 .. Len(log)
      /\ head \in Cursors /\ head.seq \in Nat /\ head.seq \in 1 .. Len(log)
  BY <1>1, <1>2, <1>3, KnownIsCursor
<1>5. from \in [seq : Nat, ver : Int] /\ head \in [seq : Nat, ver : Int]
  BY <1>4 DEF Cursors
<1>0. from.seq <= head.seq
  BY <1>3
<1> DEFINE B == Batches(from, head)
           m == Len(B)
<1>6. /\ m \in Nat \ {0} /\ DOMAIN B = 1 .. m /\ B = [k \in 1 .. m |-> B[k]]
      /\ B[m].cursor = head
      /\ \A k \in 1 .. m :
           /\ B[k] = Batch(B[k].cursor, B[k].events)
           /\ B[k].events = Visible(StartOf(B, from, k), B[k].cursor)
           /\ StartOf(B, from, k).seq <= B[k].cursor.seq
           /\ from.seq <= B[k].cursor.seq
           /\ B[k].cursor.seq <= head.seq
           /\ \/ B[k].cursor = head
              \/ /\ B[k].cursor.seq \in Visible(from, head)
                 /\ B[k].cursor.ver = log[B[k].cursor.seq].ver
                 /\ B[k].cursor = [seq |-> B[k].cursor.seq, ver |-> B[k].cursor.ver]
  BY <1>0, <1>5, BatchesFollow
<1> HIDE DEF B
<1>7. \A k \in 1 .. m : B[k].cursor \in Cursors /\ Known(B[k].cursor)
  <2> TAKE k \in 1 .. m
  <2>1. CASE B[k].cursor = head
    BY <1>3, <1>4, <2>1
  <2>2. CASE B[k].cursor # head
    <3> DEFINE c == B[k].cursor
    <3>1. c.seq \in Visible(from, head) /\ c.ver = log[c.seq].ver /\ c = [seq |-> c.seq, ver |-> c.ver]
      BY <1>6, <2>2
    <3> HIDE DEF c
    <3>2. c.seq \in 1 .. Len(log)
      <4>1. c.seq \in (from.seq + 1) .. head.seq
        BY <3>1 DEF Visible
      <4>2. \A f, h, n, i \in Int : /\ f \in 1 .. n /\ h \in 1 .. n
                                     /\ i \in (f + 1) .. h
                                     => i \in 1 .. n
        OBVIOUS
      <4>3. from.seq \in Int /\ head.seq \in Int /\ Len(log) \in Int
        BY <1>2, <1>4, LogFacts
      <4>4. c.seq \in Int
        BY <4>1
      <4> QED BY <1>4, <4>1, <4>2, <4>3, <4>4
    <3>3. /\ log[c.seq].ver \in Nat /\ log[c.seq].ver <= version /\ version \in Nat
          /\ version <= MaxEvents + MaxOverrides /\ Len(log) \in 1 .. MaxEvents
      BY <1>2, <3>2, LogFacts
    <3>4. Known(c)
      BY <3>1, <3>2, <3>3 DEF Known
    <3>5. c.seq \in 0 .. MaxEvents /\ c.ver \in 0 .. (MaxEvents + MaxOverrides)
      <4>1. \A i, n \in Nat : i \in 1 .. n /\ n \in 1 .. MaxEvents => i \in 0 .. MaxEvents
        OBVIOUS
      <4>2. \A x, v \in Nat : x <= v /\ v <= MaxEvents + MaxOverrides
                                => x \in 0 .. (MaxEvents + MaxOverrides)
        OBVIOUS
      <4>3. c.seq \in Nat /\ Len(log) \in Nat
        BY <3>2, <3>3
      <4> QED BY <3>1, <3>2, <3>3, <4>1, <4>2, <4>3
    <3>6. c \in Cursors
      BY <3>1, <3>5 DEF Cursors
    <3> QED BY <3>4, <3>6 DEF c
  <2> QED BY <2>1, <2>2
<1>8. \A k \in 1 .. m : StartOf(B, from, k) \in Cursors
  <2> TAKE k \in 1 .. m
  <2>1. k # 1 => k - 1 \in 1 .. m
    BY <1>6
  <2> QED BY <1>4, <1>7, <2>1 DEF StartOf
<1>9. \A k \in 1 .. m : B[k] \in Frames /\ B[k].type = "batch"
  <2> TAKE k \in 1 .. m
  <2>1. /\ B[k] = Batch(B[k].cursor, B[k].events) /\ B[k].cursor \in Cursors
        /\ B[k].events = Visible(StartOf(B, from, k), B[k].cursor)
        /\ StartOf(B, from, k) \in Cursors
    BY <1>6, <1>7, <1>8
  <2>2. B[k].events \in SUBSET (1 .. MaxEvents)
    <3> DEFINE s == StartOf(B, from, k).seq
               c == B[k].cursor.seq
    <3>1. s \in 0 .. MaxEvents /\ c \in 0 .. MaxEvents
      BY <2>1 DEF Cursors
    <3>2. \A i \in (s + 1) .. c : i \in 1 .. MaxEvents
      <4> HIDE DEF s, c
      <4> QED BY <3>1
    <3> QED BY <2>1, <3>2 DEF Visible
  <2> QED BY <2>1, <2>2 DEF Batch, Frames
<1>10. B \in Seq(Frames)
  <2>1. B \in [1 .. m -> Frames]
    BY <1>6, <1>9
  <2> HIDE DEF m
  <2> QED BY <1>6, <2>1
<1> QED BY <1>1, <1>3, <1>4, <1>6, <1>7, <1>8, <1>9, <1>10 DEF B

\* A position between others stays so when there are more.
LEMMA WithinMore ==
  ASSUME NEW p, NEW P, NEW Q, P \subseteq Q, Within(p, P)
  PROVE  Within(p, Q)
BY DEF Within

\* Nothing to send: a first delivery finds everything issued at its own place.
LEMMA SilentStep ==
  ASSUME FeedInv, GameOK', LogExtends, SendFeed, NothingToSend(tail[1])
  PROVE  FeedInv'
<1>1. /\ tail # <<>> /\ tail[1].stage = "read" /\ tail' = Tail(tail) /\ 1 \in DOMAIN tail
      /\ UNCHANGED <<sub, socket, session, frame, wire, client>>
  BY LinkFacts DEF SendFeed, AtStage, OpDone
<1>2. SubSame /\ LinkFalls
  BY <1>1, Unchanged
<1>3. ASSUME tail[1].kind = "first", socket = "open"
      PROVE  \A c \in sub.issued : Within(c, Ahead)
  <2>1. PICK head \in Positions : head = tail[1].head
    BY <1>1, LinkFacts
  <2>2. sub.issuedLast = sub.initial /\ sub.state \in {"live", "closing"}
    BY <1>1, <1>3, QueueFacts
  <2>3. AtOrBefore(sub.issuedLast, head) /\ \A c \in sub.issued : c.seq <= head.seq
    BY <1>1, <2>1 DEF FeedInv, CursorsKnown, ReadsKnown
  <2>4. head.seq <= sub.initial.seq
    BY <2>1, <2>2, <2>3 DEF NothingToSend, AtOrBefore
  <2>5. \A c \in sub.issued : sub.initial.seq <= c.seq
    BY <2>2 DEF FeedInv, SubscriptionInv
  <2>6. \A c \in sub.issued : c.seq = sub.initial.seq
    <3>1. \A c \in sub.issued : c.seq \in Int
      BY LinkFacts DEF Cursors
    <3>2. head.seq \in Int /\ sub.initial.seq \in Int
      BY LinkFacts DEF Positions, Cursors, NoCursor
    <3> QED BY <2>3, <2>4, <2>5, <3>1, <3>2
  <2>7. Within(sub.initial, Ahead)
    BY <1>3, <2>2 DEF FeedInv, Covered
  <2> QED BY <2>6, <2>7 DEF Within
<1> QED BY <1>1, <1>2, <1>3, EndStep

\* A delivery sends its batches.
LEMMA SendStep ==
  ASSUME FeedInv, GameOK', LogExtends, SendFeed, ~ NothingToSend(tail[1])
  PROVE  FeedInv'
<1>0. /\ GameOK /\ LinkOK /\ QueueInv /\ CursorsKnown /\ SubscriptionInv /\ ClientInv
      /\ WireInv /\ Covered
  BY DEF FeedInv, TypeInv
<1>1. /\ AtStage("read") /\ tail # <<>> /\ tail[1].stage = "read" /\ tail' = Tail(tail)
      /\ 1 \in DOMAIN tail /\ sub.state \in {"live", "closing"}
      /\ UNCHANGED <<session, frame, client>>
  <2>1. tail # <<>> /\ tail[1].stage = "read" /\ tail' = Tail(tail) /\ UNCHANGED <<session, frame, client>>
    BY DEF SendFeed, AtStage, OpDone
  <2>2. 1 \in DOMAIN tail
    BY <2>1, LinkFacts
  <2> QED BY <2>1, <2>2, QueueFacts DEF SendFeed
<1>2. PICK from, head, B, n, m :
        /\ from = tail[1].from /\ head = tail[1].head /\ B = Batches(from, head)
        /\ n = Len(wire) /\ m = Len(B)
  OBVIOUS
<1>3. /\ Send(B)
      /\ sub' = [sub EXCEPT !.issued = @ \cup CursorsOf(B), !.issuedLast = head]
  BY <1>2 DEF SendFeed
<1>4. /\ B \in Seq(Frames) /\ m \in Nat \ {0}
      /\ from \in Cursors /\ head \in Cursors /\ Known(head)
      /\ B[m].cursor = head
      /\ \A k \in 1 .. m :
           /\ B[k] \in Frames /\ B[k].type = "batch"
           /\ B[k].cursor \in Cursors /\ Known(B[k].cursor)
           /\ from.seq <= B[k].cursor.seq
           /\ StartOf(B, from, k) \in Cursors
           /\ StartOf(B, from, k).seq <= B[k].cursor.seq
           /\ B[k].events = Visible(StartOf(B, from, k), B[k].cursor)
  BY <1>1, <1>2, FeedFrames
<1>5. DOMAIN B = 1 .. m /\ n \in Nat /\ DOMAIN wire = 1 .. n
  BY <1>2, <1>4, LinkFacts, LenProperties
<1>6. /\ wire' \in Seq(Frames) /\ Len(wire') <= MaxPending
      /\ Len(wire') \in Nat /\ DOMAIN (wire') = 1 .. Len(wire')
      /\ n <= Len(wire') /\ \A i \in 1 .. n : wire'[i] = wire[i]
      /\ \A i \in (n + 1) .. Len(wire') : i - n \in 1 .. m /\ wire'[i] = B[i - n]
      /\ socket' \in Sockets
      /\ (socket' = "open" => socket = "open" /\ Len(wire') = n + m)
      /\ (socket # "open" => wire' = wire)
  BY <1>2, <1>3, <1>4, SendFacts
<1>7. /\ \A k \in n .. Len(wire') :
           PointsAt(k)' = Ahead \cup {wire'[i].cursor :
                            i \in {j \in (n + 1) .. k : Gives(wire'[j], client.anew)}}
      /\ \A i \in DOMAIN (wire') : wire'[i].type # "gap" => Known(wire[i].cursor)'
      /\ \A i \in DOMAIN wire : wire[i].type = "batch" =>
           wire'[i] = wire[i] /\ Continues(wire[i], PointsAt(i - 1))'
  <2>1. \A i \in 1 .. Len(B) : ~ Resets(B[i], client.anew) /\ Known(B[i].cursor)
    BY <1>2, <1>4 DEF Resets
  <2> QED BY <1>1, <1>2, <1>3, <1>4, <2>1, SendPoints
<1>8. \A i \in DOMAIN (wire') :
        \/ i \in DOMAIN wire /\ wire'[i] = wire[i]
        \/ /\ i \in (n + 1) .. Len(wire') /\ i - n \in 1 .. m
           /\ wire'[i] = B[i - n] /\ wire'[i].type = "batch"
  <2> TAKE i \in DOMAIN (wire')
  <2>1. CASE i \in 1 .. n
    BY <1>5, <1>6, <2>1
  <2>2. CASE i \notin 1 .. n
    <3>1. i \in (n + 1) .. Len(wire')
      BY <1>5, <1>6, <2>2
    <3> QED BY <1>4, <1>6, <3>1
  <2> QED BY <2>1, <2>2
<1>9. \A k \in n .. Len(wire') :
        /\ Ahead \subseteq PointsAt(k)'
        /\ \A i \in (n + 1) .. k : wire'[i].cursor \in PointsAt(k)'
        /\ PointsAt(k)' \in SUBSET Cursors
  <2> TAKE k \in n .. Len(wire')
  <2>1. PointsAt(k)' = Ahead \cup {wire'[i].cursor :
                         i \in {j \in (n + 1) .. k : Gives(wire'[j], client.anew)}}
    BY <1>7
  <2>2. \A i \in (n + 1) .. k : i \in (n + 1) .. Len(wire')
    BY <1>5, <1>6
  <2>3. \A i \in (n + 1) .. k : Gives(wire'[i], client.anew) /\ wire'[i].cursor \in Cursors
    <3> TAKE i \in (n + 1) .. k
    <3>1. i - n \in 1 .. m /\ wire'[i] = B[i - n]
      BY <1>6, <2>2
    <3> QED BY <1>4, <3>1 DEF Gives
  <2>4. Ahead \in SUBSET Cursors
    <3>1. n \in 0 .. Len(wire) /\ n = Len(wire)
      BY <1>2, <1>5
    <3> QED BY <3>1, PointsKnown DEF Ahead
  <2> QED BY <2>1, <2>3, <2>4
<1>10. socket = "open" => Within(from, Ahead)
  <2>1. SUFFICES ASSUME socket = "open" PROVE Within(from, Ahead)
    OBVIOUS
  <2>2. \/ from \in {sub.initial, sub.issuedLast}
        \/ tail[1].kind = "resync" /\ from \in sub.issued
    BY <1>1, <1>2, FromKnown
  <2>3. /\ Within(sub.initial, Ahead) /\ Within(sub.issuedLast, Ahead)
        /\ ~ HasFirst => \A c \in sub.issued : Within(c, Ahead)
    BY <1>0, <1>1, <2>1 DEF Covered
  <2>4. tail[1].kind = "resync" => ~ HasFirst
    <3>1. \A i \in DOMAIN tail : i > 1 => tail[i].kind # "first"
      BY QueueFacts
    <3>2. \A i \in DOMAIN tail : i = 1 \/ i > 1
      BY LinkFacts
    <3> QED BY <3>1, <3>2 DEF HasFirst
  <2> QED BY <2>2, <2>3, <2>4
<1>11. FramesContinue'
  <2> SUFFICES ASSUME NEW i \in DOMAIN (wire'), wire'[i].type = "batch"
               PROVE  Continues(wire[i], PointsAt(i - 1))'
    BY DEF FramesContinue
  <2>1. CASE i \in DOMAIN wire /\ wire'[i] = wire[i]
    BY <1>7, <2>1
  <2>2. CASE i \in (n + 1) .. Len(wire') /\ i - n \in 1 .. m /\ wire'[i] = B[i - n]
    <3>1. PICK j, f, P : j = i - n /\ f = wire'[i] /\ P = PointsAt(i - 1)'
      OBVIOUS
    <3>2. i - 1 \in n .. Len(wire') /\ j \in 1 .. m /\ f = B[j]
      BY <1>5, <1>6, <2>2, <3>1
    <3>3. P \in SUBSET Cursors /\ Ahead \subseteq P
          /\ \A k \in (n + 1) .. (i - 1) : wire'[k].cursor \in P
      BY <1>9, <3>1, <3>2
    <3>4. /\ StartOf(B, from, j) \in Cursors /\ f \in Frames /\ Known(f.cursor)
          /\ StartOf(B, from, j).seq <= f.cursor.seq
          /\ f.events = Visible(StartOf(B, from, j), f.cursor)
      BY <1>4, <3>2
    <3>5. Within(StartOf(B, from, j), P)
      <4>1. CASE j = 1
        <5>1. socket = "open"
          <6>1. \A x, y, l \in Int : x \in (y + 1) .. l => l # y
            OBVIOUS
          <6>2. i \in Int /\ n \in Int /\ Len(wire') \in Int /\ i \in (n + 1) .. Len(wire')
            BY <1>5, <1>6, <2>2
          <6>3. Len(wire') # n
            BY <6>1, <6>2
          <6> QED BY <1>2, <1>6, <6>3
        <5>2. Within(from, P)
          BY <1>10, <3>3, <5>1, WithinMore
        <5> QED BY <4>1, <5>2 DEF StartOf
      <4>2. CASE j # 1
        <5>1. i - 1 \in (n + 1) .. (i - 1) /\ i - 1 \in (n + 1) .. Len(wire')
              /\ (i - 1) - n = j - 1
          <6>1. \A x, y, l \in Int : /\ x \in (y + 1) .. l /\ x - y # 1
                                     => /\ x - 1 \in (y + 1) .. (x - 1)
                                        /\ x - 1 \in (y + 1) .. l
                                        /\ (x - 1) - y = (x - y) - 1
            OBVIOUS
          <6>2. i \in Int /\ n \in Int /\ Len(wire') \in Int /\ i \in (n + 1) .. Len(wire') /\ j = i - n
            BY <1>5, <1>6, <2>2, <3>1
          <6> QED BY <4>2, <6>1, <6>2
        <5>2. wire'[i - 1] = B[j - 1] /\ wire'[i - 1].cursor \in P
          BY <1>6, <3>3, <5>1
        <5>3. StartOf(B, from, j) \in P
          BY <4>2, <5>2 DEF StartOf
        <5>4. StartOf(B, from, j).seq <= StartOf(B, from, j).seq
          BY <3>4 DEF Cursors
        <5> QED BY <5>3, <5>4 DEF Within
      <4> QED BY <4>1, <4>2
    <3>6. Continues(f, P)
      BY <3>4, <3>5 DEF Continues
    <3>7. Continues(f, P)'
      BY <3>3, <3>4, <3>6, ToldStable
    <3> QED BY <3>1, <3>7
  <2> QED BY <1>8, <2>1, <2>2
<1>12. /\ sub' \in Subscriptions /\ sub'.state = sub.state /\ sub'.initial = sub.initial
       /\ sub'.acked = sub.acked /\ sub'.ackedLast = sub.ackedLast /\ sub'.issuedLast = head
       /\ sub'.issued = sub.issued \cup CursorsOf(B)
  <2>1. CursorsOf(B) \in SUBSET Cursors
    BY <1>4, <1>5 DEF CursorsOf
  <2>2. sub \in Subscriptions
    BY <1>0 DEF LinkOK
  <2> QED BY <1>3, <1>4, <2>1, <2>2 DEF Subscriptions, Positions
<1>13. \A c : c \in CursorsOf(B) <=> \E k \in 1 .. m : c = B[k].cursor
  BY <1>5 DEF CursorsOf
<1>14. \A k \in 1 .. m : B[k].cursor \in sub'.issued
  BY <1>12, <1>13
<1>15. ~ Subscribing /\ frame.stage # "synced"
  BY <1>0, <1>1 DEF QueueInv, Subscribing
<1>16. (socket' = "open" => socket = "open") /\ (~ session' => socket' # "open")
  BY <1>1, <1>6, Unchanged
<1>17. /\ tail' \in Seq(Operations) /\ ~ HasFirst' /\ ReadsKnown' /\ QueueInv'
  BY <1>1, <1>12, <1>16, QueueShifted DEF Subscribing
<1>18. LinkOK'
  BY <1>0, <1>1, <1>6, <1>12, <1>17 DEF LinkOK
<1>19. CursorsKnown'
  <2>1. \A c : Known(c) => Known(c)'
    BY <1>0, Stable
  <2>2. /\ \A c \in client.points \cup client.got : Known(c)'
        /\ client'.base # NoCursor => Known(client.base)'
    BY <1>0, <1>1, <2>1 DEF CursorsKnown
  <2>3. \A c \in sub'.issued \cup sub'.acked \cup {sub'.initial, sub'.issuedLast, sub'.ackedLast} : Known(c)'
    <3>1. \A c \in sub.issued \cup sub.acked \cup {sub.initial, sub.ackedLast} : Known(c)
      BY <1>0, <1>1 DEF CursorsKnown
    <3>2. \A c \in CursorsOf(B) : Known(c)
      BY <1>4, <1>13
    <3> QED BY <1>4, <1>12, <2>1, <3>1, <3>2
  <2> QED BY <1>1, <1>7, <1>15, <1>17, <2>2, <2>3 DEF CursorsKnown
<1>20. SubscriptionInv'
  <2>1. head \in sub'.issued
    BY <1>4, <1>14
  <2>2. sub.acked \subseteq sub'.issued \cup {sub.initial}
    BY <1>0, <1>1, <1>12 DEF SubscriptionInv
  <2>3. sub.initial.seq <= from.seq
    <3>1. from \in sub.issued \cup {sub.initial}
      BY <1>0, <1>1, <1>2, FromKnown DEF SubscriptionInv
    <3>2. sub.initial.seq \in Int
      BY LinkFacts DEF Positions, Cursors, NoCursor
    <3> QED BY <1>0, <1>1, <3>1, <3>2 DEF SubscriptionInv
  <2>4. \A c \in CursorsOf(B) : sub.initial.seq <= c.seq
    <3> TAKE c \in CursorsOf(B)
    <3>1. c \in Cursors /\ from.seq <= c.seq
      BY <1>4, <1>13
    <3>2. c.seq \in Int /\ from.seq \in Int /\ sub.initial.seq \in Int
      <4>1. sub.initial \in Positions /\ c \in Positions /\ from \in Positions
        BY <1>4, <3>1, LinkFacts DEF Positions
      <4>2. \A p \in Positions : p.seq \in Int
        BY DEF Positions, Cursors, NoCursor
      <4> QED BY <4>1, <4>2
    <3> QED BY <2>3, <3>1, <3>2
  <2> QED BY <1>0, <1>1, <1>12, <2>1, <2>2, <2>4 DEF SubscriptionInv
<1>21. ClientInv'
  BY <1>1, ClientStays
<1>22. WireInv'
  <2>1. \A i \in DOMAIN (wire') : wire'[i].type = "sync" => i \in DOMAIN wire /\ wire'[i] = wire[i]
    BY <1>8
  <2>2. ASSUME NEW i \in DOMAIN (wire'), wire'[i].type = "batch",
               i \in DOMAIN wire => wire[i].cursor \in sub.issued
        PROVE  wire'[i].cursor \in sub'.issued
    BY <1>8, <1>12, <1>14, <2>2
  <2>3. ASSUME NEW i \in DOMAIN (wire'), wire'[i].type = "sync"
        PROVE  /\ client.got = {} /\ sub.state = "live"
               /\ \A j \in DOMAIN (wire') : j # i => wire'[j].type # "sync"
               /\ client.anew => client.base.seq <= wire'[i].cursor.seq
               /\ wire'[i].cursor \in sub'.issued
               /\ \A j \in DOMAIN (wire') : j > i /\ wire'[j].type = "batch" => wire'[j].cursor \in sub'.issued
    <3>1. i \in DOMAIN wire /\ wire'[i] = wire[i] /\ wire[i].type = "sync"
      BY <2>1, <2>3
    <3>2. /\ client.got = {} /\ sub.state = "live"
          /\ \A j \in DOMAIN wire : j # i => wire[j].type # "sync"
          /\ client.anew => client.base.seq <= wire[i].cursor.seq
          /\ wire[i].cursor \in sub.issued
          /\ \A j \in DOMAIN wire : j > i /\ wire[j].type = "batch" => wire[j].cursor \in sub.issued
      BY <1>0, <3>1 DEF WireInv
    <3>3. \A j \in DOMAIN (wire') : j # i => wire'[j].type # "sync"
      BY <2>1, <3>2
    <3>4. \A j \in DOMAIN (wire') : j > i /\ wire'[j].type = "batch" => wire'[j].cursor \in sub'.issued
      <4> TAKE j \in DOMAIN (wire')
      <4> HAVE j > i /\ wire'[j].type = "batch"
      <4>1. CASE j \in DOMAIN wire /\ wire'[j] = wire[j]
        BY <2>2, <3>2, <4>1
      <4>2. CASE j - n \in 1 .. m /\ wire'[j] = B[j - n]
        BY <1>14, <4>2
      <4> QED BY <1>8, <4>1, <4>2
    <3> QED BY <1>12, <3>1, <3>2, <3>3, <3>4
  <2>4. ASSUME client.got # {}
        PROVE  /\ sub.state = "live" /\ client.got \subseteq sub'.issued
               /\ \A j \in DOMAIN (wire') : wire'[j].type = "batch" => wire'[j].cursor \in sub'.issued
    <3>1. /\ sub.state = "live" /\ client.got \subseteq sub.issued
          /\ \A j \in DOMAIN wire : wire[j].type = "batch" => wire[j].cursor \in sub.issued
      BY <1>0, <2>4 DEF WireInv
    <3>2. \A j \in DOMAIN (wire') : wire'[j].type = "batch" => wire'[j].cursor \in sub'.issued
      BY <1>8, <1>12, <1>14, <3>1
    <3> QED BY <1>12, <3>1, <3>2
  <2> QED BY <1>1, <1>11, <1>12, <1>15, <2>3, <2>4 DEF WireInv, Subscribing
<1>23. Covered'
  <2>1. SUFFICES ASSUME socket' = "open"
                 PROVE  /\ Within(sub.initial, Ahead') /\ Within(head, Ahead')
                        /\ \A c \in sub'.issued : Within(c, Ahead')
    BY <1>12 DEF Covered
  <2>2. socket = "open" /\ Len(wire') = n + m
    BY <1>6, <2>1
  <2>3. /\ Ahead \subseteq Ahead'
        /\ \A k \in 1 .. m : B[k].cursor \in Ahead'
    <3>1. PICK k \in n .. Len(wire') : k = Len(wire')
      <4>1. Len(wire') \in n .. Len(wire')
        BY <1>5, <1>6
      <4> QED BY <4>1
    <3>2. Ahead' = PointsAt(k)'
      BY <3>1 DEF Ahead
    <3>3. \A j \in 1 .. m : n + j \in (n + 1) .. k /\ (n + j) - n = j /\ n + j \in (n + 1) .. Len(wire')
      BY <1>4, <1>5, <2>2, <3>1
    <3>4. \A j \in 1 .. m : wire'[n + j] = B[j]
      BY <1>6, <3>3
    <3> QED BY <1>9, <3>2, <3>3, <3>4
  <2>4. /\ Within(sub.initial, Ahead)
        /\ ~ HasFirst => \A c \in sub.issued : Within(c, Ahead)
    BY <1>0, <1>1, <2>2 DEF Covered
  <2>5. head \in Ahead' /\ head.seq \in Int
    <3>1. m \in 1 .. m /\ head.seq \in Int
      BY <1>4 DEF Cursors
    <3> QED BY <1>4, <2>3, <3>1
  <2>6. ASSUME NEW c \in sub.issued PROVE Within(c, Ahead')
    <3>1. /\ c \in Cursors /\ c.seq <= head.seq /\ sub.initial.seq <= c.seq
          /\ sub.initial.seq \in Int /\ c.seq \in Int
      <4>1. c \in Cursors /\ sub.initial \in Positions
        BY LinkFacts
      <4>2. c.seq <= head.seq
        BY <1>0, <1>1, <1>2 DEF CursorsKnown, ReadsKnown
      <4>3. sub.initial.seq <= c.seq
        BY <1>0, <1>1 DEF SubscriptionInv
      <4> QED BY <4>1, <4>2, <4>3 DEF Positions, Cursors, NoCursor
    <3>2. PICK p \in Ahead : p.seq <= sub.initial.seq
      BY <2>4 DEF Within
    <3>3. p \in Ahead' /\ p.seq \in Int
      <4>1. n \in 0 .. Len(wire) /\ n = Len(wire)
        BY <1>2, <1>5
      <4>2. p \in Cursors
        BY <4>1, PointsKnown DEF Ahead
      <4> QED BY <2>3, <4>2 DEF Cursors
    <3>4. p.seq <= c.seq
      BY <3>1, <3>2, <3>3
    <3> QED BY <2>5, <3>1, <3>3, <3>4 DEF Within
  <2>7. ASSUME NEW c \in CursorsOf(B) PROVE Within(c, Ahead')
    <3>1. c \in Ahead' /\ c \in Cursors
      BY <1>4, <1>13, <2>3
    <3>2. c.seq <= c.seq
      BY <3>1 DEF Cursors
    <3> QED BY <3>1, <3>2 DEF Within
  <2>8. Within(head, Ahead')
    BY <2>5 DEF Within
  <2> QED BY <1>12, <2>3, <2>4, <2>6, <2>7, <2>8, WithinMore
<1> QED BY <1>11, <1>17, <1>18, <1>19, <1>20, <1>21, <1>22, <1>23, <1>0 DEF FeedInv, TypeInv

-------------------------------------------------------------------------------
(* The client takes a frame.                                               *)

\* What the first frame does to the client.
LEMMA Received ==
  ASSUME FeedInv, Receive
  PROVE  /\ 1 \in DOMAIN wire /\ wire[1] \in Frames /\ wire[1].type \in {"sync", "gap", "batch"}
         /\ UNCHANGED <<game, connection>>
         /\ wire' \in Seq(Frames) /\ Len(wire') = Len(wire) - 1 /\ Len(wire') \in Nat
         /\ DOMAIN (wire') = 1 .. Len(wire')
         /\ \A i \in DOMAIN (wire') : i + 1 \in DOMAIN wire /\ i + 1 # 1 /\ wire'[i] = wire[i + 1]
         /\ client' \in Clients /\ client'.anew = client.anew
         /\ client'.points = AfterFirst(client.points, client.anew, wire[1])
         /\ \/ /\ Resets(wire[1], client.anew)
               /\ client'.base = wire[1].cursor /\ client'.heard = {}
               /\ client'.points = {wire[1].cursor} /\ client'.got = {wire[1].cursor}
            \/ /\ wire[1].type = "sync" /\ ~ client.anew
               /\ client'.base = client.base /\ client'.heard = client.heard
               /\ client'.points = client.points /\ client'.got = {wire[1].cursor}
            \/ /\ wire[1].type = "batch"
               /\ client'.base = client.base /\ client'.heard = client.heard \cup wire[1].events
               /\ client'.points = client.points \cup {wire[1].cursor}
               /\ client'.got = IF client.got = {} THEN {} ELSE client.got \cup {wire[1].cursor}
            \/ wire[1].type = "gap" /\ client' = client
         /\ wire[1].type # "gap" => Known(wire[1].cursor) /\ wire[1].cursor \in Cursors
<1>1. wire # <<>> /\ wire' = Tail(wire) /\ UNCHANGED <<game, connection>>
  BY DEF Receive
<1>2. wire \in Seq(Frames) /\ DOMAIN wire = 1 .. Len(wire) /\ Len(wire) \in Nat /\ client \in Clients
  BY LinkFacts DEF FeedInv, TypeInv, LinkOK
<1>3. /\ wire' \in Seq(Frames) /\ Len(wire') = Len(wire) - 1 /\ Len(wire) # 0
      /\ Head(wire) = wire[1]
      /\ \A i \in 1 .. (Len(wire) - 1) : wire'[i] = wire[i + 1]
  BY <1>1, <1>2, HeadTailProperties, EmptySeq
<1>4. /\ Len(wire') \in Nat /\ DOMAIN (wire') = 1 .. Len(wire') /\ 1 \in DOMAIN wire
      /\ \A i \in DOMAIN (wire') : i + 1 \in DOMAIN wire /\ i + 1 # 1 /\ wire'[i] = wire[i + 1]
  BY <1>2, <1>3, LenProperties
<1>5. wire[1] \in Frames /\ wire[1].type \in {"sync", "gap", "batch"} /\ wire[1].cursor \in Positions
  BY <1>4, LinkFacts
<1>6. wire[1].type # "gap" => Known(wire[1].cursor) /\ wire[1].cursor \in Cursors
  <2>1. wire[1].type # "gap" => Known(wire[1].cursor)
    BY <1>4 DEF FeedInv, CursorsKnown
  <2> QED BY <1>5, <2>1, KnownIsCursor DEF FeedInv, TypeInv
<1> DEFINE f == wire[1]
<1>7. client' = CASE f.type = "sync" /\ client.anew ->
                       [client EXCEPT !.base = f.cursor, !.heard = {}, !.points = {f.cursor},
                                      !.got = {f.cursor}]
                  [] f.type = "sync" /\ ~client.anew -> [client EXCEPT !.got = {f.cursor}]
                  [] f.type = "batch" ->
                       [client EXCEPT !.heard = @ \cup f.events, !.points = @ \cup {f.cursor},
                                      !.got = IF @ = {} THEN {} ELSE @ \cup {f.cursor}]
                  [] OTHER -> client
  BY <1>3 DEF Receive
<1>8. f.events \in SUBSET (1 .. MaxEvents) /\ (f.type # "gap" => f.cursor \in Cursors /\ f.cursor \in Positions)
  BY <1>5, <1>6 DEF Frames
<1> HIDE DEF f
<1>9. CASE f.type = "sync" /\ client.anew
  <2>1. client' = [client EXCEPT !.base = f.cursor, !.heard = {}, !.points = {f.cursor},
                                 !.got = {f.cursor}]
    BY <1>7, <1>9
  <2>2. /\ client' \in Clients /\ client'.anew = client.anew
        /\ client'.base = f.cursor /\ client'.heard = {}
        /\ client'.points = {f.cursor} /\ client'.got = {f.cursor}
    BY <1>2, <1>8, <1>9, <2>1 DEF Clients
  <2>3. Resets(f, client.anew) /\ AfterFirst(client.points, client.anew, f) = {f.cursor}
    BY <1>9 DEF Resets, AfterFirst
  <2> QED BY <1>1, <1>3, <1>4, <1>5, <1>6, <2>2, <2>3 DEF f
<1>10. CASE f.type = "sync" /\ ~ client.anew
  <2>1. client' = [client EXCEPT !.got = {f.cursor}]
    BY <1>7, <1>10
  <2>2. /\ client' \in Clients /\ client'.anew = client.anew
        /\ client'.base = client.base /\ client'.heard = client.heard
        /\ client'.points = client.points /\ client'.got = {f.cursor}
    BY <1>2, <1>8, <1>10, <2>1 DEF Clients
  <2>3. AfterFirst(client.points, client.anew, f) = client.points
    BY <1>10 DEF Resets, AfterFirst
  <2> QED BY <1>1, <1>3, <1>4, <1>5, <1>6, <1>10, <2>2, <2>3 DEF f
<1>11. CASE f.type = "batch"
  <2>1. client' = [client EXCEPT !.heard = @ \cup f.events, !.points = @ \cup {f.cursor},
                                 !.got = IF @ = {} THEN {} ELSE @ \cup {f.cursor}]
    BY <1>7, <1>11
  <2>2. /\ client' \in Clients /\ client'.anew = client.anew
        /\ client'.base = client.base /\ client'.heard = client.heard \cup f.events
        /\ client'.points = client.points \cup {f.cursor}
        /\ client'.got = IF client.got = {} THEN {} ELSE client.got \cup {f.cursor}
    BY <1>2, <1>8, <1>11, <2>1 DEF Clients
  <2>3. AfterFirst(client.points, client.anew, f) = client.points \cup {f.cursor}
    BY <1>11 DEF Resets, AfterFirst
  <2> QED BY <1>1, <1>3, <1>4, <1>5, <1>6, <1>11, <2>2, <2>3 DEF f
<1>12. CASE f.type = "gap"
  <2>1. client' = client
    BY <1>7, <1>12
  <2>2. AfterFirst(client.points, client.anew, f) = client.points
    BY <1>12 DEF Resets, AfterFirst
  <2> QED BY <1>1, <1>2, <1>3, <1>4, <1>5, <1>6, <1>12, <2>1, <2>2 DEF f
<1> QED BY <1>5, <1>9, <1>10, <1>11, <1>12 DEF f

\* A batch that continues what the client was told extends it to its cursor.
LEMMA BatchTold ==
  ASSUME FeedInv, NEW f \in Frames, f.type = "batch", f.cursor \in Cursors,
         Continues(f, client.points)
  PROVE  /\ client.points # {} /\ client.base.seq <= f.cursor.seq
         /\ client.heard \cup f.events = Told(client.base, client.points \cup {f.cursor})
         /\ \E m \in client.points \cup {f.cursor} :
              \A c \in client.points \cup {f.cursor} : c.seq <= m.seq
<1> DEFINE P == client.points
           b == client.base
           e == f.cursor
<1>1. /\ P \in SUBSET Cursors /\ b \in Positions /\ e \in Cursors /\ e \in Positions
      /\ client.heard = Told(b, P) /\ \A c \in P : b.seq <= c.seq
  BY LinkFacts DEF FeedInv, ClientInv, Positions
<1>2. PICK p \in Cursors : /\ Within(p, P) /\ p.seq <= e.seq
                           /\ f.events = Visible(p, e)
  BY DEF Continues
<1>3. PICK c0 \in P, d0 \in P : c0.seq <= p.seq /\ p.seq <= d0.seq
  BY <1>2 DEF Within
<1>4. /\ c0 \in Positions /\ d0 \in Positions /\ p \in Positions
      /\ c0.seq \in Int /\ d0.seq \in Int /\ p.seq \in Int /\ e.seq \in Int /\ b.seq \in Int
      /\ \A c \in P : c.seq \in Int
  <2>1. \A c \in Positions : c.seq \in Int
    BY DEF Positions, Cursors, NoCursor
  <2>2. c0 \in Positions /\ d0 \in Positions /\ p \in Positions /\ \A c \in P : c \in Positions
    BY <1>1, <1>2, <1>3 DEF Positions
  <2> HIDE DEF P, b, e
  <2> QED BY <1>1, <2>1, <2>2
<1>5. b.seq <= p.seq /\ b.seq <= e.seq
  <2>1. b.seq <= c0.seq
    BY <1>1, <1>3
  <2> HIDE DEF P, b, e
  <2> QED BY <1>2, <1>3, <1>4, <2>1
<1>6. Visible(b, e) = Visible(b, p) \cup Visible(p, e)
  BY <1>1, <1>2, <1>4, <1>5, VisibleParts
<1>7. Visible(b, p) \subseteq Visible(b, d0)
  BY <1>1, <1>3, <1>4, VisibleGrows
<1>8. Told(b, P \cup {e}) = Told(b, P) \cup Visible(b, e)
  BY DEF Told
<1>9. Visible(b, d0) \subseteq Told(b, P)
  BY <1>3 DEF Told
<1>10. PICK m \in P : \A c \in P : c.seq <= m.seq
  BY <1>3 DEF FeedInv, ClientInv
<1>11. \E x \in P \cup {e} : \A c \in P \cup {e} : c.seq <= x.seq
  <2>1. m.seq \in Int
    BY <1>4
  <2>2. CASE e.seq <= m.seq
    BY <1>10, <2>2
  <2>3. CASE m.seq <= e.seq
    <3>1. \A c \in P : c.seq <= e.seq
      <4> TAKE c \in P
      <4>1. c.seq \in Int /\ c.seq <= m.seq
        BY <1>4, <1>10
      <4> HIDE DEF P, e
      <4> QED BY <1>4, <2>1, <2>3, <4>1
    <3>2. e.seq <= e.seq
      <4> HIDE DEF e
      <4> QED BY <1>4
    <3>3. \A c \in P \cup {e} : c.seq <= e.seq
      BY <3>1, <3>2
    <3> QED BY <3>3
  <2>4. e.seq <= m.seq \/ m.seq <= e.seq
    <3> HIDE DEF P, e
    <3> QED BY <1>4, <2>1
  <2> QED BY <2>2, <2>3, <2>4
<1>12. client.heard \cup f.events = Told(b, P \cup {e})
  <2>1. client.heard = Told(b, P) /\ f.events = Visible(p, e)
    BY <1>1, <1>2
  <2>2. Visible(b, p) \subseteq Told(b, P)
    BY <1>7, <1>9
  <2> HIDE DEF P, b, e
  <2> QED BY <1>6, <1>8, <2>1, <2>2
<1>13. P # {}
  BY <1>3
<1> QED BY <1>5, <1>11, <1>12, <1>13

\* The client takes a frame: the rest of the wire is what it was.
LEMMA ReceiveStep ==
  ASSUME FeedInv, GameOK', LogExtends, Receive
  PROVE  FeedInv'
<1>0. /\ GameOK /\ LinkOK /\ QueueInv /\ CursorsKnown /\ SubscriptionInv /\ ClientInv
      /\ WireInv /\ Covered
  BY DEF FeedInv, TypeInv
<1>1. PICK f : f = wire[1]
  OBVIOUS
<1>2. /\ 1 \in DOMAIN wire /\ f \in Frames /\ f.type \in {"sync", "gap", "batch"}
      /\ UNCHANGED <<socket, session, frame, sub, tail, log>>
      /\ wire' \in Seq(Frames) /\ Len(wire') = Len(wire) - 1 /\ Len(wire') \in Nat
      /\ DOMAIN (wire') = 1 .. Len(wire')
      /\ \A i \in DOMAIN (wire') : i + 1 \in DOMAIN wire /\ i + 1 # 1 /\ wire'[i] = wire[i + 1]
      /\ client' \in Clients /\ client'.anew = client.anew
      /\ client'.points = AfterFirst(client.points, client.anew, f)
      /\ f.type # "gap" => Known(f.cursor) /\ f.cursor \in Cursors
  BY <1>1, Received DEF connection, game
<1>3. \/ /\ Resets(f, client.anew)
         /\ client'.base = f.cursor /\ client'.heard = {}
         /\ client'.points = {f.cursor} /\ client'.got = {f.cursor}
      \/ /\ f.type = "sync" /\ ~ client.anew
         /\ client'.base = client.base /\ client'.heard = client.heard
         /\ client'.points = client.points /\ client'.got = {f.cursor}
      \/ /\ f.type = "batch"
         /\ client'.base = client.base /\ client'.heard = client.heard \cup f.events
         /\ client'.points = client.points \cup {f.cursor}
         /\ client'.got = IF client.got = {} THEN {} ELSE client.got \cup {f.cursor}
      \/ f.type = "gap" /\ client' = client
  BY <1>1, Received
<1>4. \A c : Known(c) => Known(c)'
  BY <1>0, Stable
<1>5. \A k \in 0 .. Len(wire') : PointsAt(k)' = PointsAt(k + 1)
  <2> TAKE k \in 0 .. Len(wire')
  <2>1. k \in Nat /\ \A i \in 1 .. k : wire'[i] = wire[i + 1]
    <3>1. PICK n \in Nat : n = Len(wire')
      BY <1>2
    <3>2. k \in Nat /\ \A i \in 1 .. k : i \in 1 .. n
      BY <3>1
    <3> QED BY <1>2, <3>1, <3>2
  <2>2. PICK v : v = wire'
    OBVIOUS
  <2>3. PointsOf(AfterFirst(client.points, client.anew, wire[1]), client.anew, v, k)
          = PointsOf(client.points, client.anew, wire, k + 1)
    BY <2>1, <2>2, PointsReceived
  <2>4. PointsAt(k)' = PointsOf(client'.points, client'.anew, v, k)
    BY <2>2 DEF PointsAt, PointsOf, KeptTo, Resets, Gives
  <2> QED BY <1>1, <1>2, <2>3, <2>4 DEF PointsAt
<1>6. Ahead' = Ahead
  <2>1. PICK k \in 0 .. Len(wire') : k = Len(wire')
    BY <1>2
  <2>2. PointsAt(k)' = PointsAt(Len(wire))
    BY <1>2, <1>5, <2>1, LinkFacts
  <2> QED BY <2>1, <2>2 DEF Ahead
<1>7. LinkOK'
  BY <1>0, <1>2, LinkFacts DEF LinkOK
<1>8. QueueInv' /\ SubscriptionInv'
  BY <1>0, <1>2 DEF QueueInv, SubscriptionInv, Subscribing
<1>9. CursorsKnown'
  <2>1. \A c \in client'.points \cup client'.got : Known(c)'
    <3>1. \A c \in client.points \cup client.got : Known(c)
      BY <1>0 DEF CursorsKnown
    <3>2. f.type # "gap" => Known(f.cursor)
      BY <1>2
    <3>3. ASSUME NEW c \in client'.points \cup client'.got PROVE Known(c)
      BY <1>3, <3>1, <3>2, <3>3 DEF Resets
    <3> QED BY <1>4, <3>3
  <2>2. client'.base # NoCursor => Known(client.base)'
    <3>1. PICK b : b = client'.base
      OBVIOUS
    <3>2. b # NoCursor => Known(b)
      BY <1>0, <1>2, <1>3, <3>1 DEF CursorsKnown, Resets
    <3> QED BY <1>4, <3>1, <3>2
  <2>3. \A i \in DOMAIN (wire') : wire'[i].type # "gap" => Known(wire[i].cursor)'
    <3> TAKE i \in DOMAIN (wire')
    <3> HAVE wire'[i].type # "gap"
    <3>1. PICK c : c = wire'[i].cursor
      OBVIOUS
    <3>2. Known(c)
      BY <1>0, <1>2, <3>1 DEF CursorsKnown
    <3> QED BY <1>4, <3>1, <3>2
  <2>4. sub'.state # "none" =>
          \A c \in sub.issued \cup sub.acked \cup {sub.initial, sub.issuedLast, sub.ackedLast} : Known(c)'
    BY <1>0, <1>2, <1>4 DEF CursorsKnown
  <2>5. frame'.stage = "synced" => Known(frame.head)'
    BY <1>0, <1>2, <1>4 DEF CursorsKnown
  <2>6. ReadsKnown'
    BY <1>0, <1>2, <1>4 DEF CursorsKnown, ReadsKnown
  <2> QED BY <1>0, <1>2, <2>1, <2>2, <2>3, <2>4, <2>5, <2>6 DEF CursorsKnown
<1>10. f.type = "batch" => Continues(f, client.points)
  <2>1. PointsAt(0) = client.points
    <3>1. \A p : p \in PointsOf(client.points, client.anew, wire, 0) <=> p \in client.points
      BY InPoints DEF KeptTo
    <3> QED BY <3>1 DEF PointsAt
  <2>2. f.type = "batch" => Continues(wire[1], PointsAt(1 - 1))
    BY <1>0, <1>1, <1>2 DEF WireInv, FramesContinue
  <2> QED BY <1>1, <2>1, <2>2
<1>11. ClientInv'
  <2>1. CASE Resets(f, client.anew)
    <3>1. /\ client'.base = f.cursor /\ client'.heard = {} /\ client'.points = {f.cursor}
          /\ f.cursor \in Cursors /\ f.cursor \in Positions
      BY <1>2, <1>3, <2>1 DEF Resets, Positions
    <3>2. PICK c \in Cursors : c = f.cursor
      BY <3>1
    <3>3. Visible(c, c) = {} /\ c \in Positions /\ c.seq \in Int /\ c # NoCursor
      <4>1. c \in Positions /\ c.seq \in Int /\ c # NoCursor
        BY DEF Positions, Cursors, NoCursor
      <4>2. \A i \in (c.seq + 1) .. c.seq : FALSE
        BY <4>1
      <4> QED BY <4>1, <4>2 DEF Visible
    <3>4. Visible(c, c)' = {}
      BY <1>2, <3>3 DEF Visible
    <3>5. Told(c, {c})' = {}
      BY <3>4 DEF Told
    <3>6. Told(client.base, client.points)' = {}
      BY <3>1, <3>2, <3>5
    <3>7. client'.base = c /\ client'.points = {c}
      BY <3>1, <3>2
    <3>8. c.seq <= c.seq
      BY <3>3
    <3> QED BY <3>1, <3>3, <3>6, <3>7, <3>8 DEF ClientInv
  <2>2. CASE client'.base = client.base /\ client'.heard = client.heard /\ client'.points = client.points
    BY <2>2, ClientStays
  <2>3. CASE f.type = "batch"
    <3>1. /\ client'.base = client.base /\ client'.heard = client.heard \cup f.events
          /\ client'.points = client.points \cup {f.cursor} /\ f.cursor \in Cursors
      BY <1>2, <1>3, <2>3 DEF Resets
    <3>2. /\ client.points # {} /\ client.base.seq <= f.cursor.seq
          /\ client.heard \cup f.events = Told(client.base, client.points \cup {f.cursor})
          /\ \E m \in client.points \cup {f.cursor} :
               \A c \in client.points \cup {f.cursor} : c.seq <= m.seq
      BY <1>2, <1>10, <2>3, <3>1, BatchTold
    <3>3. PICK b, P : b = client'.base /\ P = client'.points
      OBVIOUS
    <3>4. Told(b, P)' = Told(b, P)
      BY <1>2 DEF Told, Visible
    <3>5. client'.heard = Told(client.base, client.points)'
      BY <3>1, <3>2, <3>3, <3>4
    <3>6. /\ client'.base # NoCursor /\ client'.points # {}
          /\ \A c \in client'.points : client'.base.seq <= c.seq
      BY <1>0, <3>1, <3>2 DEF ClientInv
    <3> QED BY <3>1, <3>2, <3>5, <3>6 DEF ClientInv
  <2> QED BY <1>2, <1>3, <2>1, <2>2, <2>3
<1>12. FramesContinue'
  <2> SUFFICES ASSUME NEW i \in DOMAIN (wire'), wire'[i].type = "batch"
               PROVE  Continues(wire[i], PointsAt(i - 1))'
    BY DEF FramesContinue
  <2>1. /\ i + 1 \in DOMAIN wire /\ wire'[i] = wire[i + 1]
        /\ i - 1 \in 0 .. Len(wire') /\ (i - 1) + 1 = i /\ (i + 1) - 1 = i /\ i \in 0 .. Len(wire)
    BY <1>2, LinkFacts
  <2>2. Continues(wire[i + 1], PointsAt(i))
    BY <1>0, <2>1 DEF WireInv, FramesContinue
  <2>3. PICK g, P : g = wire[i + 1] /\ P = PointsAt(i)
    OBVIOUS
  <2>4. g \in Frames /\ Known(g.cursor) /\ P \in SUBSET Cursors /\ Continues(g, P)
    BY <1>0, <2>1, <2>2, <2>3, LinkFacts, PointsKnown DEF CursorsKnown
  <2>5. Continues(g, P)'
    BY <2>4, ToldStable
  <2>6. g = wire'[i] /\ P = PointsAt(i - 1)'
    BY <1>5, <2>1, <2>3
  <2> QED BY <2>5, <2>6
<1>13. WireInv'
  <2>1. ASSUME NEW i \in DOMAIN (wire'), wire'[i].type = "sync"
        PROVE  /\ client'.got = {} /\ sub.state = "live"
               /\ \A j \in DOMAIN (wire') : j # i => wire'[j].type # "sync"
               /\ client.anew => client'.base.seq <= wire'[i].cursor.seq
               /\ wire'[i].cursor \in sub.issued
               /\ \A j \in DOMAIN (wire') : j > i /\ wire'[j].type = "batch" => wire'[j].cursor \in sub.issued
    <3>1. i + 1 \in DOMAIN wire /\ wire'[i] = wire[i + 1] /\ i + 1 # 1
      BY <1>2
    <3>2. /\ client.got = {} /\ sub.state = "live"
          /\ \A j \in DOMAIN wire : j # i + 1 => wire[j].type # "sync"
          /\ client.anew => client.base.seq <= wire[i + 1].cursor.seq
          /\ wire[i + 1].cursor \in sub.issued
          /\ \A j \in DOMAIN wire : j > i + 1 /\ wire[j].type = "batch" => wire[j].cursor \in sub.issued
      BY <1>0, <2>1, <3>1 DEF WireInv
    <3>3. f.type # "sync"
      BY <1>1, <1>2, <3>1, <3>2
    <3>4. client'.got = {} /\ client'.base = client.base
      BY <1>3, <3>2, <3>3 DEF Resets
    <3>5. \A j \in DOMAIN (wire') : /\ j + 1 \in DOMAIN wire /\ wire'[j] = wire[j + 1]
                                    /\ j # i => j + 1 # i + 1
                                    /\ j > i => j + 1 > i + 1
      BY <1>2
    <3> QED BY <3>1, <3>2, <3>4, <3>5
  <2>2. ASSUME client'.got # {}
        PROVE  /\ sub.state = "live" /\ client'.got \subseteq sub.issued
               /\ \A j \in DOMAIN (wire') : wire'[j].type = "batch" => wire'[j].cursor \in sub.issued
    <3>1. CASE f.type = "sync"
      <4>1. client'.got = {f.cursor}
        BY <1>3, <3>1
      <4>2. /\ sub.state = "live" /\ f.cursor \in sub.issued
            /\ \A j \in DOMAIN wire : j > 1 /\ wire[j].type = "batch" => wire[j].cursor \in sub.issued
        BY <1>0, <1>1, <1>2, <3>1 DEF WireInv
      <4>3. \A j \in DOMAIN (wire') : j + 1 \in DOMAIN wire /\ wire'[j] = wire[j + 1] /\ j + 1 > 1
        BY <1>2
      <4> QED BY <4>1, <4>2, <4>3
    <3>2. CASE f.type # "sync"
      <4>1. client.got # {} /\ client'.got \subseteq client.got \cup (IF f.type = "batch" THEN {f.cursor} ELSE {})
        BY <1>3, <2>2, <3>2 DEF Resets
      <4>2. /\ sub.state = "live" /\ client.got \subseteq sub.issued
            /\ \A j \in DOMAIN wire : wire[j].type = "batch" => wire[j].cursor \in sub.issued
        BY <1>0, <4>1 DEF WireInv
      <4>3. f.type = "batch" => f.cursor \in sub.issued
        BY <1>1, <1>2, <4>2
      <4> QED BY <1>2, <4>1, <4>2, <4>3
    <3> QED BY <3>1, <3>2
  <2>3. ASSUME Subscribing
        PROVE  /\ client'.base = client.base /\ client.points \subseteq client'.points
    <3>1. sub.state \in {"none", "gone"}
      BY <1>0, <2>3 DEF QueueInv
    <3>2. f.type # "sync"
      BY <1>0, <1>1, <1>2, <3>1 DEF WireInv
    <3> QED BY <1>3, <3>2 DEF Resets
  <2>4. frame.stage = "synced" => Subscribing
    BY DEF Subscribing
  <2> QED BY <1>0, <1>2, <1>12, <2>1, <2>2, <2>3, <2>4 DEF WireInv, Subscribing
<1>14. Covered'
  BY <1>0, <1>2, <1>6 DEF Covered, HasFirst
<1> QED BY <1>7, <1>8, <1>9, <1>11, <1>12, <1>13, <1>14 DEF FeedInv, TypeInv

-------------------------------------------------------------------------------
(* The invariant, and what follows from it.                                *)

\* The first state: one event, no connection and a client that holds nothing.
LEMMA FeedInit == Init => FeedInv
<1> SUFFICES ASSUME Init PROVE FeedInv
  OBVIOUS
<1>1. PICK v \in BOOLEAN : log = <<[ver |-> 1, vis |-> v]>>
  BY DEF Init
<1>2. GameOK
  <2>1. /\ log \in Seq(Events) /\ Len(log) = 1 /\ log[1].ver = 1
    BY <1>1 DEF Events
  <2>2. /\ version = 1 /\ sent = 0 /\ notes = <<>>
        /\ listener = [up |-> TRUE, last |-> 0]
        /\ spent = [overrides |-> 0, resends |-> 0, outages |-> 0, connections |-> 0,
                    requests |-> 0, faults |-> 0]
    BY DEF Init
  <2>3. spent \in Budgets /\ listener \in [up : BOOLEAN, last : Nat] /\ notes \in Seq(Nat)
    BY <2>2, EmptySeq DEF Budgets
  <2>4. \A i, j \in DOMAIN log : i <= j => log[i].ver <= log[j].ver
    BY <2>1
  <2>5. 1 \in 1 .. MaxEvents /\ 0 \in 0 .. 1 /\ MaxOverrides \in Nat
    OBVIOUS
  <2>6. LogGrows
    BY <2>1, <2>2, <2>4, <2>5 DEF LogGrows
  <2> QED BY <2>1, <2>2, <2>3, <2>5, <2>6 DEF GameOK
<1>3. /\ socket = "closed" /\ session = FALSE /\ frame = Idle /\ sub = NoSubscription
      /\ tail = <<>> /\ wire = <<>>
      /\ client = [base |-> NoCursor, heard |-> {}, points |-> {}, got |-> {},
                   acked |-> NoCursor, anew |-> TRUE]
  BY DEF Init
<1>4. LinkOK
  <2>1. NoCursor \in Positions
    BY DEF Positions
  <2>2. <<>> \in Seq(Operations) /\ <<>> \in Seq(Frames) /\ Len(<<>>) = 0
    BY EmptySeq
  <2>3. /\ frame \in SubscribeFrames /\ sub \in Subscriptions /\ client \in Clients
    <3>1. frame \in SubscribeFrames
      BY <1>3, <2>1 DEF Idle, SubscribeFrames
    <3>2. sub \in Subscriptions
      BY <1>3, <2>1 DEF NoSubscription, Subscriptions, SubStates
    <3>3. client \in Clients
      BY <1>3, <2>1 DEF Clients
    <3> QED BY <3>1, <3>2, <3>3
  <2>4. socket \in Sockets /\ session \in BOOLEAN
    BY <1>3 DEF Sockets
  <2>5. /\ tail \in Seq(Operations) /\ wire \in Seq(Frames) /\ Len(wire) = 0 /\ 0 <= MaxPending
    BY <1>3, <2>2
  <2> QED BY <2>3, <2>4, <2>5 DEF LinkOK
<1>5. DOMAIN wire = {} /\ DOMAIN tail = {}
  BY <1>3
<1>6. /\ sub.state = "none" /\ frame.stage = "idle" /\ ~ Subscribing
      /\ client.points = {} /\ client.got = {} /\ client.base = NoCursor /\ client.heard = {}
  BY <1>3 DEF NoSubscription, Idle, Subscribing
<1>7. QueueInv /\ ReadsKnown /\ CursorsKnown /\ SubscriptionInv
  BY <1>3, <1>5, <1>6 DEF QueueInv, ReadsKnown, CursorsKnown, SubscriptionInv
<1>8. ClientInv
  BY <1>6 DEF ClientInv, Told
<1>9. WireInv
  BY <1>5, <1>6 DEF WireInv, FramesContinue
<1>10. Covered
  BY <1>3 DEF Covered
<1> QED BY <1>2, <1>4, <1>7, <1>8, <1>9, <1>10 DEF FeedInv, TypeInv

\* Every step of the game, the listener, the connection and the client.
LEMMA FeedStep ==
  ASSUME FeedInv, [Next]_vars
  PROVE  FeedInv' /\ LogExtends
<1>1. GameOK' /\ LogExtends
  BY GameStep DEF FeedInv, TypeInv
<1>2. CASE Deliver
  <2>1. CASE SendFeed
    BY <1>1, <2>1, SilentStep, SendStep
  <2>2. CASE DeliverySkipped \/ DeliveryRefused \/ CursorRefused
    BY <1>1, <2>2, FailStep
  <2> QED BY <1>1, <1>2, <2>1, <2>2, StartStep, ReadStep, AcknowledgeStep DEF Deliver
<1>3. CASE Handle
  BY <1>1, <1>3, SubscribeStep, SubscribedStep, UnsubscribeStep DEF Handle
<1>4. CASE Environment \/ UNCHANGED vars
  <2>1. CASE ReadFails
    BY <1>1, <2>1, FailStep
  <2> QED BY <1>1, <1>4, <2>1, EnvironmentStep DEF Environment
<1>5. CASE ClientSends
  BY <1>1, <1>5, ConnectStep, SubscribeStep, RequestStep, UnsubscribeStep DEF ClientSends
<1>6. CASE Notification \/ CatchUp \/ Reconnect
  BY <1>1, <1>6, WakeStep
<1>7. CASE Receive
  BY <1>1, <1>7, ReceiveStep
<1> QED BY <1>2, <1>3, <1>4, <1>5, <1>6, <1>7 DEF Next

\* The invariant holds in every reachable state.
LEMMA FeedInvariant == Spec => []FeedInv
<1>1. FeedInv /\ [Next]_vars => FeedInv'
  BY FeedStep
<1> QED BY <1>1, FeedInit, PTL DEF Spec

\* Every variable stays in its type.
THEOREM TypeCorrect == Spec => []TypeOK
<1>1. FeedInv => TypeOK
  <2> SUFFICES ASSUME FeedInv PROVE TypeOK
    OBVIOUS
  <2>1. /\ log \in Seq([ver : Nat, vis : BOOLEAN]) /\ Len(log) <= MaxEvents
        /\ version \in Nat /\ sent \in 0 .. version
        /\ listener \in [up : BOOLEAN, last : Nat] /\ notes \in Seq(Nat)
    BY DEF FeedInv, TypeInv, GameOK, Events
  <2>2. /\ socket \in {"open", "closed", "rejected", "overloaded", "expired"}
        /\ session \in BOOLEAN
        /\ frame \in [stage : {"idle", "member", "synced"}, after : Cursors \cup {NoCursor},
                      head : Cursors \cup {NoCursor}]
        /\ tail \in Seq([kind : OpKinds, from : Cursors \cup {NoCursor}, stage : Stages,
                         head : Cursors \cup {NoCursor}])
        /\ wire \in Seq(Frames) /\ Len(wire) <= MaxPending
    BY DEF FeedInv, TypeInv, LinkOK, Sockets, SubscribeFrames, Operations, Positions
  <2>3. /\ sub.state \in {"none", "live", "closing", "gone"}
        /\ {sub.issuedLast, sub.ackedLast, sub.initial} \subseteq Cursors \cup {NoCursor}
        /\ sub.issued \subseteq Cursors /\ sub.acked \subseteq Cursors
        /\ client.heard \subseteq 1 .. MaxEvents
        /\ client.points \subseteq Cursors /\ client.got \subseteq Cursors
    BY LinkFacts DEF SubStates, Positions
  <2> QED BY <2>1, <2>2, <2>3 DEF TypeOK
<1> QED BY <1>1, FeedInvariant, PTL

\* No position a client was given lies ahead of what it has heard, whatever
\* connections it lost, however many events a commit appends, in batches of any
\* size (sendFeed, subscribe).
THEOREM PointsComplete == Spec => []PointsAreComplete
<1>1. FeedInv => PointsAreComplete
  BY DEF FeedInv, ClientInv, Told, PointsAreComplete
<1> QED BY <1>1, FeedInvariant, PTL

\* Nothing is sent for a session that is gone or a subscription that has ended,
\* whatever was under way when it ended (requireSession, unsubscribe).
THEOREM Quiet == Spec => QuietAfterTheEnd
<1>1. ASSUME FeedInv, [Next]_vars,
             \/ ~session /\ ~session'
             \/ sub.state = "gone" /\ sub'.state = "gone"
      PROVE  Len(wire') <= Len(wire)
  <2>0. wire \in Seq(Frames) /\ Len(wire) \in Nat
    BY <1>1 DEF FeedInv, TypeInv, LinkOK
  <2>1. ~ session => socket # "open"
    BY <1>1 DEF FeedInv, QueueInv
  <2>2. sub.state = "gone" => tail = <<>>
    BY <1>1 DEF FeedInv, QueueInv
  <2>3. CASE wire' = wire
    BY <2>0, <2>3
  <2>4. CASE Connect
    BY <2>0, <2>4 DEF Connect
  <2>5. CASE Receive
    BY <2>0, <2>5 DEF Receive
  <2>6. CASE Subscribed
    <3>1. CASE UNCHANGED wire
      BY <2>3, <3>1
    <3>2. CASE sub'.state = "live" /\ Send(<<Sync(frame.head)>>)
      BY <1>1, <2>1, <2>3, <3>2 DEF Send
    <3> QED BY <2>6, <3>1, <3>2 DEF Subscribed
  <2>7. CASE DeliveryStarts
    <3>1. session /\ sub.state = "live"
      BY <2>7 DEF DeliveryStarts
    <3> QED BY <1>1, <3>1
  <2>8. CASE SendFeed
    <3>1. tail # <<>> /\ (UNCHANGED wire \/ Send(Batches(tail[1].from, tail[1].head)))
      BY <2>8 DEF SendFeed, AtStage
    <3> QED BY <1>1, <2>1, <2>2, <2>3, <3>1 DEF Send
  <2>9. CASE Deliver
    BY <2>3, <2>7, <2>8, <2>9 DEF Deliver, DeliverySkipped, DeliveryRefused, ReadFeed,
                                CursorRefused, Acknowledge
  <2>10. CASE Handle
    BY <2>3, <2>6, <2>10 DEF Handle, SubscribeReads, UnsubscribeDone
  <2>11. CASE Environment \/ UNCHANGED vars
    BY <2>3, <2>11 DEF Environment, Commit, FacilitatorOverride, Notify, NotifyAgain,
                       Disconnected, SubscribeFails, ReadFails, ConnectionLost,
                       SessionInvalidated, vars
  <2>12. CASE ClientSends
    BY <2>3, <2>4, <2>12 DEF ClientSends, SubscribeFrame, AckFrame, ResyncFrame, UnsubscribeFrame
  <2>13. CASE Notification \/ CatchUp \/ Reconnect
    BY <2>3, <2>13 DEF Notification, CatchUp, Reconnect
  <2> QED BY <1>1, <2>5, <2>9, <2>10, <2>11, <2>12, <2>13 DEF Next
<1> QED BY <1>1, FeedInvariant, PTL DEF Spec, QuietAfterTheEnd

-------------------------------------------------------------------------------
(* The abstract feed.                                                      *)

\* The viewer's log and where it starts from, as the abstract feed has them.
VisLog == [i \in DOMAIN log |-> log[i].vis]

Start == IF client.base = NoCursor THEN 0 ELSE client.base.seq

\* At the start the viewer has heard nothing.
LEMMA FeedBegins == Init => Feed!Init
<1> SUFFICES ASSUME Init PROVE Feed!Init
  OBVIOUS
<1>1. PICK v \in BOOLEAN : log = <<[ver |-> 1, vis |-> v]>>
  BY DEF Init
<1>2. VisLog \in [1 .. 1 -> BOOLEAN]
  <2>1. DOMAIN log = 1 .. 1 /\ log[1].vis \in BOOLEAN
    BY <1>1
  <2> QED BY <2>1 DEF VisLog
<1>3. client.base = NoCursor /\ client.heard = {}
  BY DEF Init
<1> QED BY <1>2, <1>3 DEF Feed!Init, VisLog

\* A commit publishes.
LEMMA FeedPublishes ==
  ASSUME FeedInv, Commit
  PROVE  Feed!Publish
<1>1. PICK shape \in CommitShapes :
        /\ Len(log) + Len(shape) <= MaxEvents
        /\ log' = log \o [k \in DOMAIN shape |-> [ver |-> version + 1, vis |-> shape[k]]]
  BY DEF Commit
<1> DEFINE new == [k \in DOMAIN shape |-> [ver |-> version + 1, vis |-> shape[k]]]
<1>2. /\ log \in Seq(Events) /\ Len(log) \in Nat /\ DOMAIN log = 1 .. Len(log)
      /\ version \in Nat
  BY LogFacts DEF FeedInv, TypeInv
<1>3. shape \in Seq(BOOLEAN) /\ Len(shape) \in Nat \ {0} /\ DOMAIN shape = 1 .. Len(shape)
  BY <1>1, SizesAssumption DEF SizesAssumption
<1>4. shape \in [1 .. Len(shape) -> BOOLEAN]
  BY <1>3
<1>5. new \in Seq(Events) /\ Len(new) = Len(shape)
  <2>1. \A k \in 1 .. Len(shape) : [ver |-> version + 1, vis |-> shape[k]] \in Events
    BY <1>2, <1>3 DEF Events
  <2> QED BY <1>3, <2>1
<1>6. VisLog \in Seq(BOOLEAN) /\ Len(VisLog) = Len(log) /\ DOMAIN VisLog = 1 .. Len(log)
  <2>1. \A i \in 1 .. Len(log) : log[i].vis \in BOOLEAN
    <3> TAKE i \in 1 .. Len(log)
    <3>1. log[i] \in Events
      BY <1>2
    <3> QED BY <3>1 DEF Events
  <2> QED BY <1>2, <2>1 DEF VisLog
<1>7. /\ DOMAIN (log') = 1 .. (Len(log) + Len(shape))
      /\ \A i \in 1 .. (Len(log) + Len(shape)) :
           log'[i] = IF i <= Len(log) THEN log[i] ELSE new[i - Len(log)]
  <2>1. log' = log \o new
    BY <1>1
  <2> HIDE DEF new
  <2>2. new \in Seq(Events)
    BY <1>5
  <2>3. /\ log \o new \in Seq(Events) /\ Len(log \o new) = Len(log) + Len(new)
        /\ \A i \in 1 .. (Len(log) + Len(new)) :
             (log \o new)[i] = IF i <= Len(log) THEN log[i] ELSE new[i - Len(log)]
    BY <1>2, <2>2, ConcatProperties
  <2> QED BY <1>5, <2>1, <2>3, LenProperties
<1>8. VisLog' = VisLog \o shape
  <2>1. PICK n \in Nat, m \in Nat : n = Len(log) /\ m = Len(shape)
    BY <1>2, <1>3
  <2>2. /\ DOMAIN (VisLog') = 1 .. (n + m)
        /\ \A i \in 1 .. (n + m) : VisLog'[i] = log'[i].vis
    BY <1>7, <2>1 DEF VisLog
  <2>3. VisLog' = [i \in 1 .. (n + m) |-> log'[i].vis]
    BY <1>7, <2>1 DEF VisLog
  <2>4. /\ VisLog \o shape \in Seq(BOOLEAN) /\ Len(VisLog \o shape) = n + m
        /\ \A i \in 1 .. (n + m) :
             (VisLog \o shape)[i] = IF i <= n THEN VisLog[i] ELSE shape[i - n]
    <3>1. PICK v \in Seq(BOOLEAN), w \in Seq(BOOLEAN) : v = VisLog /\ w = shape
      BY <1>3, <1>6
    <3>2. /\ v \o w \in Seq(BOOLEAN) /\ Len(v \o w) = Len(v) + Len(w)
          /\ \A i \in 1 .. (Len(v) + Len(w)) :
               (v \o w)[i] = IF i <= Len(v) THEN v[i] ELSE w[i - Len(v)]
      BY ConcatProperties
    <3>3. Len(v) = n /\ Len(w) = m
      BY <1>6, <2>1, <3>1
    <3> QED BY <3>1, <3>2, <3>3
  <2>5. ASSUME NEW i \in 1 .. (n + m)
        PROVE  log'[i].vis = IF i <= n THEN VisLog[i] ELSE shape[i - n]
    <3>1. CASE i <= n
      <4>1. i \in 1 .. n
        BY <2>1, <3>1
      <4> QED BY <1>2, <1>7, <2>1, <3>1, <4>1 DEF VisLog
    <3>2. CASE ~ (i <= n)
      <4>1. i - n \in 1 .. m
        BY <2>1, <3>2
      <4>2. i \in 1 .. (Len(log) + Len(shape)) /\ ~ (i <= Len(log)) /\ i - n \in DOMAIN shape
        BY <1>3, <2>1, <3>2, <4>1
      <4>3. log'[i] = new[i - n]
        BY <1>7, <2>1, <4>2
      <4>4. new[i - n].vis = shape[i - n]
        BY <4>2
      <4> HIDE DEF new
      <4> QED BY <3>2, <4>3, <4>4
    <3> QED BY <3>1, <3>2
  <2>6. VisLog \o shape = [i \in 1 .. (n + m) |-> (VisLog \o shape)[i]]
    <3>1. DOMAIN (VisLog \o shape) = 1 .. (n + m)
      BY <2>4, LenProperties
    <3>2. \A v \in Seq(BOOLEAN) : v = [i \in DOMAIN v |-> v[i]]
      OBVIOUS
    <3> QED BY <2>4, <3>1, <3>2
  <2> QED BY <2>3, <2>4, <2>5, <2>6
<1>9. Len(shape) \in 1 .. (MaxEvents - Len(VisLog))
  <2>1. PICK n \in Nat, m \in Nat : n = Len(log) /\ m = Len(shape)
    BY <1>2, <1>3
  <2>2. n + m <= MaxEvents /\ m # 0
    BY <1>1, <1>3, <2>1
  <2> QED BY <1>6, <2>1, <2>2
<1>10. shape \in UNION {[1 .. k -> BOOLEAN] : k \in 1 .. (MaxEvents - Len(VisLog))}
  BY <1>4, <1>9
<1>11. UNCHANGED client
  BY DEF Commit
<1> QED BY <1>8, <1>10, <1>11 DEF Feed!Publish, VisLog

\* What the client takes is a synchronisation, a delivery, or nothing new.
LEMMA FeedReceives ==
  ASSUME FeedInv, Receive
  PROVE  Feed!Synchronise \/ Feed!Deliver \/ UNCHANGED (Feed!vars)
<1>1. PICK f : f = wire[1]
  OBVIOUS
<1>2. /\ 1 \in DOMAIN wire /\ f \in Frames /\ UNCHANGED log
      /\ f.type # "gap" => Known(f.cursor) /\ f.cursor \in Cursors
  BY <1>1, Received DEF game
<1>3. /\ Len(log) \in 1 .. MaxEvents /\ DOMAIN log = 1 .. Len(log) /\ log \in Seq(Events)
      /\ client.base \in Positions
  BY LogFacts, LinkFacts DEF FeedInv, TypeInv
<1>4. Len(VisLog) = Len(log) /\ \A i \in 1 .. Len(log) : VisLog[i] = log[i].vis
  BY <1>3 DEF VisLog
<1>5. Start \in Nat
  <2>1. client.base # NoCursor => client.base.seq \in Nat
    BY <1>3 DEF Positions, Cursors
  <2> QED BY <2>1 DEF Start
<1>6. CASE client'.base = client.base /\ client'.heard = client.heard
  BY <1>2, <1>6 DEF Feed!vars
<1>7. CASE Resets(f, client.anew)
  <2>1. client'.base = f.cursor /\ client'.heard = {}
    BY <1>1, <1>7, Received DEF Resets
  <2>2. /\ f.cursor \in Cursors /\ f.cursor # NoCursor
        /\ f.cursor.seq \in 1 .. Len(log) /\ client.base.seq <= f.cursor.seq
    <3>1. f.cursor \in Cursors /\ Known(f.cursor) /\ f.type = "sync" /\ client.anew
      BY <1>2, <1>7 DEF Resets
    <3>2. client.base.seq <= f.cursor.seq
      BY <1>1, <1>2, <3>1 DEF FeedInv, WireInv
    <3> QED BY <3>1, <3>2, KnownIsCursor DEF FeedInv, TypeInv, Positions
  <2>3. Start' = f.cursor.seq
    BY <2>1, <2>2 DEF Start
  <2>4. f.cursor.seq \in Start .. Len(VisLog)
    BY <1>3, <1>4, <1>5, <2>2 DEF Start
  <2> QED BY <1>2, <2>1, <2>3, <2>4 DEF Feed!Synchronise, Start, VisLog
<1>8. CASE f.type = "batch"
  <2>1. /\ client'.base = client.base /\ client'.heard = client.heard \cup f.events
    BY <1>1, <1>8, Received DEF Resets
  <2>2. Continues(f, client.points)
    <3>1. PointsAt(0) = client.points
      <4>1. \A p : p \in PointsOf(client.points, client.anew, wire, 0) <=> p \in client.points
        BY InPoints DEF KeptTo
      <4> QED BY <4>1 DEF PointsAt
    <3>2. Continues(wire[1], PointsAt(1 - 1))
      BY <1>1, <1>2, <1>8 DEF FeedInv, WireInv, FramesContinue
    <3> QED BY <1>1, <3>1, <3>2
  <2>3. /\ f.cursor \in Cursors /\ Known(f.cursor)
    BY <1>2, <1>8
  <2> DEFINE P == client.points \cup {f.cursor}
  <2>4. /\ client.points # {} /\ client.base.seq <= f.cursor.seq
        /\ client'.heard = Told(client.base, P)
        /\ \E m \in P : \A c \in P : c.seq <= m.seq
    BY <1>2, <1>8, <2>1, <2>2, <2>3, BatchTold
  <2>5. PICK m \in P : \A c \in P : c.seq <= m.seq
    BY <2>4
  <2>6. /\ \A c \in P : c \in Positions /\ Known(c) /\ client.base.seq <= c.seq
        /\ client.base # NoCursor
    <3>1. \A c \in client.points : c \in Positions /\ Known(c) /\ client.base.seq <= c.seq
      BY LinkFacts DEF FeedInv, CursorsKnown, ClientInv, Positions
    <3>2. client.base # NoCursor
      BY <2>4 DEF FeedInv, ClientInv
    <3> QED BY <2>3, <2>4, <3>1, <3>2 DEF Positions
  <2>7. Told(client.base, P) = Visible(client.base, m)
    <3>1. \A c \in P : Visible(client.base, c) \subseteq Visible(client.base, m)
      BY <1>3, <2>5, <2>6, VisibleGrows
    <3> HIDE DEF P
    <3> QED BY <2>5, <3>1 DEF Told
  <2>8. client.heard \subseteq client'.heard
    BY <2>1
  <2>9. m.seq \in Start .. Len(VisLog)
    <3>1. m \in Positions /\ Known(m) /\ client.base.seq <= m.seq
      BY <2>5, <2>6
    <3>2. m.seq \in 1 .. Len(log)
      BY <3>1, KnownIsCursor DEF FeedInv, TypeInv
    <3> QED BY <1>3, <1>4, <1>5, <2>6, <3>1, <3>2 DEF Start
  <2>10. Visible(client.base, m) = {i \in (Start + 1) .. m.seq : VisLog[i]}
    <3>1. \A i \in (Start + 1) .. m.seq : VisLog[i] = log[i].vis
      <4>1. \A i \in (Start + 1) .. m.seq : i \in 1 .. Len(log)
        BY <1>3, <1>4, <1>5, <2>9
      <4> QED BY <1>4, <4>1
    <3>2. Start = client.base.seq
      BY <2>6 DEF Start
    <3> QED BY <3>1, <3>2 DEF Visible
  <2>11. Feed!Visible(Start, m.seq) = {i \in (Start + 1) .. m.seq : VisLog[i]}
    BY DEF Feed!Visible, VisLog
  <2>12. /\ client'.heard = Feed!Visible(Start, m.seq)
         /\ client.heard \subseteq Feed!Visible(Start, m.seq)
    BY <2>4, <2>7, <2>8, <2>10, <2>11
  <2>13. VisLog' = VisLog /\ Start' = Start
    BY <1>2, <2>1 DEF VisLog, Start
  <2> HIDE DEF P
  <2>14. Feed!Deliver
    BY <2>9, <2>12, <2>13 DEF Feed!Deliver, VisLog, Start
  <2> QED BY <2>14
<1>9. \/ Resets(f, client.anew) \/ f.type = "batch"
      \/ client'.base = client.base /\ client'.heard = client.heard
  BY <1>1, Received
<1> QED BY <1>6, <1>7, <1>8, <1>9

\* Every other step leaves the feed alone.
LEMMA FeedAlone ==
  ASSUME [Next]_vars, ~ Commit, ~ Receive
  PROVE  UNCHANGED (Feed!vars)
<1>1. UNCHANGED log /\ client'.base = client.base /\ client'.heard = client.heard
  <2>1. CASE UNCHANGED <<log, client>>
    BY <2>1
  <2>2. CASE Deliver
    BY <2>1, <2>2 DEF Deliver, DeliverySkipped, DeliveryRefused, DeliveryStarts, ReadFeed,
                      CursorRefused, SendFeed, Acknowledge, game
  <2>3. CASE Handle
    BY <2>1, <2>3 DEF Handle, SubscribeReads, Subscribed, UnsubscribeDone, game
  <2>4. CASE Environment \/ UNCHANGED vars
    BY <2>1, <2>4 DEF Environment, FacilitatorOverride, Notify, NotifyAgain, Disconnected,
                      SubscribeFails, ReadFails, ConnectionLost, SessionInvalidated, vars, game
  <2>5. CASE ClientSends
    <3>1. UNCHANGED log
      BY <2>5 DEF ClientSends, Connect, SubscribeFrame, AckFrame, ResyncFrame, UnsubscribeFrame, game
    <3>2. CASE Connect \/ UnsubscribeFrame
      <4>1. client' = [client EXCEPT !.got = {}, !.acked = NoCursor]
        BY <3>2 DEF Connect, UnsubscribeFrame
      <4> QED BY <3>1, <4>1
    <3>3. CASE SubscribeFrame
      <4>1. PICK after : client' = [client EXCEPT !.anew = (after = NoCursor)]
        BY <3>3 DEF SubscribeFrame
      <4> QED BY <3>1, <4>1
    <3>4. CASE AckFrame
      <4>1. PICK c : client' = [client EXCEPT !.acked = c]
        BY <3>4 DEF AckFrame
      <4> QED BY <3>1, <4>1
    <3>5. CASE ResyncFrame
      BY <2>1, <3>1, <3>5 DEF ResyncFrame
    <3> QED BY <2>5, <3>2, <3>3, <3>4, <3>5 DEF ClientSends
  <2>6. CASE Notification \/ CatchUp \/ Reconnect
    BY <2>1, <2>6 DEF Notification, CatchUp, Reconnect, game
  <2> QED BY <2>2, <2>3, <2>4, <2>5, <2>6 DEF Next
<1> QED BY <1>1 DEF Feed!vars

\* What the viewer hears, across batches, wakes, resyncs, lost frames and new
\* connections, is the abstract feed: the visible events from where it started
\* up to some point, none skipped and none before its turn.
THEOREM RealtimeImplementsFeed == Spec => ImplementsFeed
<1>1. FeedInv /\ [Next]_vars => [Feed!Next]_(Feed!vars)
  BY FeedPublishes, FeedReceives, FeedAlone DEF Feed!Next
<1> QED BY <1>1, FeedBegins, FeedInvariant, PTL DEF Spec, ImplementsFeed, Feed!Spec

-------------------------------------------------------------------------------
(* A client that acknowledges forwards is not rejected.                    *)

\* The acknowledgements of the queue stay as they were, and the subscription
\* does not move backwards.
LEMMA AcksKept ==
  ASSUME AckInv, client'.acked = client.acked,
         sub'.state = "live" =>
           /\ sub.state = "live" /\ sub'.initial = sub.initial
           /\ sub'.ackedLast = sub.ackedLast /\ sub.issued \subseteq sub'.issued,
         \A i \in DOMAIN (tail') : tail'[i].kind = "ack" =>
           \E j \in DOMAIN tail : tail[j].kind = "ack" /\ tail[j].from = tail'[i].from
  PROVE  AckInv'
<1> SUFFICES ASSUME sub'.state = "live", ~ AnyAckOrder
             PROVE  /\ \A i \in DOMAIN (tail') : tail'[i].kind = "ack" =>
                         tail'[i].from = client'.acked /\ sub'.ackedLast.seq <= client'.acked.seq
                    /\ \/ sub'.ackedLast = sub'.initial
                       \/ client'.acked \in sub'.issued /\ sub'.ackedLast.seq <= client'.acked.seq
  BY DEF AckInv
<1> QED BY DEF AckInv

\* Steps that neither acknowledge nor open a subscription.
LEMMA AcksRest ==
  ASSUME FeedInv, AckInv, [Next]_vars,
         ~ Connect, ~ Subscribed, ~ AckFrame, ~ Acknowledge, ~ UnsubscribeFrame
  PROVE  AckInv'
<1>1. client \in Clients /\ sub \in Subscriptions /\ tail \in Seq(Operations)
      /\ DOMAIN tail = 1 .. Len(tail) /\ Len(tail) \in Nat
  BY LinkFacts DEF FeedInv, TypeInv, LinkOK
<1>2. CASE /\ UNCHANGED <<sub, client>>
           /\ \/ tail' = tail \/ tail' = Woken
              \/ tail # <<>> /\ tail' = Tail(tail)
              \/ ResyncFrame
  <2>1. ASSUME NEW i \in DOMAIN (tail'), tail'[i].kind = "ack"
        PROVE  \E j \in DOMAIN tail : tail[j].kind = "ack" /\ tail[j].from = tail'[i].from
    <3>1. CASE tail' = tail
      BY <2>1, <3>1
    <3>2. CASE \E kind \in {"wake", "resync"} : \E c : tail' = Append(tail, Op(kind, c))
      <4>0. PICK kind \in {"wake", "resync"} : \E c : tail' = Append(tail, Op(kind, c))
        BY <3>2
      <4>1. PICK c : tail' = Append(tail, Op(kind, c))
        BY <4>0
      <4>2. PICK op : op = Op(kind, c)
        OBVIOUS
      <4>3. /\ DOMAIN (tail') = 1 .. (Len(tail) + 1)
            /\ \A k \in 1 .. Len(tail) : tail'[k] = tail[k]
            /\ tail'[Len(tail) + 1] = op
        BY <1>1, <4>1, <4>2
      <4>4. i # Len(tail) + 1
        BY <2>1, <4>2, <4>3 DEF Op
      <4>5. i \in 1 .. Len(tail)
        BY <1>1, <2>1, <4>3, <4>4
      <4> QED BY <1>1, <2>1, <4>3, <4>5
    <3>3. CASE tail # <<>> /\ tail' = Tail(tail)
      <4>1. i + 1 \in DOMAIN tail /\ tail'[i] = tail[i + 1]
        BY <1>1, <2>1, <3>3, HeadTailProperties, LenProperties
      <4> QED BY <2>1, <4>1
    <3>4. CASE ResyncFrame
      BY <3>1, <3>2, <3>4 DEF ResyncFrame
    <3> QED BY <1>2, <3>1, <3>2, <3>3, <3>4 DEF Woken
  <2> QED BY <1>2, <2>1, AcksKept
<1>3. CASE DeliveryStarts \/ ReadFeed
  <2>1. /\ tail # <<>> /\ UNCHANGED <<sub, client>> /\ 1 \in DOMAIN tail
        /\ tail[1].kind # "ack"
    <3>1. tail # <<>> /\ UNCHANGED <<sub, client>>
      BY <1>3 DEF DeliveryStarts, ReadFeed, AtStage
    <3>2. 1 \in DOMAIN tail
      BY <1>1, <3>1
    <3>3. CASE DeliveryStarts
      BY <3>1, <3>2, <3>3 DEF DeliveryStarts
    <3>4. CASE ReadFeed
      BY <3>1, <3>2, <3>4, QueueFacts DEF ReadFeed, AtStage
    <3> QED BY <1>3, <3>1, <3>2, <3>3, <3>4
  <2>2. \A i \in DOMAIN (tail') : i \in DOMAIN tail /\ (i # 1 => tail'[i] = tail[i])
                                 /\ (i = 1 => tail'[i].kind = tail[1].kind)
    <3>1. CASE DeliveryStarts
      <4>1. PICK o : tail' = [tail EXCEPT ![1] = o] /\ o.kind = tail[1].kind
        <5>1. tail[1] \in Operations
          BY <2>1, LinkFacts
        <5>2. tail' = [tail EXCEPT ![1] = [tail[1] EXCEPT !.stage = "reading",
                         !.from = IF tail[1].kind = "wake" THEN sub.issuedLast ELSE tail[1].from]]
          BY <2>1, <3>1, <5>1 DEF DeliveryStarts, Operations
        <5>3. [tail[1] EXCEPT !.stage = "reading",
                 !.from = IF tail[1].kind = "wake" THEN sub.issuedLast ELSE tail[1].from].kind
                = tail[1].kind
          BY <5>1 DEF Operations
        <5> QED BY <5>2, <5>3
      <4> QED BY <1>1, <2>1, <4>1
    <3>2. CASE ReadFeed
      <4>1. PICK o : tail' = [tail EXCEPT ![1] = o] /\ o.kind = tail[1].kind
        <5>1. tail[1] \in Operations
          BY <2>1, LinkFacts
        <5>2. tail' = [tail EXCEPT ![1] = [tail[1] EXCEPT !.stage = "read", !.head = HeadCursor]]
          BY <2>1, <3>2, <5>1 DEF ReadFeed, Operations
        <5>3. [tail[1] EXCEPT !.stage = "read", !.head = HeadCursor].kind = tail[1].kind
          BY <5>1 DEF Operations
        <5> QED BY <5>2, <5>3
      <4> QED BY <1>1, <2>1, <4>1
    <3> QED BY <1>3, <3>1, <3>2
  <2> QED BY <2>1, <2>2, AcksKept
<1>4. CASE SendFeed
  <2>1. /\ tail # <<>> /\ tail' = Tail(tail) /\ UNCHANGED client
        /\ \/ sub' = sub
           \/ \E new, last : sub' = [sub EXCEPT !.issued = @ \cup new, !.issuedLast = last]
    BY <1>4 DEF SendFeed, AtStage, OpDone
  <2>2. /\ sub'.state = sub.state /\ sub'.initial = sub.initial
        /\ sub'.ackedLast = sub.ackedLast /\ sub.issued \subseteq sub'.issued
    BY <1>1, <2>1 DEF Subscriptions
  <2>3. ASSUME NEW i \in DOMAIN (tail'), tail'[i].kind = "ack"
        PROVE  \E j \in DOMAIN tail : tail[j].kind = "ack" /\ tail[j].from = tail'[i].from
    <3>0. tail # <<>> /\ tail' = Tail(tail) /\ i \in DOMAIN (tail')
      BY <2>1, <2>3
    <3>1. i + 1 \in DOMAIN tail /\ tail'[i] = tail[i + 1]
      BY <1>1, <3>0, HeadTailProperties, LenProperties
    <3> QED BY <2>3, <3>1
  <2>4. client'.acked = client.acked
    BY <2>1
  <2> QED BY <2>2, <2>3, <2>4, AcksKept
<1>5. CASE UnsubscribeDone
  <2>1. sub'.state = "gone"
    BY <1>1, <1>5 DEF UnsubscribeDone, Subscriptions
  <2> QED BY <2>1 DEF AckInv
<1>6. CASE SubscribeFrame \/ Receive
  <2>1. UNCHANGED <<sub, tail>>
    BY <1>6 DEF SubscribeFrame, Receive, connection
  <2>2. client'.acked = client.acked
    <3>1. CASE SubscribeFrame
      <4>1. PICK after : client' = [client EXCEPT !.anew = (after = NoCursor)]
        BY <3>1 DEF SubscribeFrame
      <4> QED BY <1>1, <4>1 DEF Clients
    <3>2. CASE Receive
      BY <1>1, <3>2 DEF Receive, Clients
    <3> QED BY <1>6, <3>1, <3>2
  <2> QED BY <2>1, <2>2, AcksKept
<1>7. CASE DeliverySkipped \/ DeliveryRefused \/ CursorRefused \/ ReadFails
  BY <1>2, <1>7 DEF DeliverySkipped, DeliveryRefused, CursorRefused, ReadFails, AtStage, OpDone, OpFails
<1>8. CASE Notification \/ CatchUp \/ Reconnect \/ ResyncFrame
  BY <1>2, <1>8 DEF Notification, CatchUp, Reconnect, ResyncFrame
<1>9. CASE UNCHANGED <<sub, client, tail>>
  BY <1>2, <1>9
<1>10. CASE SubscribeReads
  BY <1>9, <1>10 DEF SubscribeReads
<1>11. CASE Environment \/ UNCHANGED vars
  BY <1>7, <1>9, <1>11 DEF Environment, Commit, FacilitatorOverride, Notify, NotifyAgain,
       Disconnected, SubscribeFails, ConnectionLost, SessionInvalidated, vars, connection
<1> QED BY <1>3, <1>4, <1>5, <1>6, <1>7, <1>8, <1>10, <1>11 DEF Next, Deliver, Handle, ClientSends

\* The order of what is issued, acknowledged and opened.
LEMMA AckInvStep ==
  ASSUME FeedInv, AckInv, [Next]_vars, FeedInv'
  PROVE  AckInv'
<1>1. /\ client \in Clients /\ sub \in Subscriptions /\ tail \in Seq(Operations)
      /\ DOMAIN tail = 1 .. Len(tail) /\ Len(tail) \in Nat
  BY LinkFacts DEF FeedInv, TypeInv, LinkOK
<1>2. CASE Connect \/ UnsubscribeFrame
  <2>1. sub'.state \in {"none", "closing"}
    BY <1>1, <1>2 DEF Connect, UnsubscribeFrame, NoSubscription, Subscriptions
  <2> QED BY <2>1 DEF AckInv
<1>3. CASE Subscribed
  <2>1. CASE UNCHANGED <<sub, tail, client>>
    BY <2>1, AcksKept
  <2>2. CASE /\ sub'.ackedLast = sub'.initial
             /\ \E start : tail' = Append(tail, Op("first", start))
    <3>1. tail = <<>>
      BY <1>3 DEF Subscribed, FeedInv, QueueInv, Subscribing
    <3>2. PICK start : tail' = Append(tail, Op("first", start))
      BY <2>2
    <3>3. PICK op : op = Op("first", start)
      OBVIOUS
    <3>4. DOMAIN (tail') = 1 .. 1 /\ tail'[1] = op
      BY <3>1, <3>2, <3>3
    <3>5. \A i \in DOMAIN (tail') : tail'[i].kind # "ack"
      BY <3>3, <3>4 DEF Op
    <3> QED BY <2>2, <3>5 DEF AckInv
  <2> QED BY <1>3, <2>1, <2>2 DEF Subscribed
<1>4. CASE AckFrame
  <2>1. PICK c \in client.got : /\ AnyAckOrder \/ AtOrBefore(client.acked, c)
                                /\ client' = [client EXCEPT !.acked = c]
                                /\ tail' = Append(tail, Op("ack", c))
    BY <1>4 DEF AckFrame
  <2>2. /\ sub.state = "live" /\ ~ FrameInProgress /\ c \in sub.issued /\ UNCHANGED sub
        /\ sub.initial.seq <= c.seq
    BY <1>4, <2>1 DEF AckFrame, MaySend, FeedInv, WireInv, SubscriptionInv
  <2>3. client'.acked = c
    BY <1>1, <2>1 DEF Clients
  <2>4. ~ AnyAckOrder => sub.ackedLast.seq <= c.seq
    <3> SUFFICES ASSUME ~ AnyAckOrder PROVE sub.ackedLast.seq <= c.seq
      OBVIOUS
    <3>1. CASE sub.ackedLast = sub.initial
      BY <2>2, <3>1
    <3>2. CASE sub.ackedLast.seq <= client.acked.seq
      <4>1. /\ sub.ackedLast \in Positions /\ client.acked \in Positions /\ c \in Positions
        BY <1>1, <2>2, LinkFacts DEF Positions
      <4>2. \A p \in Positions : p.seq \in Int
        BY DEF Positions, Cursors, NoCursor
      <4>3. client.acked.seq <= c.seq
        BY <2>1 DEF AtOrBefore
      <4> QED BY <3>2, <4>1, <4>2, <4>3
    <3> QED BY <2>2, <3>1, <3>2 DEF AckInv
  <2>5. \A i \in DOMAIN (tail') : tail'[i].kind = "ack" => tail'[i].from = c
    <3>1. PICK op : op = Op("ack", c)
      OBVIOUS
    <3>2. /\ DOMAIN (tail') = 1 .. (Len(tail) + 1)
          /\ \A k \in 1 .. Len(tail) : tail'[k] = tail[k]
          /\ tail'[Len(tail) + 1] = op /\ op.from = c
      BY <1>1, <2>1, <3>1 DEF Op
    <3>3. \A k \in 1 .. Len(tail) : tail[k].kind # "ack"
      BY <1>1, <2>2 DEF FrameInProgress
    <3>4. \A k \in 1 .. (Len(tail) + 1) : k = Len(tail) + 1 \/ k \in 1 .. Len(tail)
      BY <1>1
    <3> QED BY <3>2, <3>3, <3>4
  <2> QED BY <2>2, <2>3, <2>4, <2>5 DEF AckInv
<1>5. CASE Acknowledge
  <2>1. PICK c : c = tail[1].from
    OBVIOUS
  <2>2. /\ tail # <<>> /\ 1 \in DOMAIN tail /\ tail[1].kind = "ack" /\ tail' = Tail(tail)
        /\ UNCHANGED client
        /\ \/ sub' = sub
           \/ sub' = [sub EXCEPT !.ackedLast = c, !.acked = @ \cup {c}]
    <3>1. /\ tail # <<>> /\ tail[1].kind = "ack" /\ tail' = Tail(tail) /\ UNCHANGED client
          /\ \/ sub' = sub
             \/ sub' = [sub EXCEPT !.ackedLast = c, !.acked = @ \cup {c}]
      BY <1>5, <2>1 DEF Acknowledge, AtStage, OpFails, OpDone
    <3>2. 1 \in DOMAIN tail
      BY <1>1, <3>1
    <3> QED BY <3>1, <3>2
  <2>3. \A i \in DOMAIN (tail') : i + 1 \in DOMAIN tail /\ tail'[i] = tail[i + 1]
    <3> TAKE i \in DOMAIN (tail')
    <3> QED BY <1>1, <2>2, HeadTailProperties, LenProperties
  <2>4. CASE sub' = sub
    <3>1. ASSUME NEW i \in DOMAIN (tail'), tail'[i].kind = "ack"
          PROVE  \E j \in DOMAIN tail : tail[j].kind = "ack" /\ tail[j].from = tail'[i].from
      <4>1. i + 1 \in DOMAIN tail /\ tail'[i] = tail[i + 1]
        BY <2>3
      <4> QED BY <3>1, <4>1
    <3>2. client'.acked = client.acked
      BY <2>2
    <3> QED BY <2>4, <3>1, <3>2, AcksKept
  <2>5. CASE sub' = [sub EXCEPT !.ackedLast = c, !.acked = @ \cup {c}]
    <3>1. /\ sub'.state = sub.state /\ sub'.initial = sub.initial
          /\ sub'.ackedLast = c /\ sub'.issued = sub.issued /\ client'.acked = client.acked
      BY <1>1, <2>2, <2>5 DEF Subscriptions
    <3>2. c \in sub.issued /\ c \in Positions /\ c.seq \in Int
      <4>1. c \in sub.issued
        BY <2>1, <2>2, QueueFacts
      <4>2. c \in Cursors
        BY <4>1, LinkFacts
      <4> QED BY <4>1, <4>2 DEF Positions, Cursors
    <3>3. sub.state = "live" /\ ~ AnyAckOrder => c = client.acked
      BY <2>1, <2>2 DEF AckInv
    <3>4. c.seq <= c.seq
      BY <3>2
    <3>5. sub.state = "live" /\ ~ AnyAckOrder =>
            \A i \in DOMAIN (tail') : tail'[i].kind = "ack" => tail'[i].from = client.acked
      BY <2>3 DEF AckInv
    <3> QED BY <3>1, <3>2, <3>3, <3>4, <3>5 DEF AckInv
  <2> QED BY <2>2, <2>4, <2>5
<1> QED BY <1>2, <1>3, <1>4, <1>5, AcksRest

\* While no override moved the version, a cursor of the past is validated and
\* the order of two of them is that of their events.
LEMMA PastIsValid ==
  ASSUME GameOK, spent.overrides = 0
  PROVE  /\ \A c, h \in Positions : Known(c) /\ AtOrBefore(c, h) => Validates(c, h)
         /\ \A c, h \in Positions : Known(c) /\ Known(h) /\ c.seq <= h.seq => AtOrBefore(c, h)
<1>1. \A c \in Positions : Known(c) => /\ c.seq \in 1 .. Len(log) /\ c.seq # 0
                                       /\ log[c.seq].ver = c.ver
  <2> TAKE c \in Positions
  <2> HAVE Known(c)
  <2>1. c.seq \in 1 .. Len(log) /\ c.ver = log[c.seq].ver
    BY DEF Known
  <2>2. Len(log) \in Nat
    BY LogFacts
  <2> QED BY <2>1, <2>2
<1>2. \A c, h \in Positions : Known(c) /\ AtOrBefore(c, h) => Validates(c, h)
  BY <1>1 DEF AtOrBefore, Validates
<1>3. \A c, h \in Positions : Known(c) /\ Known(h) /\ c.seq <= h.seq => AtOrBefore(c, h)
  <2> TAKE c, h \in Positions
  <2> HAVE Known(c) /\ Known(h) /\ c.seq <= h.seq
  <2>1. log[c.seq].ver <= log[h.seq].ver
    BY <1>1, LogFacts
  <2> QED BY <1>1, <2>1 DEF AtOrBefore
<1> QED BY <1>2, <1>3

\* A rejection needs a read that fails or an override.
LEMMA NoRejection ==
  ASSUME FeedInv, AckInv, ~ AnyAckOrder, [Next]_vars, FeedInv',
         spent.faults = 0, spent.overrides = 0, socket # "rejected"
  PROVE  socket' # "rejected" \/ spent'.faults + spent'.overrides > 0
<1>1. /\ GameOK /\ spent \in Budgets /\ client \in Clients /\ sub \in Subscriptions
      /\ socket \in Sockets /\ (~ session => socket # "open")
  BY DEF FeedInv, TypeInv, GameOK, LinkOK, QueueInv
<1>2. CASE socket' = socket
  BY <1>2
<1>3. CASE SubscribeFails \/ ReadFails
  <2>1. spent' = [spent EXCEPT !.faults = @ + 1]
    BY <1>3 DEF SubscribeFails, ReadFails, Spend
  <2>2. spent'.faults = 1 /\ spent'.overrides = 0
    BY <1>1, <2>1 DEF Budgets
  <2> QED BY <2>2
<1>4. ASSUME NEW frames, Send(frames) PROVE socket' # "rejected"
  BY <1>4 DEF Send
<1>5. CASE Subscribed
  <2>1. frame.stage = "synced" /\ Known(frame.head) /\ frame.head \in Positions
    BY <1>5, LinkFacts DEF Subscribed, FeedInv, CursorsKnown
  <2>2. AtOrBefore(IF frame.after = NoCursor THEN frame.head ELSE frame.after, frame.head)
    <3>1. CASE frame.after = NoCursor
      <4>1. frame.head.seq \in Nat /\ frame.head.ver \in Nat
        BY <1>1, <2>1, KnownIsCursor
      <4>2. \A a, b \in Nat : a <= a /\ b <= b
        OBVIOUS
      <4> QED BY <3>1, <4>1, <4>2 DEF AtOrBefore
    <3>2. CASE frame.after # NoCursor
      BY <2>1, <3>2 DEF FeedInv, CursorsKnown
    <3> QED BY <3>1, <3>2
  <2>3. Send(<<Sync(frame.head)>>)
    BY <1>5, <2>2 DEF Subscribed
  <2> QED BY <1>4, <2>3
<1>6. CASE DeliveryRefused
  BY <1>1, <1>6 DEF DeliveryRefused, OpFails, Reject
<1>7. CASE CursorRefused
  <2>1. /\ tail # <<>> /\ tail[1].stage = "read" /\ 1 \in DOMAIN tail
        /\ ~ Validates(tail[1].from, tail[1].head)
    BY <1>7, LinkFacts DEF CursorRefused, AtStage
  <2>2. Known(tail[1].from) /\ tail[1].from \in Positions /\ tail[1].head \in Positions
    BY <2>1, FromKnown, LinkFacts
  <2>3. AtOrBefore(tail[1].from, tail[1].head)
    BY <2>1 DEF FeedInv, CursorsKnown, ReadsKnown
  <2> QED BY <1>1, <2>1, <2>2, <2>3, PastIsValid
<1>8. CASE Acknowledge
  <2>1. PICK c : c = tail[1].from
    OBVIOUS
  <2>2. /\ tail # <<>> /\ tail[1].kind = "ack" /\ 1 \in DOMAIN tail
    BY <1>8, LinkFacts DEF Acknowledge, AtStage
  <2>3. /\ c \in sub.issued /\ sub.state = "live" /\ c = client.acked
        /\ sub.ackedLast.seq <= c.seq
    BY <2>1, <2>2, QueueFacts DEF AckInv
  <2>4. AtOrBefore(sub.ackedLast, c)
    <3>1. Known(c) /\ Known(sub.ackedLast)
      BY <2>3 DEF FeedInv, CursorsKnown
    <3>2. c \in Positions /\ sub.ackedLast \in Positions
      BY <2>3, LinkFacts DEF Positions
    <3> QED BY <1>1, <2>3, <3>1, <3>2, PastIsValid
  <2>5. UNCHANGED socket
    BY <1>8, <2>1, <2>3, <2>4 DEF Acknowledge
  <2> QED BY <2>5
<1>9. CASE ResyncFrame
  <2>1. client.got \subseteq sub.issued
    BY <1>9 DEF ResyncFrame, MaySend, FeedInv, WireInv
  <2>2. UNCHANGED socket
    BY <1>9, <2>1 DEF ResyncFrame
  <2> QED BY <2>2
<1>10. CASE ConnectionLost \/ SessionInvalidated \/ Connect
  BY <1>10 DEF ConnectionLost, SessionInvalidated, Connect
<1>11. CASE Deliver
  BY <1>2, <1>4, <1>6, <1>7, <1>8, <1>11 DEF Deliver, DeliverySkipped, DeliveryStarts, ReadFeed, SendFeed
<1>12. CASE Handle
  BY <1>2, <1>5, <1>12 DEF Handle, SubscribeReads, UnsubscribeDone
<1>13. CASE Environment \/ UNCHANGED vars
  BY <1>2, <1>3, <1>10, <1>13 DEF Environment, Commit, FacilitatorOverride, Notify, NotifyAgain,
                                  Disconnected, vars, connection
<1>14. CASE ClientSends
  BY <1>2, <1>9, <1>10, <1>14 DEF ClientSends, SubscribeFrame, AckFrame, UnsubscribeFrame
<1>15. CASE Notification \/ CatchUp \/ Reconnect \/ Receive
  BY <1>2, <1>15 DEF Notification, CatchUp, Reconnect, Receive, connection
<1> QED BY <1>11, <1>12, <1>13, <1>14, <1>15 DEF Next

\* What a behaviour has used up of its bounds does not come back.
LEMMA SpentStays ==
  ASSUME FeedInv, [Next]_vars
  PROVE  spent.faults <= spent'.faults /\ spent.overrides <= spent'.overrides
<1>1. spent \in Budgets
  BY DEF FeedInv, TypeInv, GameOK
<1>2. \/ UNCHANGED spent
      \/ \E what \in {"overrides", "resends", "outages", "connections", "requests", "faults"} :
           spent' = [spent EXCEPT ![what] = @ + 1]
  <2>1. CASE Deliver
    BY <2>1 DEF Deliver, DeliverySkipped, DeliveryRefused, DeliveryStarts, ReadFeed,
                CursorRefused, SendFeed, Acknowledge
  <2>2. CASE Handle
    BY <2>2 DEF Handle, SubscribeReads, Subscribed, UnsubscribeDone
  <2>3. CASE Environment \/ UNCHANGED vars
    BY <2>3 DEF Environment, Commit, FacilitatorOverride, Notify, NotifyAgain, Disconnected,
                SubscribeFails, ReadFails, ConnectionLost, SessionInvalidated, vars, Spend
  <2>4. CASE ClientSends
    BY <2>4 DEF ClientSends, Connect, SubscribeFrame, AckFrame, ResyncFrame, UnsubscribeFrame,
                MaySend, Spend
  <2>5. CASE Notification \/ CatchUp \/ Reconnect \/ Receive
    BY <2>5 DEF Notification, CatchUp, Reconnect, Receive
  <2> QED BY <2>1, <2>2, <2>3, <2>4, <2>5 DEF Next
<1>3. spent.faults \in Nat /\ spent.overrides \in Nat
  BY <1>1 DEF Budgets
<1>4. /\ spent'.faults \in {spent.faults, spent.faults + 1}
      /\ spent'.overrides \in {spent.overrides, spent.overrides + 1}
  <2>1. CASE UNCHANGED spent
    BY <2>1
  <2>2. ASSUME NEW what \in {"overrides", "resends", "outages", "connections", "requests", "faults"},
               spent' = [spent EXCEPT ![what] = @ + 1]
        PROVE  /\ spent'.faults \in {spent.faults, spent.faults + 1}
               /\ spent'.overrides \in {spent.overrides, spent.overrides + 1}
    BY <1>1, <2>2 DEF Budgets
  <2> QED BY <1>2, <2>1, <2>2
<1> QED BY <1>3, <1>4

\* A client that acknowledges forwards and asks for a resync from cursors it
\* was given is not answered with a policy close while no read fails and no
\* override has moved the version (acknowledge, resync, validateM1RealtimeCursor).
THEOREM NotRejected == ~ AnyAckOrder => (Spec => []ClientNotRejected)
<1> SUFFICES ASSUME ~ AnyAckOrder PROVE Spec => []ClientNotRejected
  OBVIOUS
<1> DEFINE Inv == FeedInv /\ AckInv /\ ClientNotRejected
<1>1. Init => Inv
  <2>1. Init => AckInv
    BY DEF Init, NoSubscription, AckInv
  <2>2. Init => ClientNotRejected
    BY DEF Init, ClientNotRejected
  <2> QED BY <2>1, <2>2, FeedInit
<1>2. ASSUME Inv, [Next]_vars PROVE Inv'
  <2>1. FeedInv'
    BY <1>2, FeedStep
  <2>2. AckInv'
    BY <1>2, <2>1, AckInvStep
  <2>3. /\ spent.faults \in Nat /\ spent.overrides \in Nat
        /\ spent'.faults \in Nat /\ spent'.overrides \in Nat
    BY <1>2, <2>1 DEF FeedInv, TypeInv, GameOK, Budgets
  <2>4. spent.faults <= spent'.faults /\ spent.overrides <= spent'.overrides
    BY <1>2, SpentStays
  <2>5. CASE spent.faults + spent.overrides > 0
    <3>1. spent'.faults + spent'.overrides > 0
      BY <2>3, <2>4, <2>5
    <3> QED BY <2>1, <2>2, <3>1 DEF ClientNotRejected
  <2>6. CASE ~ (spent.faults + spent.overrides > 0)
    <3>1. spent.faults = 0 /\ spent.overrides = 0
      BY <2>3, <2>6
    <3>2. socket # "rejected"
      BY <1>2, <2>6 DEF ClientNotRejected
    <3>3. socket' # "rejected" \/ spent'.faults + spent'.overrides > 0
      BY <1>2, <2>1, <3>1, <3>2, NoRejection
    <3> QED BY <2>1, <2>2, <3>3 DEF ClientNotRejected
  <2> QED BY <2>5, <2>6
<1> HIDE DEF Inv
<1>3. Inv => ClientNotRejected
  BY DEF Inv
<1> QED BY <1>1, <1>2, <1>3, PTL DEF Spec

===============================================================================
