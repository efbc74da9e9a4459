------------------------ MODULE BroadcastQueueProofs ------------------------
(***************************************************************************)
(* Proofs about BroadcastQueue, for every set of nodes, every size of a    *)
(* broadcast, every packet limit, multiplier and growth of the cluster.    *)
(***************************************************************************)
EXTENDS BroadcastQueue, FiniteSetTheorems, WellFoundedInduction, TLAPS

Picking == gossip.pc = "pick"

\* Between two packets GetBroadcasts holds nothing.
NothingInHand ==
    gossip.pc \in {"idle", "get"} =>
        gossip.packet = {} /\ gossip.reinsert = {} /\ gossip.bytesUsed = 0

\* A packet is filled and sent for a peer that has been chosen.
PeerChosen == gossip.pc \in {"pick", "send"} => gossip.peers > 0

\* Ids are given out in increasing order, and one id to one node.
IdsInOrder ==
    /\ \A n \in Names : latest[n] <= idGen
    /\ \A n, m \in Names : latest[n] = latest[m] /\ latest[n] # 0 => n = m
    /\ \A id \in Ids : id > idGen => sentTimes[id] = 0
    /\ \A x \in gossip.packet : x.id <= idGen

\* What is in the packet being filled is the latest about its node and no longer
\* in tq; what is put aside for reinsertion is in the packet.
OutOfTheQueue ==
    Picking =>
        /\ \A x \in gossip.packet : x.id = latest[x.node] /\ \A y \in tq : y.node # x.node
        /\ \A x \in gossip.reinsert : \E y \in gossip.packet : y.node = x.node

\* transmits counts transmissions.
TransmitsCounts == \A x \in Pending : x.transmits = Transmissions(x.id)

\* The retransmit limit only grows, from the time a broadcast is queued to the
\* time GetBroadcasts reads it, and on.
LimitsGrow ==
    /\ \A id \in Ids : due[id] <= retransmitLimit(numNodes)
    /\ Picking => /\ gossip.transmitLimit <= retransmitLimit(numNodes)
                  /\ \A x \in tq : due[x.id] <= gossip.transmitLimit

\* The tiers that have been searched hold nothing that would still fit.
Searched ==
    Picking =>
        \A x \in tq : /\ x.transmits <= gossip.maxTr
                      /\ x.transmits < gossip.tier => x.len > Free

QInv ==
    /\ TypeOK /\ NothingInHand /\ PeerChosen /\ IdsInOrder /\ OutOfTheQueue /\ TransmitsCounts
    /\ LimitsGrow /\ Searched
    /\ LatestOnly /\ PacketFits /\ RetransmitBounded /\ RetransmittedEnough

-----------------------------------------------------------------------------
(* Numbers. *)

\* A nonempty set of natural numbers has a least element, and Min finds it.
LEMMA MinProperties ==
    ASSUME NEW S \in SUBSET Nat, S # {}
    PROVE  Min(S) \in S /\ \A y \in S : Min(S) <= y
  <1> DEFINE R == OpToRel(<, Nat)
  <1>1. IsWellFoundedOn(R, Nat)
    BY NatLessThanWellFounded
  <1>2. \A x, y \in Nat : y < x => <<y, x>> \in R
    BY DEF OpToRel
  <1> HIDE DEF R
  <1>3. PICK x \in S : \A y \in S : ~(<<y, x>> \in R)
    BY <1>1, WFMin
  <1>4. ASSUME NEW y \in S PROVE x <= y
    <2>1. x \in Nat /\ y \in Nat /\ ~(y < x)
      BY <1>2, <1>3
    <2> QED
      BY <2>1
  <1> QED
    BY <1>4 DEF Min

\* A nonempty set of natural numbers below a bound has a greatest element.
LEMMA MaxProperties ==
    ASSUME NEW S \in SUBSET Nat, S # {}, NEW b \in Nat, \A y \in S : y <= b
    PROVE  Max(S) \in S /\ \A y \in S : y <= Max(S)
  <1> DEFINE T == {b - y : y \in S}
  <1>1. T \in SUBSET Nat /\ T # {}
    <2>1. PICK y \in S : TRUE
      OBVIOUS
    <2>2. b - y \in T
      OBVIOUS
    <2>3. \A z \in T : z \in Nat
      OBVIOUS
    <2> QED
      BY <2>2, <2>3
  <1>2. Min(T) \in T /\ \A z \in T : Min(T) <= z
    BY <1>1, MinProperties
  <1>3. PICK x \in S : Min(T) = b - x
    BY <1>2
  <1>4. \A y \in S : x >= y
    BY <1>2, <1>3
  <1>5. Max(S) \in S /\ \A y \in S : Max(S) >= y
    BY <1>4 DEF Max
  <1> QED
    BY <1>5

\* The number of decimal digits grows with the number.
LEMMA NodeScaleProperties ==
    ASSUME NEW n \in Nat, NEW m \in Nat, n <= m
    PROVE  /\ NodeScale(n) \in Nat
           /\ NodeScale(n) <= NodeScale(m)
           /\ n > 0 => NodeScale(n) > 0
  <1> DEFINE S(k) == {d \in 1..10 : PowersOfTen[d] <= k}
  <1>1. \A k \in Nat : IsFiniteSet(S(k)) /\ Cardinality(S(k)) \in Nat
    <2> TAKE k \in Nat
    <2>1. S(k) \in SUBSET Nat /\ \A d \in S(k) : d <= 10
      OBVIOUS
    <2>2. 10 \in Nat
      OBVIOUS
    <2>3. IsFiniteSet(S(k))
      BY <2>1, <2>2, FS_BoundedSetOfNaturals
    <2> QED
      BY <2>3, FS_CardinalityType
  <1>2. S(n) \in SUBSET S(m)
    BY DEF PowersOfTen
  <1>3. Cardinality(S(n)) <= Cardinality(S(m))
    BY <1>1, <1>2, FS_Subset
  <1>4. ASSUME n > 0 PROVE Cardinality(S(n)) > 0
    <2>1. 1 \in S(n)
      BY <1>4 DEF PowersOfTen
    <2>2. S(n) # {}
      BY <2>1
    <2>3. Cardinality(S(n)) # 0
      BY <1>1, <2>2, FS_EmptySet
    <2> QED
      BY <1>1, <2>3
  <1> QED
    BY <1>1, <1>3, <1>4 DEF NodeScale

\* retransmitLimit is at least one for a cluster, and grows with it.
LEMMA retransmitLimitProperties ==
    ASSUME NEW n \in Nat, NEW m \in Nat, n <= m
    PROVE  /\ retransmitLimit(n) \in Nat
           /\ retransmitLimit(n) <= retransmitLimit(m)
           /\ n > 0 => retransmitLimit(n) > 0
  <1> DEFINE a == NodeScale(n)
             b == NodeScale(m)
  <1>1. a \in Nat /\ b \in Nat /\ a <= b /\ (n > 0 => a > 0)
    BY NodeScaleProperties
  <1> HIDE DEF a, b
  <1>2. RetransmitMult * a \in Nat /\ RetransmitMult * a <= RetransmitMult * b
        /\ (a > 0 => RetransmitMult * a > 0)
    BY <1>1, MultAssumption
  <1> QED
    BY <1>1, <1>2 DEF retransmitLimit, a, b

-----------------------------------------------------------------------------
(* The locals of GetBroadcasts. *)

\* The locals of getBroadCast at its start, and of a gossip thread at rest.
LEMMA StartProperties ==
    ASSUME NEW pc \in {"idle", "get"}, NEW k \in Nat
    PROVE  /\ Start(pc, k) \in Locals
           /\ Start(pc, k).pc = pc /\ Start(pc, k).peers = k
           /\ Start(pc, k).packet = {} /\ Start(pc, k).reinsert = {}
           /\ Start(pc, k).bytesUsed = 0
  BY DEF Start, Locals

\* GetBegin leaves the packet and its size alone.
LEMMA BeginProperties ==
    ASSUME gossip \in Locals, GetBegin, Min(Tiers) \in Nat, Max(Tiers) \in Nat,
           retransmitLimit(numNodes) \in Nat
    PROVE  /\ gossip' \in Locals /\ gossip'.pc = "pick" /\ gossip'.tier = Min(Tiers)
           /\ gossip'.maxTr = Max(Tiers) /\ gossip'.transmitLimit = retransmitLimit(numNodes)
           /\ gossip'.packet = gossip.packet /\ gossip'.reinsert = gossip.reinsert
           /\ gossip'.bytesUsed = gossip.bytesUsed /\ gossip'.peers = gossip.peers
  <1> DEFINE t == Min(Tiers)
             m == Max(Tiers)
             l == retransmitLimit(numNodes)
             a == [gossip EXCEPT !.pc = "pick"]
             b == [a EXCEPT !.tier = t]
             c == [b EXCEPT !.maxTr = m]
             d == [c EXCEPT !.transmitLimit = l]
  <1>0. t \in Nat /\ m \in Nat /\ l \in Nat
    OBVIOUS
  <1>5. gossip' = d
    BY DEF GetBegin
  <1> HIDE DEF t, m, l
  <1>1. a \in Locals /\ a.pc = "pick" /\ a.packet = gossip.packet
        /\ a.reinsert = gossip.reinsert /\ a.bytesUsed = gossip.bytesUsed /\ a.peers = gossip.peers
    BY DEF Locals
  <1> HIDE DEF a
  <1>2. b \in Locals /\ b.pc = "pick" /\ b.packet = gossip.packet
        /\ b.reinsert = gossip.reinsert /\ b.bytesUsed = gossip.bytesUsed /\ b.peers = gossip.peers /\ b.tier = t
    BY <1>0, <1>1 DEF Locals
  <1> HIDE DEF b
  <1>3. c \in Locals /\ c.pc = "pick" /\ c.packet = gossip.packet
        /\ c.reinsert = gossip.reinsert /\ c.bytesUsed = gossip.bytesUsed /\ c.peers = gossip.peers /\ c.tier = t
        /\ c.maxTr = m
    BY <1>0, <1>2 DEF Locals
  <1> HIDE DEF c
  <1>4. d \in Locals /\ d.pc = "pick" /\ d.packet = gossip.packet
        /\ d.reinsert = gossip.reinsert /\ d.bytesUsed = gossip.bytesUsed /\ d.peers = gossip.peers /\ d.tier = t
        /\ d.maxTr = m /\ d.transmitLimit = l
    BY <1>0, <1>3 DEF Locals
  <1> HIDE DEF d
  <1> QED
    BY <1>4, <1>5 DEF t, m, l

\* What Pick does to them when it picks x.
Picks(x) ==
    gossip' = [gossip EXCEPT !.packet = @ \cup {x}, !.bytesUsed = @ + x.len,
                  !.reinsert = IF Again(Retransmitted(x)) THEN @ \cup {Retransmitted(x)} ELSE @]

\* A message has at least one byte.
LEMMA LenTyped ==
    ASSUME NEW x \in Item
    PROVE  x.len \in Nat /\ x.len > 0
  <1>1. x.len \in Lens
    BY DEF Item
  <1>2. x.len \in Nat /\ x.len # 0
    BY <1>1, LensAssumption
  <1> QED
    BY <1>2

\* An item keeps everything but its count.
LEMMA RetransmittedProperties ==
    ASSUME NEW x \in Item
    PROVE  /\ Retransmitted(x) \in Item /\ Retransmitted(x).node = x.node
           /\ Retransmitted(x).id = x.id /\ Retransmitted(x).transmits = x.transmits + 1
  BY DEF Retransmitted, Item

\* What one choice of getBroadCast does to its locals.
LEMMA PickProperties ==
    ASSUME gossip \in Locals, NEW x \in Item, Picks(x)
    PROVE  /\ gossip' \in Locals /\ gossip'.packet = gossip.packet \cup {x}
           /\ gossip'.bytesUsed = gossip.bytesUsed + x.len
           /\ gossip'.reinsert = IF Again(Retransmitted(x))
                                 THEN gossip.reinsert \cup {Retransmitted(x)}
                                 ELSE gossip.reinsert
           /\ gossip'.pc = gossip.pc /\ gossip'.tier = gossip.tier
           /\ gossip'.maxTr = gossip.maxTr /\ gossip'.transmitLimit = gossip.transmitLimit
           /\ gossip'.peers = gossip.peers
  <1> DEFINE p == gossip.packet \cup {x}
             u == gossip.bytesUsed + x.len
             r == IF Again(Retransmitted(x)) THEN gossip.reinsert \cup {Retransmitted(x)}
                                             ELSE gossip.reinsert
             a == [gossip EXCEPT !.packet = p]
             b == [a EXCEPT !.bytesUsed = u]
             c == [b EXCEPT !.reinsert = r]
  <1>0. p \in SUBSET Item /\ r \in SUBSET Item
    BY RetransmittedProperties DEF Locals
  <1>1. u \in Nat
    <2>1. gossip.bytesUsed \in Nat
      BY DEF Locals
    <2> QED
      BY <2>1, LenTyped
  <1>2. gossip' = c
    BY DEF Picks, Locals
  <1> HIDE DEF p, u, r
  <1>3. a \in Locals /\ a.packet = p /\ a.pc = gossip.pc /\ a.peers = gossip.peers /\ a.tier = gossip.tier
        /\ a.maxTr = gossip.maxTr /\ a.transmitLimit = gossip.transmitLimit
    BY <1>0 DEF Locals
  <1> HIDE DEF a
  <1>4. b \in Locals /\ b.packet = p /\ b.pc = gossip.pc /\ b.peers = gossip.peers /\ b.tier = gossip.tier
        /\ b.maxTr = gossip.maxTr /\ b.transmitLimit = gossip.transmitLimit
        /\ b.bytesUsed = u
    BY <1>1, <1>3 DEF Locals
  <1> HIDE DEF b
  <1>5. c \in Locals /\ c.packet = p /\ c.pc = gossip.pc /\ c.peers = gossip.peers /\ c.tier = gossip.tier
        /\ c.maxTr = gossip.maxTr /\ c.transmitLimit = gossip.transmitLimit
        /\ c.bytesUsed = u /\ c.reinsert = r
    BY <1>0, <1>4 DEF Locals
  <1> HIDE DEF c
  <1> QED
    BY <1>2, <1>5 DEF p, u, r

-----------------------------------------------------------------------------
(* Steps that neither queue nor pick anything. *)

\* The empty queue satisfies the invariant.
LEMMA QInvInit == Init => QInv
  <1> SUFFICES ASSUME Init PROVE QInv
    OBVIOUS
  <1>1. /\ gossip \in Locals /\ gossip.pc = "idle" /\ gossip.packet = {}
        /\ gossip.reinsert = {} /\ gossip.bytesUsed = 0
    BY StartProperties DEF Init
  <1>2. TypeOK
    BY <1>1, CountsAssumption DEF Init, TypeOK
  <1>3. Pending = {}
    BY <1>1 DEF Init, Pending, Unlocked
  <1>4. retransmitLimit(0) \in Nat /\ numNodes = 0
    BY retransmitLimitProperties DEF Init
  <1>5. NothingInHand /\ PeerChosen /\ OutOfTheQueue /\ TransmitsCounts /\ Searched
    BY <1>1, <1>3 DEF NothingInHand, PeerChosen, OutOfTheQueue, TransmitsCounts, Searched, Picking
  <1>6. IdsInOrder /\ RetransmittedEnough
    BY <1>1 DEF Init, IdsInOrder, RetransmittedEnough
  <1>7. LimitsGrow
    BY <1>1, <1>4 DEF Init, LimitsGrow, Picking
  <1>8. LatestOnly
    BY <1>3 DEF Init, LatestOnly
  <1>9. PacketFits
    BY <1>1, LimitAssumption DEF PacketFits
  <1>10. RetransmitBounded
    BY <1>1, <1>3, <1>4 DEF Init, RetransmitBounded, Transmissions
  <1> QED
    BY <1>2, <1>5, <1>6, <1>7, <1>8, <1>9, <1>10 DEF QInv

\* What is pending are items, and the history knows their ids.
LEMMA PendingTyped ==
    ASSUME QInv
    PROVE  /\ Pending \subseteq Item /\ tq \subseteq Item /\ gossip.packet \subseteq Item
           /\ \A x \in Pending \cup gossip.packet : x.id \in Ids /\ x.node \in Names
                                               /\ x.transmits \in Nat
           /\ \A n \in Names : latest[n] # 0 => latest[n] \in Ids
           /\ \A id \in Ids : Transmissions(id) \in Nat
  <1>1. Pending \subseteq Item /\ tq \subseteq Item /\ gossip.packet \subseteq Item
    BY DEF Pending, QInv, TypeOK, Locals
  <1>2. \A x \in Item : x.id \in Ids /\ x.node \in Names /\ x.transmits \in Nat
    BY DEF Item
  <1>3. \A n \in Names : latest[n] # 0 => latest[n] \in Ids
    BY DEF QInv, TypeOK, Ids
  <1>4. \A id \in Ids : Transmissions(id) \in Nat
    BY DEF QInv, TypeOK, Transmissions
  <1> QED
    BY <1>1, <1>2, <1>3, <1>4

\* Between two packets: gossip starts, returns or finds the queue empty.
LEMMA BetweenPacketsKeeps ==
    ASSUME QInv, UNCHANGED <<queueVars, numNodes, notified, history>>,
           gossip.pc \in {"idle", "get"},
           NEW pc \in {"idle", "get"}, NEW k \in Nat, gossip' = Start(pc, k)
    PROVE  QInv'
  <1> USE DEF queueVars, history
  <1>1. /\ gossip' \in Locals /\ gossip'.pc = pc /\ gossip'.packet = {}
        /\ gossip'.reinsert = {} /\ gossip'.bytesUsed = 0 /\ gossip.packet = {}
    BY StartProperties DEF QInv, NothingInHand
  <1>2. Pending' = Pending /\ \A id \in Ids : Transmissions(id)' = Transmissions(id)
    BY <1>1 DEF Pending, Unlocked, Transmissions
  <1>3. TypeOK' /\ NothingInHand' /\ PeerChosen' /\ IdsInOrder' /\ OutOfTheQueue'
        /\ LimitsGrow' /\ Searched'
    BY <1>1 DEF QInv, PeerChosen, TypeOK, NothingInHand, IdsInOrder, OutOfTheQueue, LimitsGrow, Searched,
                Picking
  <1>4. LatestOnly'
    BY <1>2 DEF QInv, LatestOnly
  <1>5. PacketFits'
    BY <1>1, LimitAssumption DEF PacketFits
  <1>6. TransmitsCounts' /\ RetransmitBounded' /\ RetransmittedEnough'
    BY <1>2, PendingTyped DEF QInv, TransmitsCounts, RetransmitBounded, RetransmittedEnough
  <1> QED
    BY <1>3, <1>4, <1>5, <1>6 DEF QInv

\* The cluster grows, and with it every limit that is still to be read.
LEMMA NodesJoinKeeps ==
    ASSUME QInv, NEW n \in NodeCounts, NodesJoin(n)
    PROVE  QInv'
  <1> USE DEF queueVars, history, NodesJoin
  <1>0. numNodes \in Nat /\ numNodes' \in Nat /\ numNodes <= numNodes'
    BY CountsAssumption DEF QInv, TypeOK
  <1>1. /\ retransmitLimit(numNodes) \in Nat /\ retransmitLimit(numNodes') \in Nat
        /\ retransmitLimit(numNodes) <= retransmitLimit(numNodes')
    BY <1>0, retransmitLimitProperties
  <1>2. Pending' = Pending /\ \A id \in Ids : Transmissions(id)' = Transmissions(id)
    BY DEF Pending, Unlocked, Transmissions
  <1>3. TypeOK' /\ NothingInHand' /\ PeerChosen' /\ IdsInOrder' /\ OutOfTheQueue'
        /\ Searched' /\ PacketFits'
    BY <1>0 DEF QInv, PeerChosen, TypeOK, NothingInHand, IdsInOrder, OutOfTheQueue, Searched, Picking,
                PacketFits, Free
  <1>4. LatestOnly'
    BY <1>2 DEF QInv, LatestOnly
  <1>5. LimitsGrow'
    <2>1. \A id \in Ids : due[id] \in Nat
      BY DEF QInv, TypeOK
    <2>2. gossip.transmitLimit \in Nat
      BY DEF QInv, TypeOK, Locals
    <2> QED
      BY <1>1, <2>1, <2>2 DEF QInv, LimitsGrow, Picking, retransmitLimit
  <1>6. TransmitsCounts' /\ RetransmittedEnough'
    BY <1>2, PendingTyped DEF QInv, TransmitsCounts, RetransmittedEnough
  <1>7. RetransmitBounded'
    BY <1>1, <1>2, PendingTyped DEF QInv, RetransmitBounded, retransmitLimit
  <1> QED
    BY <1>3, <1>4, <1>5, <1>6, <1>7 DEF QInv

\* GetBroadcasts finds the tiers of the queue and reads the limit.
LEMMA GetBeginKeeps ==
    ASSUME QInv, GetBegin
    PROVE  QInv'
  <1> USE DEF queueVars, history
  <1> DEFINE l == retransmitLimit(numNodes)
             lo == Min(Tiers)
             hi == Max(Tiers)
  <1>0. l \in Nat
    BY retransmitLimitProperties DEF QInv, TypeOK
  <1>1. gossip \in Locals /\ gossip.packet = {} /\ gossip.reinsert = {} /\ Pending = tq
    BY DEF QInv, TypeOK, GetBegin, NothingInHand, Pending, Unlocked
  <1>2. Tiers \in SUBSET Nat /\ Tiers # {} /\ \A t \in Tiers : t <= l
    <2>1. \A x \in tq : x.transmits \in Nat /\ x.transmits < l
      BY <1>1, PendingTyped DEF QInv, RetransmitBounded
    <2>2. PICK x \in tq : TRUE
      BY DEF GetBegin
    <2>3. x.transmits \in Tiers
      BY DEF Tiers
    <2>4. \A t \in Tiers : t \in Nat /\ t <= l
      BY <1>0, <2>1 DEF Tiers
    <2> QED
      BY <2>3, <2>4
  <1>3. /\ lo \in Nat /\ hi \in Nat
        /\ \A t \in Tiers : lo <= t /\ t <= hi
    BY <1>0, <1>2, MinProperties, MaxProperties
  <1>5. /\ gossip' \in Locals /\ gossip'.pc = "pick" /\ gossip'.tier = lo
        /\ gossip'.maxTr = hi /\ gossip'.transmitLimit = l
        /\ gossip'.packet = {} /\ gossip'.reinsert = {}
        /\ gossip'.bytesUsed = gossip.bytesUsed /\ gossip'.peers = gossip.peers
    BY <1>0, <1>1, <1>3, BeginProperties
  <1> HIDE DEF l, lo, hi
  <1>6. UNCHANGED <<tq, tm, idGen, numNodes, notified, latest, sentTimes, due>>
    BY DEF GetBegin
  <1>7. Pending' = Pending /\ \A id \in Ids : Transmissions(id)' = Transmissions(id)
    BY <1>1, <1>5, <1>6 DEF Pending, Unlocked, Transmissions
  <1>8. TypeOK' /\ NothingInHand' /\ PeerChosen' /\ IdsInOrder' /\ OutOfTheQueue'
    BY <1>1, <1>5, <1>6 DEF GetBegin, PeerChosen, QInv, TypeOK, NothingInHand, IdsInOrder, OutOfTheQueue, Picking
  <1>9. PacketFits'
    BY <1>1, <1>5, <1>6 DEF QInv, PacketFits
  <1>10. Searched'
    <2>1. \A x \in tq : x.transmits \in Tiers
      BY DEF Tiers
    <2>2. ASSUME NEW x \in tq PROVE x.transmits <= hi /\ ~(x.transmits < lo)
      <3>1. x.transmits \in Nat /\ lo <= x.transmits /\ x.transmits <= hi
        BY <1>2, <1>3, <2>1
      <3> QED
        BY <1>3, <3>1
    <2> QED
      BY <1>5, <1>6, <2>2 DEF Searched
  <1>11. LatestOnly'
    BY <1>6, <1>7 DEF QInv, LatestOnly
  <1>12. LimitsGrow'
    <2>1. retransmitLimit(numNodes)' = l
      BY <1>6 DEF retransmitLimit, l
    <2>2. \A x \in tq : x.id \in Ids
      BY <1>1, PendingTyped
    <2> QED
      BY <1>0, <1>5, <1>6, <2>1, <2>2 DEF QInv, LimitsGrow, l
  <1>13. TransmitsCounts' /\ RetransmitBounded' /\ RetransmittedEnough'
    BY <1>6, <1>7, PendingTyped
       DEF QInv, TransmitsCounts, RetransmitBounded, RetransmittedEnough, retransmitLimit
  <1> QED
    BY <1>8, <1>9, <1>10, <1>11, <1>12, <1>13 DEF QInv

\* A tier has been searched.
LEMMA NextTierKeeps ==
    ASSUME QInv, NextTier
    PROVE  QInv'
  <1> USE DEF queueVars, history
  <1>1. /\ gossip' \in Locals /\ gossip'.pc = "pick" /\ gossip'.tier = gossip.tier + 1
        /\ gossip'.maxTr = gossip.maxTr /\ gossip'.transmitLimit = gossip.transmitLimit
        /\ gossip'.packet = gossip.packet /\ gossip'.reinsert = gossip.reinsert
        /\ gossip'.bytesUsed = gossip.bytesUsed /\ gossip'.peers = gossip.peers
        /\ gossip.pc = "pick"
    BY DEF NextTier, QInv, TypeOK, Locals
  <1>2. UNCHANGED <<tq, tm, idGen, numNodes, notified, latest, sentTimes, due>>
    BY DEF NextTier
  <1>3. Pending' = Pending /\ \A id \in Ids : Transmissions(id)' = Transmissions(id)
    BY <1>1, <1>2 DEF Pending, Unlocked, Transmissions
  <1>4. TypeOK' /\ NothingInHand' /\ PeerChosen' /\ IdsInOrder' /\ OutOfTheQueue' /\ PacketFits'
    BY <1>1, <1>2 DEF QInv, TypeOK, NothingInHand, PeerChosen, IdsInOrder, OutOfTheQueue, Picking,
                      PacketFits
  <1>5. LimitsGrow'
    BY <1>1, <1>2 DEF QInv, LimitsGrow, Picking, retransmitLimit
  <1>6. LatestOnly'
    BY <1>2, <1>3 DEF QInv, LatestOnly
  <1>7. TransmitsCounts' /\ RetransmitBounded' /\ RetransmittedEnough'
    BY <1>2, <1>3, PendingTyped
       DEF QInv, TransmitsCounts, RetransmitBounded, RetransmittedEnough, retransmitLimit
  <1>8. Searched'
    <2> SUFFICES ASSUME NEW x \in tq
                 PROVE  /\ x.transmits <= gossip.maxTr
                        /\ x.transmits < gossip.tier + 1 => x.len > Free
      BY <1>1, <1>2 DEF Searched, Free
    <2>1. x.transmits <= gossip.maxTr /\ (x.transmits < gossip.tier => x.len > Free)
      BY <1>1 DEF QInv, Searched, Picking
    <2>2. x.transmits = gossip.tier => ~(x.len <= Free)
      BY DEF NextTier, Candidates
    <2>3. x.transmits \in Nat /\ gossip.tier \in Nat /\ x.len \in Nat /\ Free \in Int
      <3>1. x \in Item /\ gossip \in Locals
        BY PendingTyped DEF QInv, TypeOK
      <3>2. gossip.tier \in Nat /\ gossip.bytesUsed \in Nat
        BY <3>1 DEF Locals
      <3>3. x.transmits \in Nat
        BY <3>1 DEF Item
      <3> QED
        BY <3>1, <3>2, <3>3, LenTyped, LimitAssumption DEF Free
    <2> QED
      BY <2>1, <2>2, <2>3
  <1> QED
    BY <1>4, <1>5, <1>6, <1>7, <1>8 DEF QInv

\* What was put aside is reinserted.
LEMMA GetEndKeeps ==
    ASSUME QInv, GetEnd
    PROVE  QInv'
  <1> USE DEF queueVars, history
  <1>0. gossip.pc = "pick" /\ gossip \in Locals
    BY DEF GetEnd, QInv, TypeOK
  <1>1. /\ gossip' \in Locals /\ gossip'.pc \in {"send", "idle"}
        /\ gossip'.packet = gossip.packet
        /\ gossip'.pc = "send" => gossip'.peers = gossip.peers
        /\ gossip'.pc = "idle" => gossip'.packet = {} /\ gossip'.reinsert = {}
        /\ gossip'.bytesUsed = (IF gossip'.pc = "idle" THEN 0 ELSE gossip.bytesUsed)
    <2>1. CASE gossip' = [gossip EXCEPT !.pc = "send"]
      BY <1>0, <2>1 DEF Locals
    <2>2. CASE gossip.packet = {} /\ gossip' = Start("idle", 0)
      BY <2>2, StartProperties
    <2> QED
      BY <2>1, <2>2 DEF GetEnd
  <1>2. /\ UNCHANGED <<idGen, numNodes, notified, latest, sentTimes, due>>
        /\ tq' = tq \cup gossip.reinsert
        /\ tm' = tm \cup {x.node : x \in gossip.reinsert}
    BY DEF GetEnd, Reinserted
  <1>3. /\ Pending' = Pending /\ Pending = tq'
        /\ \A id \in Ids : Transmissions(id)' = Transmissions(id)
    BY <1>0, <1>1, <1>2 DEF Pending, Unlocked, Transmissions
  <1>4. tq' \subseteq Item /\ tm' \subseteq Names
    <2>1. gossip.reinsert \subseteq Item /\ tq \subseteq Item /\ tm \subseteq Names
      BY <1>0 DEF Locals, QInv, TypeOK
    <2>2. \A x \in gossip.reinsert : x.node \in Names
      BY <2>1 DEF Item
    <2> QED
      BY <1>2, <2>1, <2>2
  <1>5. TypeOK' /\ IdsInOrder' /\ OutOfTheQueue' /\ Searched'
    BY <1>1, <1>2, <1>4 DEF QInv, TypeOK, IdsInOrder, OutOfTheQueue, Searched, Picking
  <1>6. NothingInHand' /\ PeerChosen'
    BY <1>0, <1>1 DEF NothingInHand, PeerChosen, QInv
  <1>7. PacketFits'
    BY <1>1, LimitAssumption DEF QInv, PacketFits
  <1>8. LimitsGrow'
    BY <1>1, <1>2 DEF QInv, LimitsGrow, Picking, retransmitLimit
  <1>9. LatestOnly'
    <2>1. tm' = {x.node : x \in tq'}
      BY <1>2 DEF QInv, LatestOnly
    <2> QED
      BY <1>2, <1>3, <2>1 DEF QInv, LatestOnly
  <1>10. TransmitsCounts' /\ RetransmitBounded' /\ RetransmittedEnough'
    BY <1>2, <1>3, PendingTyped
       DEF QInv, TransmitsCounts, RetransmitBounded, RetransmittedEnough, retransmitLimit
  <1> QED
    BY <1>5, <1>6, <1>7, <1>8, <1>9, <1>10 DEF QInv

\* The packet goes out: what was counted for it is now counted as sent.
LEMMA SendKeeps ==
    ASSUME QInv, Send
    PROVE  QInv'
  <1> USE DEF queueVars, history
  <1>0. gossip.peers \in Nat /\ gossip.peers > 0
    BY DEF QInv, TypeOK, Locals, PeerChosen, Send
  <1>1. /\ gossip' \in Locals /\ gossip'.pc = "get" /\ gossip'.packet = {}
        /\ gossip'.reinsert = {} /\ gossip'.bytesUsed = 0 /\ gossip.pc = "send"
    <2>1. gossip.peers - 1 \in Nat
      BY <1>0
    <2> QED
      BY <2>1, StartProperties DEF Send
  <1>2. UNCHANGED <<tq, tm, idGen, numNodes, notified, latest, due>>
    BY DEF Send
  <1>3. /\ sentTimes' \in [Ids -> Nat]
        /\ \A id \in Ids : sentTimes'[id] = Transmissions(id)
    <2>1. sentTimes \in [Ids -> Nat]
      BY DEF QInv, TypeOK
    <2>2. \A id \in Ids : sentTimes[id] + 1 \in Nat /\ sentTimes[id] + 0 = sentTimes[id]
      BY <2>1
    <2> QED
      BY <2>1, <2>2 DEF Send, Transmissions
  <1>4. Pending' = Pending /\ \A id \in Ids : Transmissions(id)' = Transmissions(id)
    BY <1>1, <1>2, <1>3, PendingTyped DEF Pending, Unlocked, Transmissions
  <1>5. TypeOK' /\ NothingInHand' /\ PeerChosen' /\ OutOfTheQueue' /\ Searched'
    BY <1>1, <1>2, <1>3 DEF PeerChosen, QInv, TypeOK, NothingInHand, OutOfTheQueue, Searched, Picking
  <1>6. IdsInOrder'
    <2>1. \A id \in Ids : id > idGen => sentTimes'[id] = 0
      BY <1>3 DEF QInv, IdsInOrder, Transmissions, TypeOK, Ids
    <2> QED
      BY <1>1, <1>2, <2>1 DEF QInv, IdsInOrder
  <1>7. PacketFits'
    BY <1>1, LimitAssumption DEF PacketFits
  <1>8. LimitsGrow'
    BY <1>1, <1>2 DEF QInv, LimitsGrow, Picking, retransmitLimit
  <1>9. LatestOnly'
    BY <1>2, <1>4 DEF QInv, LatestOnly
  <1>10. TransmitsCounts' /\ RetransmitBounded' /\ RetransmittedEnough'
    BY <1>2, <1>4, PendingTyped
       DEF QInv, TransmitsCounts, RetransmitBounded, RetransmittedEnough, retransmitLimit
  <1> QED
    BY <1>5, <1>6, <1>7, <1>8, <1>9, <1>10 DEF QInv

-----------------------------------------------------------------------------
(* queueBroadcast. *)

\* deleteItem finds what there is: tm has an entry for every node of tq.
LEMMA InvalidatedAll ==
    ASSUME LatestOnly, NEW n
    PROVE  Invalidated(n) = {x \in tq : x.node = n}
  BY DEF LatestOnly, Invalidated

\* QueueBroadcast replaces what is queued about the node by a newer message.
LEMMA QueueBroadcastKeeps ==
    ASSUME QInv, NEW n \in Names, NEW len \in Lens, NEW notify \in BOOLEAN,
           QueueBroadcast(n, len, notify)
    PROVE  QInv'
  <1> DEFINE lb == [node |-> n, len |-> len, id |-> idGen + 1, transmits |-> 0,
                    notify |-> notify]
  <1>0. idGen \in Nat /\ idGen + 1 \in Ids /\ idGen' = idGen + 1 /\ idGen + 1 \in 0..MaxQueued
    BY CountsAssumption DEF QueueBroadcast, QInv, TypeOK, Ids
  <1>1. lb \in Item /\ lb.node = n /\ lb.id = idGen + 1 /\ lb.transmits = 0
    BY <1>0 DEF Item
  <1>2. tq' = {x \in tq : x.node # n} \cup {lb}
    BY InvalidatedAll DEF QueueBroadcast, QInv
  <1>3. /\ tm' = tm \cup {n}
        /\ notified' = notified \cup {x.id : x \in {y \in Invalidated(n) : y.notify}}
        /\ latest' = [latest EXCEPT ![n] = idGen + 1]
        /\ due' = [due EXCEPT ![idGen + 1] = retransmitLimit(numNodes)]
        /\ UNCHANGED <<numNodes, gossip, sentTimes>>
        /\ gossip.pc # "pick" /\ numNodes > 0
    BY DEF QueueBroadcast, Finished, Unlocked
  <1> HIDE DEF lb
  <1>4. Pending = tq /\ Pending' = tq'
    BY <1>3 DEF Pending, Unlocked
  <1>5. \A id \in Ids : Transmissions(id)' = Transmissions(id)
    BY <1>3 DEF Transmissions
  <1>6. /\ numNodes \in Nat /\ retransmitLimit(numNodes) \in Nat /\ retransmitLimit(numNodes) > 0
        /\ retransmitLimit(numNodes)' = retransmitLimit(numNodes)
    BY <1>3, retransmitLimitProperties DEF QInv, TypeOK, retransmitLimit
  <1>7. /\ latest' \in [Names -> 0..MaxQueued] /\ latest'[n] = idGen + 1
        /\ \A m \in Names \ {n} : latest'[m] = latest[m]
    BY <1>0, <1>3 DEF QInv, TypeOK
  <1>8. /\ due' \in [Ids -> Nat] /\ due'[idGen + 1] = retransmitLimit(numNodes)
        /\ \A id \in Ids \ {idGen + 1} : due'[id] = due[id]
    BY <1>0, <1>3, <1>6 DEF QInv, TypeOK
  <1>9. \A m \in Names : latest[m] \in Nat /\ latest[m] <= idGen
    BY DEF QInv, TypeOK, IdsInOrder
  <1>10. Transmissions(idGen + 1) = 0
    <2>1. sentTimes[idGen + 1] = 0
      BY <1>0 DEF QInv, IdsInOrder
    <2>2. \A x \in gossip.packet : x.id # idGen + 1
      BY <1>0, PendingTyped DEF QInv, IdsInOrder, Ids
    <2> QED
      BY <2>1, <2>2 DEF Transmissions
  <1>11. TypeOK'
    <2>1. tq' \subseteq Item /\ tm' \subseteq Names
      BY <1>1, <1>2, <1>3 DEF QInv, TypeOK
    <2>2. notified' \subseteq Ids
      BY <1>3, <1>4, PendingTyped DEF QInv, TypeOK, Invalidated
    <2> QED
      BY <1>0, <1>3, <1>7, <1>8, <2>1, <2>2 DEF QInv, TypeOK
  <1>12. NothingInHand' /\ PeerChosen' /\ OutOfTheQueue' /\ Searched' /\ PacketFits'
    BY <1>3 DEF QInv, NothingInHand, PeerChosen, OutOfTheQueue, Searched, Picking, PacketFits
  <1>13. IdsInOrder'
    <2>1. \A m \in Names : latest'[m] <= idGen + 1
      BY <1>0, <1>7, <1>9
    <2>2. \A m, k \in Names : latest'[m] = latest'[k] /\ latest'[m] # 0 => m = k
      BY <1>0, <1>7, <1>9 DEF QInv, IdsInOrder
    <2>3. \A id \in Ids : id > idGen + 1 => sentTimes[id] = 0
      BY <1>0 DEF QInv, IdsInOrder, Ids
    <2>4. \A x \in gossip.packet : x.id <= idGen + 1
      BY <1>0, PendingTyped DEF QInv, IdsInOrder, Ids
    <2> QED
      BY <1>0, <1>3, <2>1, <2>2, <2>3, <2>4 DEF IdsInOrder
  <1>14. LatestOnly'
    <2>1. \A x, y \in tq' : x.node = y.node => x = y
      BY <1>1, <1>2, <1>4 DEF QInv, LatestOnly
    <2>2. \A x \in tq' : x.id = latest'[x.node]
      BY <1>1, <1>2, <1>4, <1>7, PendingTyped DEF QInv, LatestOnly
    <2>3. tm' = {x.node : x \in tq'}
      BY <1>1, <1>2, <1>3 DEF QInv, LatestOnly
    <2> QED
      BY <1>4, <2>1, <2>2, <2>3 DEF LatestOnly
  <1>15. LimitsGrow'
    BY <1>3, <1>6, <1>8 DEF QInv, LimitsGrow, Picking
  <1>16. TransmitsCounts'
    BY <1>0, <1>1, <1>2, <1>4, <1>5, <1>10, PendingTyped DEF QInv, TransmitsCounts
  <1>17. RetransmitBounded'
    BY <1>1, <1>2, <1>4, <1>5, <1>6 DEF QInv, RetransmitBounded
  <1>18. RetransmittedEnough'
    <2> SUFFICES ASSUME NEW m \in Names, latest'[m] # 0, ~\E x \in tq' : x.id = latest'[m]
                 PROVE  Transmissions(latest[m])' >= due'[latest'[m]]
      BY <1>4 DEF RetransmittedEnough
    <2>1. m # n
      BY <1>1, <1>2, <1>7
    <2>2. latest'[m] = latest[m] /\ latest[m] \in Ids /\ latest[m] # idGen + 1
      BY <1>0, <1>7, <1>9, <2>1, PendingTyped
    <2>3. ~\E x \in tq : x.id = latest[m]
      <3> SUFFICES ASSUME NEW x \in tq, x.id = latest[m] PROVE FALSE
        OBVIOUS
      <3>1. x.node \in Names /\ latest[x.node] = latest[m]
        BY <1>4, PendingTyped DEF QInv, LatestOnly
      <3>2. x.node = m
        BY <2>2, <3>1 DEF QInv, IdsInOrder
      <3> QED
        BY <1>2, <2>1, <2>2, <3>2
    <2>4. Transmissions(latest[m]) >= due[latest[m]]
      BY <1>4, <2>2, <2>3 DEF QInv, RetransmittedEnough
    <2>5. Transmissions(latest[m])' = Transmissions(latest[m])
      BY <1>3, <2>2 DEF Transmissions
    <2> QED
      BY <1>8, <2>2, <2>4, <2>5
  <1> QED
    BY <1>11, <1>12, <1>13, <1>14, <1>15, <1>16, <1>17, <1>18 DEF QInv

-----------------------------------------------------------------------------
(* Pick. *)

\* getBroadCast takes a message into the packet, or goes on to the next tier.
LEMMA PickKeeps ==
    ASSUME QInv, Pick
    PROVE  QInv'
  <1>0. /\ gossip.pc = "pick" /\ gossip \in Locals /\ gossip.packet \subseteq Item
        /\ gossip.reinsert \subseteq Item /\ Pending = tq \cup gossip.reinsert
    BY DEF Pick, QInv, TypeOK, Locals, Pending, Unlocked
  <1>1. PICK x \in Candidates :
            /\ tq' = tq \ Invalidated(x.node)
            /\ tm' = tm \ {x.node}
            /\ Finished(Invalidated(x.node))
            /\ Picks(x)
    BY DEF Pick, Picks
  <1> DEFINE sent == Retransmitted(x)
             again == Again(sent)
  <1>2. x \in tq /\ x \in Item /\ x.id \in Ids /\ x.node \in Names /\ x.transmits \in Nat
    BY PendingTyped DEF Candidates, Item
  <1>3. sent \in Item /\ sent.node = x.node /\ sent.id = x.id /\ sent.transmits = x.transmits + 1
    BY <1>2, RetransmittedProperties
  <1>4. tq' = {y \in tq : y.node # x.node}
    BY <1>1, InvalidatedAll DEF QInv
  <1>5. /\ gossip' \in Locals /\ gossip'.packet = gossip.packet \cup {x}
        /\ gossip'.bytesUsed = gossip.bytesUsed + x.len
        /\ gossip'.reinsert = IF again THEN gossip.reinsert \cup {sent} ELSE gossip.reinsert
        /\ gossip'.pc = "pick" /\ gossip'.tier = gossip.tier
        /\ gossip'.maxTr = gossip.maxTr /\ gossip'.transmitLimit = gossip.transmitLimit
        /\ gossip'.peers = gossip.peers
    BY <1>0, <1>1, <1>2, PickProperties
  <1>6. UNCHANGED <<idGen, numNodes, latest, sentTimes, due>>
    BY DEF Pick, history
  <1>7. /\ x.transmits < retransmitLimit(numNodes)
        /\ gossip.transmitLimit <= retransmitLimit(numNodes)
        /\ due[x.id] <= gossip.transmitLimit
        /\ retransmitLimit(numNodes) \in Nat /\ gossip.transmitLimit \in Nat
        /\ due[x.id] \in Nat
        /\ retransmitLimit(numNodes)' = retransmitLimit(numNodes)
    <2>1. numNodes \in Nat /\ due[x.id] \in Nat
      BY <1>2 DEF QInv, TypeOK
    <2>2. retransmitLimit(numNodes) \in Nat /\ gossip.transmitLimit \in Nat
      BY <1>0, <2>1, retransmitLimitProperties DEF Locals
    <2> QED
      BY <1>0, <1>2, <1>6, <2>1, <2>2
         DEF QInv, RetransmitBounded, LimitsGrow, Picking, retransmitLimit
  <1>8. again => sent.transmits < gossip.transmitLimit
    BY DEF Again
  <1>9. ~again => ~(sent.transmits < gossip.transmitLimit)
    BY DEF Again
  <1> HIDE DEF sent, again
  <1>10. x.id = latest[x.node] /\ latest[x.node] # 0
    BY <1>0, <1>2 DEF QInv, LatestOnly, Ids
  \* Two pending or picked items with the same id are about the same node.
  <1>11. \A y \in Pending \cup gossip.packet : y.id = x.id => y.node = x.node
    <2> SUFFICES ASSUME NEW y \in Pending \cup gossip.packet, y.id = x.id
                 PROVE  y.node = x.node
      OBVIOUS
    <2>1. y.node \in Names /\ y.id = latest[y.node]
      BY <1>0, PendingTyped DEF QInv, LatestOnly, OutOfTheQueue, Picking
    <2> QED
      BY <1>2, <1>10, <2>1 DEF QInv, IdsInOrder
  <1>12. \A y \in gossip.packet : y.node # x.node /\ y.id # x.id
    BY <1>0, <1>2, <1>11 DEF QInv, OutOfTheQueue, Picking
  <1>13. \A y \in gossip.reinsert : y.node # x.node
    BY <1>0, <1>12 DEF QInv, OutOfTheQueue, Picking
  <1>14. Pending' = {y \in Pending : y.node # x.node} \cup (IF again THEN {sent} ELSE {})
    BY <1>0, <1>4, <1>5, <1>13 DEF Pending, Unlocked
  <1>15. /\ Transmissions(x.id) = sentTimes[x.id] /\ Transmissions(x.id) = x.transmits
         /\ Transmissions(x.id)' = x.transmits + 1
    <2>1. sentTimes[x.id] \in Nat
      BY <1>2 DEF QInv, TypeOK
    <2>2. Transmissions(x.id) = sentTimes[x.id]
      BY <1>12, <2>1 DEF Transmissions
    <2>3. Transmissions(x.id)' = sentTimes[x.id] + 1
      BY <1>5, <1>6 DEF Transmissions
    <2> QED
      BY <1>0, <1>2, <2>2, <2>3 DEF QInv, TransmitsCounts
  <1>16. \A id \in Ids \ {x.id} : Transmissions(id)' = Transmissions(id)
    BY <1>5, <1>6 DEF Transmissions
  <1>17. TypeOK'
    <2>1. notified' \subseteq Ids
      BY <1>0, <1>1, PendingTyped DEF QInv, TypeOK, Invalidated, Finished
    <2> QED
      BY <1>1, <1>4, <1>5, <1>6, <2>1 DEF QInv, TypeOK
  <1>18. NothingInHand' /\ PeerChosen'
    BY <1>0, <1>5 DEF NothingInHand, PeerChosen, QInv
  <1>19. IdsInOrder'
    <2>1. x.id <= idGen
      BY <1>2, <1>10 DEF QInv, IdsInOrder
    <2> QED
      BY <1>5, <1>6, <2>1 DEF QInv, IdsInOrder
  <1>20. OutOfTheQueue'
    <2>1. \A y \in gossip'.packet : y.id = latest'[y.node] /\ \A z \in tq' : z.node # y.node
      BY <1>0, <1>4, <1>5, <1>6, <1>10 DEF QInv, OutOfTheQueue, Picking
    <2>2. \A y \in gossip'.reinsert : \E z \in gossip'.packet : z.node = y.node
      BY <1>0, <1>3, <1>5 DEF QInv, OutOfTheQueue, Picking
    <2> QED
      BY <2>1, <2>2 DEF OutOfTheQueue
  <1>21. TransmitsCounts'
    <2> SUFFICES ASSUME NEW y \in Pending' PROVE y.transmits = Transmissions(y.id)'
      BY DEF TransmitsCounts
    <2>1. CASE y \in Pending /\ y.node # x.node
      <3>1. y.id \in Ids \ {x.id}
        BY <1>11, <2>1, PendingTyped
      <3> QED
        BY <1>16, <2>1, <3>1 DEF QInv, TransmitsCounts
    <2>2. CASE y = sent
      BY <1>3, <1>15, <2>2
    <2> QED
      BY <1>14, <2>1, <2>2
  <1>22. LimitsGrow'
    BY <1>0, <1>4, <1>5, <1>6, <1>7 DEF QInv, LimitsGrow, Picking
  <1>23. Searched'
    <2>1. gossip.bytesUsed \in Nat /\ x.len \in Nat
      BY <1>0, <1>2, LenTyped DEF Locals
    <2>2. Free \in Int /\ Free' = Free - x.len
      BY <1>5, <2>1, LimitAssumption DEF Free
    <2> SUFFICES ASSUME NEW y \in tq
                 PROVE  /\ y.transmits <= gossip.maxTr
                        /\ y.transmits < gossip.tier => y.len > Free'
      BY <1>4, <1>5 DEF Searched
    <2>3. y.len \in Nat
      BY LenTyped, PendingTyped
    <2>4. y.transmits <= gossip.maxTr /\ (y.transmits < gossip.tier => y.len > Free)
      BY <1>0 DEF QInv, Searched, Picking
    <2> QED
      BY <2>1, <2>2, <2>3, <2>4
  <1>24. LatestOnly'
    <2>1. \A y, z \in Pending' : y.node = z.node => y = z
      BY <1>3, <1>14 DEF QInv, LatestOnly
    <2>2. \A y \in Pending' : y.id = latest'[y.node]
      BY <1>3, <1>6, <1>10, <1>14 DEF QInv, LatestOnly
    <2>3. tm' = {y.node : y \in tq'}
      BY <1>1, <1>4 DEF QInv, LatestOnly
    <2> QED
      BY <2>1, <2>2, <2>3 DEF LatestOnly
  <1>25. PacketFits'
    <2>1. x.len <= Free /\ x.len \in Nat /\ gossip.bytesUsed \in Nat
      BY <1>0, <1>2, LenTyped DEF Candidates, Locals
    <2>2. gossip'.bytesUsed + Overhead <= Limit
      BY <1>5, <2>1, LimitAssumption DEF Free
    <2>3. \A y, z \in gossip'.packet : y.node = z.node => y = z
      BY <1>5, <1>12 DEF QInv, PacketFits
    <2> QED
      BY <2>2, <2>3 DEF PacketFits
  <1>26. RetransmitBounded'
    <2>1. ASSUME NEW id \in Ids PROVE Transmissions(id)' <= retransmitLimit(numNodes)
      BY <1>2, <1>7, <1>15, <1>16 DEF QInv, RetransmitBounded
    <2>2. ASSUME NEW y \in Pending' PROVE y.transmits < retransmitLimit(numNodes)
      <3>1. CASE y \in Pending
        BY <3>1 DEF QInv, RetransmitBounded
      <3>2. CASE again /\ y = sent
        BY <1>2, <1>3, <1>7, <1>8, <3>2
      <3> QED
        BY <1>14, <3>1, <3>2
    <2> QED
      BY <1>7, <2>1, <2>2 DEF RetransmitBounded
  <1>27. RetransmittedEnough'
    <2> SUFFICES ASSUME NEW m \in Names, latest[m] # 0, ~\E y \in Pending' : y.id = latest[m]
                 PROVE  Transmissions(latest[m])' >= due[latest[m]]
      BY <1>6 DEF RetransmittedEnough
    <2>1. CASE m = x.node
      <3>1. ~again
        BY <1>3, <1>10, <1>14, <2>1
      <3>2. x.transmits + 1 >= gossip.transmitLimit
        BY <1>2, <1>3, <1>7, <1>9, <3>1
      <3>3. Transmissions(latest[m])' = x.transmits + 1
        BY <1>6, <1>10, <1>15, <2>1 DEF Transmissions
      <3> QED
        BY <1>2, <1>7, <1>10, <2>1, <3>2, <3>3
    <2>2. CASE m # x.node
      <3>1. latest[m] \in Ids /\ latest[m] # x.id
        BY <1>2, <1>10, <2>2, PendingTyped DEF QInv, IdsInOrder
      <3>2. ~\E y \in Pending : y.id = latest[m]
        BY <1>10, <1>14, <2>2, <3>1 DEF QInv, LatestOnly
      <3>3. Transmissions(latest[m]) >= due[latest[m]]
        BY <3>2 DEF QInv, RetransmittedEnough
      <3>4. Transmissions(latest[m])' = Transmissions(latest[m])
        BY <1>5, <1>6, <3>1 DEF Transmissions
      <3> QED
        BY <3>3, <3>4
    <2> QED
      BY <2>1, <2>2
  <1> QED
    BY <1>17, <1>18, <1>19, <1>20, <1>21, <1>22, <1>23, <1>24, <1>25, <1>26, <1>27 DEF QInv

-----------------------------------------------------------------------------
LEMMA QInvInductive == QInv /\ [Next]_vars => QInv'
  <1> SUFFICES ASSUME QInv, [Next]_vars PROVE QInv'
    OBVIOUS
  <1>1. ASSUME NEW n \in Names, NEW len \in Lens, NEW notify \in BOOLEAN,
               QueueBroadcast(n, len, notify)
        PROVE  QInv'
    BY <1>1, QueueBroadcastKeeps
  <1>2. ASSUME NEW n \in NodeCounts, NodesJoin(n) PROVE QInv'
    BY <1>2, NodesJoinKeeps
  <1>3. ASSUME NEW k \in 0..GossipNodes, Gossip(k) PROVE QInv'
    <2>1. k \in Nat
      BY MultAssumption
    <2> QED
      BY <1>3, <2>1, BetweenPacketsKeeps DEF Gossip
  <1>4. CASE GossipReturn \/ GetEmpty
    <2>1. 0 \in Nat
      OBVIOUS
    <2> QED
      BY <1>4, <2>1, BetweenPacketsKeeps DEF GossipReturn, GetEmpty
  <1>5. CASE GetBegin
    BY <1>5, GetBeginKeeps
  <1>6. CASE Pick
    BY <1>6, PickKeeps
  <1>7. CASE NextTier
    BY <1>7, NextTierKeeps
  <1>8. CASE GetEnd
    BY <1>8, GetEndKeeps
  <1>9. CASE Send
    BY <1>9, SendKeeps
  <1>10. CASE UNCHANGED vars
    <2>1. Pending' = Pending /\ \A id \in Ids : Transmissions(id)' = Transmissions(id)
      BY <1>10 DEF vars, Pending, Unlocked, Transmissions
    <2>2. TypeOK' /\ NothingInHand' /\ PeerChosen' /\ IdsInOrder' /\ OutOfTheQueue'
          /\ Searched' /\ PacketFits'
      BY <1>10 DEF vars, QInv, TypeOK, NothingInHand, PeerChosen, IdsInOrder, OutOfTheQueue,
                   Searched, Picking, PacketFits, Free
    <2>3. LimitsGrow' /\ LatestOnly'
      BY <1>10, <2>1 DEF vars, QInv, LimitsGrow, LatestOnly, Picking, retransmitLimit
    <2>4. TransmitsCounts' /\ RetransmitBounded' /\ RetransmittedEnough'
      BY <1>10, <2>1, PendingTyped
         DEF vars, QInv, TransmitsCounts, RetransmitBounded, RetransmittedEnough, retransmitLimit
    <2> QED
      BY <2>2, <2>3, <2>4 DEF QInv
  <1> QED
    BY <1>1, <1>2, <1>3, <1>4, <1>5, <1>6, <1>7, <1>8, <1>9, <1>10 DEF Next, GossipStep

\* The invariant holds in every reachable state.
LEMMA QInvAlways == Spec => []QInv
  BY QInvInit, QInvInductive, PTL DEF Spec

-----------------------------------------------------------------------------
\* The queue, the packet in the making and the history keep their types; in
\* particular GetBroadcasts always finds a lowest and a highest tier.
THEOREM QueueTypeCorrect == Spec => []TypeOK
  <1>1. QInv => TypeOK
    BY DEF QInv
  <1> QED
    BY <1>1, QInvAlways, PTL

\* queueBroadcast replaces: at most one broadcast about a node is pending, it is
\* the latest, and tm knows exactly the nodes of tq, in the middle of
\* GetBroadcasts too.
THEOREM OnlyTheLatestIsGossiped == Spec => []LatestOnly
  <1>1. QInv => LatestOnly
    BY DEF QInv
  <1> QED
    BY <1>1, QInvAlways, PTL

\* Whatever GetBroadcasts puts into a packet fits together with one overhead, and
\* is about different nodes.  One overhead for each broadcast, as the comments
\* promise, does not fit: the run of OverheadPerMessage shows a packet.
THEOREM PacketsFit == Spec => []PacketFits
  <1>1. QInv => PacketFits
    BY DEF QInv
  <1> QED
    BY <1>1, QInvAlways, PTL

\* No broadcast is transmitted more often than retransmitLimit allows for the
\* present number of nodes, however often the cluster grew in between.
THEOREM NeverTransmittedTooOften == Spec => []RetransmitBounded
  <1>1. QInv => RetransmitBounded
    BY DEF QInv
  <1> QED
    BY <1>1, QInvAlways, PTL

\* A broadcast that nothing replaced has been transmitted at least as often as
\* retransmitLimit asked for when it was queued, before it leaves the queue.
THEOREM TransmittedOftenEnough == Spec => []RetransmittedEnough
  <1>1. QInv => RetransmittedEnough
    BY DEF QInv
  <1> QED
    BY <1>1, QInvAlways, PTL

\* A step that removes a broadcast with a pipe from tq writes to the pipe.
THEOREM WaiterIsNotified == Spec => NotifiedWhenGone
  <1> DEFINE P == \A x \in tq : x.notify /\ x \notin tq' => x.id \in notified'
  <1>1. ASSUME [Next]_vars PROVE [P]_vars
    <2>1. ASSUME NEW n \in Names, NEW len \in Lens, NEW notify \in BOOLEAN,
                 QueueBroadcast(n, len, notify)
          PROVE  P
      BY <2>1 DEF QueueBroadcast, Finished
    <2>2. CASE Pick
      BY <2>2 DEF Pick, Finished
    <2>3. CASE GetEnd
      BY <2>3 DEF GetEnd
    <2>4. CASE \/ \E n \in NodeCounts : NodesJoin(n)
               \/ \E k \in 0..GossipNodes : Gossip(k)
               \/ GossipReturn \/ GetEmpty \/ GetBegin \/ NextTier \/ Send
      BY <2>4 DEF NodesJoin, Gossip, GossipReturn, GetEmpty, GetBegin, NextTier, Send, queueVars
    <2> QED
      BY <1>1, <2>1, <2>2, <2>3, <2>4 DEF Next, GossipStep
  <1> HIDE DEF P
  <1>2. [][Next]_vars => [][P]_vars
    BY <1>1, PTL
  <1> QED
    BY <1>2, PTL DEF Spec, NotifiedWhenGone, P

\* GetBroadcasts stops only when nothing that is left fits into the packet.
THEOREM PacketsAreMaximal == Spec => PacketMaximal
  <1> DEFINE P == GetEnd => \A x \in tq : x.len > Free
  <1>1. ASSUME QInv PROVE P
    <2> SUFFICES ASSUME GetEnd, NEW x \in tq PROVE x.len > Free
      OBVIOUS
    <2>1. x \in Item /\ gossip \in Locals /\ gossip.pc = "pick" /\ SearchOver
      BY <1>1, PendingTyped DEF QInv, TypeOK, GetEnd
    <2>2. x.len \in Nat /\ x.len > 0 /\ x.transmits \in Nat
      BY <2>1, LenTyped DEF Item
    <2>3. gossip.maxTr \in Nat /\ gossip.tier \in Nat
      BY <2>1 DEF Locals
    <2>4. x.transmits <= gossip.maxTr /\ (x.transmits < gossip.tier => x.len > Free)
      BY <1>1, <2>1 DEF QInv, Searched, Picking
    <2> QED
      BY <2>1, <2>2, <2>3, <2>4 DEF SearchOver
  <1> HIDE DEF P
  <1>2. Spec => [][P]_vars
    BY <1>1, QInvAlways, PTL
  <1> QED
    BY <1>2, PTL DEF PacketMaximal, P
=============================================================================
