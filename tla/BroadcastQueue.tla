--------------------------- MODULE BroadcastQueue ---------------------------
(***************************************************************************)
(* broadcastQueue, the transmit-limited queue behind every broadcast, and  *)
(* its two users: whoever calls BroadcastNotify or onlyBroadcast (the      *)
(* packet handler, the probe thread, the main thread) and the gossip       *)
(* thread, which fills packets from it.                                    *)
(*                                                                         *)
(* The queue's own mutex m is held throughout queueBroadcast, which is one *)
(* step, and throughout GetBroadcasts, whose loop is unrolled into steps;  *)
(* numNodes is an atomic that grows underneath.  The packet is sent after  *)
(* GetBroadcasts has returned and released m.                              *)
(***************************************************************************)
EXTENDS Naturals, FiniteSets, FiniteSetsExt

CONSTANTS
    Names,           \* the nodes that broadcasts are about
    Self,            \* our own name, the only one Leave's pipe goes with
    Lens,            \* encoded sizes of a broadcast
    Limit,           \* config->UDPBufferSize
    Overhead,        \* MessageDataOverhead
    RetransmitMult,  \* config->RetransmitMult
    GossipNodes,     \* config->GossipNodes
    NodeCounts,      \* values of numNodes that are told apart
    MaxQueued        \* bound: how many broadcasts are queued

ASSUME LensAssumption == Lens \subseteq Nat \ {0}
ASSUME LimitAssumption == Limit \in Nat /\ Overhead \in Nat /\ Overhead < Limit
ASSUME MultAssumption == RetransmitMult \in Nat \ {0} /\ GossipNodes \in Nat
ASSUME CountsAssumption == NodeCounts \subseteq Nat /\ MaxQueued \in Nat

VARIABLES
    tq,         \* the ordered set of limitedBroadcasts
    tm,         \* the names that the map tm has an entry for
    idGen,      \* the id of the latest broadcast
    numNodes,   \* memberlist::numNodes, read through EstNumNodes
    gossip,     \* where the gossip thread is, and the locals of GetBroadcasts
    notified,   \* ids whose notifyFd has been written
    latest,     \* history: latest[n] is the id last queued about n
    sentTimes,  \* history: how often each id was put on the wire
    due         \* history: the retransmit limit when an id was queued

queueVars == <<tq, tm, idGen>>
history == <<latest, sentTimes, due>>
vars == <<tq, tm, idGen, numNodes, gossip, notified, latest, sentTimes, due>>

-----------------------------------------------------------------------------
(* Data. *)

\* More than MaxQueued broadcasts are never queued, so uint32_t does not wrap.
Ids == 1..MaxQueued

\* limitedBroadcast; notify tells whether its notifyFd is a pipe.
Item == [node : Names, len : Lens, id : Ids, transmits : Nat, notify : BOOLEAN]

Locals == [pc : {"idle", "get", "pick", "send"}, peers : Nat, tier : Nat, maxTr : Nat,
           transmitLimit : Nat, bytesUsed : Nat, reinsert : SUBSET Item,
           packet : SUBSET Item]

Start(pc, peers) ==
    [pc |-> pc, peers |-> peers, tier |-> 0, maxTr |-> 0, transmitLimit |-> 0,
     bytesUsed |-> 0, reinsert |-> {}, packet |-> {}]

\* The powers of ten that a uint32_t holds.
PowersOfTen == <<1, 10, 100, 1000, 10000, 100000, 1000000, 10000000, 100000000, 1000000000>>

\* ceil(log10(n + 1)): the number of decimal digits of n, and 0 for 0.
NodeScale(n) == Cardinality({d \in 1..10 : PowersOfTen[d] <= n})

retransmitLimit(n) == RetransmitMult * NodeScale(n)

\* The order of tq: fewer transmits first, then the longer, then the newer.
Before(x, y) ==
    \/ x.transmits < y.transmits
    \/ x.transmits = y.transmits /\ x.len > y.len
    \/ x.transmits = y.transmits /\ x.len = y.len /\ x.id > y.id

\* m is free whenever the gossip thread is not inside GetBroadcasts.
Unlocked == gossip.pc # "pick"

Init ==
    /\ tq = {} /\ tm = {} /\ idGen = 0
    /\ numNodes = 0
    /\ gossip = Start("idle", 0)
    /\ notified = {}
    /\ latest = [n \in Names |-> 0]
    /\ sentTimes = [id \in Ids |-> 0]
    /\ due = [id \in Ids |-> 0]

-----------------------------------------------------------------------------
(* queueBroadcast. *)

\* Mutant of Invalidated: the older broadcast about the node stays.
InvalidatedNone(n) == {}

\* What deleteItem removes: all items about n, if tm has an entry for n.
Invalidated(n) == IF n \in tm THEN {x \in tq : x.node = n} ELSE {}

\* Mutant of Finished: nobody is notified.
FinishedSilent(S) == UNCHANGED notified

\* Finished() on each of the items S.
Finished(S) == notified' = notified \cup {x.id : x \in {y \in S : y.notify}}

\* BroadcastNotify; aliveNode has counted its node before it queues anything.
QueueBroadcast(n, len, notify) ==
    LET lb == [node |-> n, len |-> len, id |-> idGen + 1, transmits |-> 0, notify |-> notify]
    IN  /\ Unlocked
        /\ numNodes > 0
        /\ notify => n = Self
        /\ idGen < MaxQueued
        /\ idGen' = idGen + 1
        /\ tq' = (tq \ Invalidated(n)) \cup {lb}
        /\ tm' = tm \cup {n}
        /\ Finished(Invalidated(n))
        /\ latest' = [latest EXCEPT ![n] = idGen + 1]
        /\ due' = [due EXCEPT ![idGen + 1] = retransmitLimit(numNodes)]
        /\ UNCHANGED <<numNodes, gossip, sentTimes>>

\* aliveNode adds members that were not known.
NodesJoin(n) ==
    /\ n > numNodes
    /\ numNodes' = n
    /\ UNCHANGED <<queueVars, gossip, notified, history>>

-----------------------------------------------------------------------------
(* gossip and GetBroadcasts. *)

\* kRandomNodes has picked up to GossipNodes peers.
Gossip(peers) ==
    /\ gossip.pc = "idle"
    /\ gossip' = Start("get", peers)
    /\ UNCHANGED <<queueVars, numNodes, notified, history>>

\* The last peer has been served, or there was none.
GossipReturn ==
    /\ gossip.pc = "get" /\ gossip.peers = 0
    /\ gossip' = Start("idle", 0)
    /\ UNCHANGED <<queueVars, numNodes, notified, history>>

\* GetBroadcasts on an empty queue: gossip returns.
GetEmpty ==
    /\ gossip.pc = "get" /\ gossip.peers > 0
    /\ tq = {}
    /\ gossip' = Start("idle", 0)
    /\ UNCHANGED <<queueVars, numNodes, notified, history>>

Tiers == {x.transmits : x \in tq}

GetBegin ==
    /\ gossip.pc = "get" /\ gossip.peers > 0
    /\ tq # {}
    /\ gossip' = [gossip EXCEPT !.pc = "pick", !.tier = Min(Tiers), !.maxTr = Max(Tiers),
                                !.transmitLimit = retransmitLimit(numNodes)]
    /\ UNCHANGED <<queueVars, numNodes, notified, history>>

Free == Limit - Overhead - gossip.bytesUsed

\* Mutant of Candidates: the room left in the packet is not looked at.
CandidatesAnySize == {x \in tq : x.transmits = gossip.tier}

\* [lower_bound, upper_bound) of the tier that is being searched.
Candidates == {x \in tq : x.transmits = gossip.tier /\ x.len <= Free}

\* Mutant of Retransmitted: counts down, as if transmits were what is left.
RetransmittedDown(x) == [x EXCEPT !.transmits = @ - 1]

Retransmitted(x) == [x EXCEPT !.transmits = @ + 1]

\* Mutant of Again: one transmission too many.
AgainOnceMore(x) == x.transmits <= gossip.transmitLimit

\* The broadcast has transmissions left.
Again(x) == x.transmits < gossip.transmitLimit

\* One turn of the inner loop.  deleteItem calls Finished() on every item that
\* it removes, so the pipe is written at each transmission, before it is sent.
Pick ==
    /\ gossip.pc = "pick"
    /\ gossip.tier <= gossip.maxTr /\ Free > 0
    /\ \E x \in Candidates :
          LET sent == Retransmitted(x)
          IN  /\ \A y \in Candidates \ {x} : Before(x, y)
              /\ tq' = tq \ Invalidated(x.node)
              /\ tm' = tm \ {x.node}
              /\ Finished(Invalidated(x.node))
              /\ gossip' = [gossip EXCEPT !.packet = @ \cup {x}, !.bytesUsed = @ + x.len,
                     !.reinsert = IF Again(sent) THEN @ \cup {sent} ELSE @]
    /\ UNCHANGED <<idGen, numNodes, history>>

NextTier ==
    /\ gossip.pc = "pick"
    /\ gossip.tier <= gossip.maxTr /\ Free > 0
    /\ Candidates = {}
    /\ gossip' = [gossip EXCEPT !.tier = @ + 1]
    /\ UNCHANGED <<queueVars, numNodes, notified, history>>

\* Mutant of SearchOver: the last tier is skipped.
SearchOverEarly == gossip.tier >= gossip.maxTr \/ Free = 0

SearchOver == gossip.tier > gossip.maxTr \/ Free = 0

\* Mutant of Reinserted: a full packet leaves without the reinsertion.
ReinsertedUnlessFull == IF Free = 0 THEN {} ELSE gossip.reinsert

Reinserted == gossip.reinsert

\* The label finish.  haveMsg is not initialised: for an empty packet either
\* value may be returned, and gossip stops or sends an empty packet.
GetEnd ==
    /\ gossip.pc = "pick"
    /\ SearchOver
    /\ tq' = tq \cup Reinserted
    /\ tm' = tm \cup {x.node : x \in Reinserted}
    /\ \/ gossip' = [gossip EXCEPT !.pc = "send"]
       \/ gossip.packet = {} /\ gossip' = Start("idle", 0)
    /\ UNCHANGED <<idGen, numNodes, notified, history>>

\* encodeSendUDP, and on to the next peer.
Send ==
    /\ gossip.pc = "send"
    /\ sentTimes' = [id \in Ids |->
           IF \E x \in gossip.packet : x.id = id THEN sentTimes[id] + 1 ELSE sentTimes[id]]
    /\ gossip' = Start("get", gossip.peers - 1)
    /\ UNCHANGED <<queueVars, numNodes, notified, latest, due>>

-----------------------------------------------------------------------------
GossipStep == GossipReturn \/ GetEmpty \/ GetBegin \/ Pick \/ NextTier \/ GetEnd \/ Send

Next ==
    \/ \E n \in Names, len \in Lens, notify \in BOOLEAN : QueueBroadcast(n, len, notify)
    \/ \E n \in NodeCounts : NodesJoin(n)
    \/ \E k \in 0..GossipNodes : Gossip(k)
    \/ GossipStep

\* The gossip timer fires for ever, its thread is scheduled, and kRandomNodes
\* does not miss the peers of the cluster at every single turn.
Fairness ==
    /\ WF_vars(GossipStep)
    /\ SF_vars(\E k \in 1..GossipNodes : Gossip(k))

Spec == Init /\ [][Next]_vars /\ Fairness

-----------------------------------------------------------------------------
(* Properties. *)

\* Items that will be transmitted again, those picked for this packet included.
Pending == tq \cup (IF Unlocked THEN {} ELSE gossip.reinsert)

\* Transmissions of id, the one of a packet about to be sent included.
Transmissions(id) ==
    sentTimes[id] + (IF \E x \in gossip.packet : x.id = id THEN 1 ELSE 0)

\* Type invariant of the state above.
TypeOK ==
    /\ tq \subseteq Item
    /\ tm \subseteq Names
    /\ idGen \in 0..MaxQueued
    /\ numNodes \in Nat
    /\ gossip \in Locals
    /\ notified \subseteq Ids
    /\ latest \in [Names -> 0..MaxQueued]
    /\ sentTimes \in [Ids -> Nat]
    /\ due \in [Ids -> Nat]

\* Only the latest broadcast about a node is ever pending, so a member never
\* gossips knowledge it has replaced; and tm, which deleteItem relies on to find
\* the item to replace, has an entry for exactly the nodes of tq.
LatestOnly ==
    /\ \A x, y \in Pending : x.node = y.node => x = y
    /\ \A x \in Pending : x.id = latest[x.node]
    /\ tm = {x.node : x \in tq}

\* A packet stays within the limit together with one overhead, which is how
\* GetBroadcasts counts it (OverheadPerMessage says what is documented), and it
\* carries no node twice, although items are reinserted with one transmission
\* more while it is filled.
PacketFits ==
    /\ gossip.bytesUsed + Overhead <= Limit
    /\ \A x, y \in gossip.packet : x.node = y.node => x = y

\* A broadcast is never transmitted more often than the retransmit limit of the
\* present cluster size, and what is pending has not used its limit up.
RetransmitBounded ==
    /\ \A id \in Ids : Transmissions(id) <= retransmitLimit(numNodes)
    /\ \A x \in Pending : x.transmits < retransmitLimit(numNodes)

\* A broadcast that no newer one replaced leaves the queue only after as many
\* transmissions as the cluster size at the time it was queued called for.
RetransmittedEnough ==
    \A n \in Names :
        latest[n] # 0 /\ ~(\E x \in Pending : x.id = latest[n])
            => Transmissions(latest[n]) >= due[latest[n]]

\* Whoever waits for a broadcast is not left waiting once it is out of the
\* queue, be it replaced or transmitted often enough.
NotifiedWhenGone ==
    [][\A x \in tq : x.notify /\ x \notin tq' => x.id \in notified']_vars

\* A packet is closed only when nothing that is left would still fit in it,
\* however items of different sizes are spread over the tiers.
PacketMaximal ==
    [][GetEnd => \A x \in tq : x.len > Free]_vars

\* Once no broadcast is queued any more the queue drains, but for those that
\* no packet has room for.
Drains == <>[](\A x \in tq : x.len > Limit - Overhead)

\* "up to a limit bytes and applying a per-message overhead as provided"
\* (broadcastQueue.cpp:77), "up to a maximum byte size, while imposing a
\* per-broadcast overhead" (broadcast.cpp:23): the broadcasts of a packet stay
\* within the limit together with one overhead for each of them.
OverheadPerMessage ==
    gossip.bytesUsed + Overhead * Cardinality(gossip.packet) <= Limit

\* "This will block until the leave message is successfully broadcasted to a
\* member of the cluster" (memberlist.cpp:198): the pipe that Leave waits for is
\* written only for a broadcast that was sent, or that a newer one replaced.
NotifiedOnceSent ==
    \A n \in Names : latest[n] \in notified => sentTimes[latest[n]] > 0
=============================================================================
