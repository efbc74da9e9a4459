----------------------------- MODULE Membership -----------------------------
(***************************************************************************)
(* The membership protocol of cpp-gossip: what every member believes about *)
(* every other one, and how alive, suspect and dead broadcasts, push/pull  *)
(* state, failed probes, restarts, Leave() and UpdateNode() change it.     *)
(*                                                                         *)
(* aliveNode, suspectNode and deadNode hold nodeMutex from their first to  *)
(* their last statement, so each is one step (Loaded accounts for the one  *)
(* thing they read that is not under the lock).  Whatever the main thread  *)
(* does outside that lock (the two atomic accesses of nextIncarnation, the *)
(* unlocked read of state->Incarnation in Leave) is a step of its own, and *)
(* so is what probe() copies before it waits for an ack.                   *)
(*                                                                         *)
(* The network: sent[k] holds every broadcast that k ever queued.  A       *)
(* member may receive any of them from any other member, at any time, in   *)
(* any order, once, many times or never.  This covers UDP, the retransmit  *)
(* queue, the LIFO handoff stacks and the delay between sendLocalState and *)
(* mergeRemoteState.                                                       *)
(*                                                                         *)
(* A member may stop taking steps for ever: no fairness is assumed.  This  *)
(* covers a handler that deadlocks while it joins a suspicion timer.       *)
(***************************************************************************)
EXTENDS Naturals, FiniteSets

CONSTANTS
    Members,        \* config->Name of every process that may run
    Addrs,          \* the advertised addresses a process may be started with
    SuspicionMult,  \* config->SuspicionMult
    Reclaim,        \* config->DeadNodeReclaimTime > 0
    Receiver,       \* "from" of a push/pull suspicion: whoever merges it
    MaxInc,         \* bound: the highest incarnation number each member issues
    MaxStarts,      \* bound: how often each process is started
    Updaters,       \* the members whose application calls UpdateNode()
    Leavers,        \* the members whose application calls Leave()
    Probers,        \* the members that probe (config->ProbeInterval > 0)
    Pushers         \* the members that take part in push/pull or Join

ASSUME MembersFinite == IsFiniteSet(Members)
ASSUME ReceiverIsNoMember == Receiver \notin Members
ASSUME MultAssumption == SuspicionMult \in Nat /\ SuspicionMult >= 2
ASSUME ReclaimAssumption == Reclaim \in BOOLEAN
ASSUME BoundsAssumption == MaxInc \in [Members -> Nat] /\ MaxStarts \in [Members -> Nat]
ASSUME AddrsNonempty == Addrs # {}

VARIABLES
    status,       \* "off" or "running"
    addr,         \* config->AdvertiseAddr:AdvertisePort of the present run
    incarnation,  \* the atomic counter memberlist::incarnation
    leave,        \* the atomic flag memberlist::leave
    nodeMap,      \* nodeMap[i][j]: what i stores about j
    nodeTimers,   \* nodeTimers[i][j]: the suspicion i runs against j
    main,         \* the constructor, UpdateNode or Leave in progress
    probing,      \* the copy of a nodeState that probeNode works on
    sent,         \* sent[i]: all broadcasts and push/pull entries i produced
    starts,       \* how often the process has been started
    issued,       \* history: the highest value the counter of j ever had
    announced     \* history: incarnations at which j announced that it leaves

vars == <<status, addr, incarnation, leave, nodeMap, nodeTimers, main,
          probing, sent, starts, issued, announced>>

-----------------------------------------------------------------------------
(* Data. *)

NodeStates == {"unknown", "alive", "suspect", "dead", "left"}

\* nodeState; "unknown" stands for a name that has no entry in the map.
Entry == [inc : Nat, st : NodeStates, addr : Addrs]

AliveMsg(n, inc, a) == [type |-> "alive", node |-> n, inc |-> inc, addr |-> a]
SuspectMsg(n, inc, f) == [type |-> "suspect", node |-> n, inc |-> inc, from |-> f]
DeadMsg(n, inc, f) == [type |-> "dead", node |-> n, inc |-> inc, from |-> f]

\* The suspect message probeNode sends to the suspected node alone.
DirectMsg(n, inc, f) == [type |-> "direct", node |-> n, inc |-> inc, from |-> f]

Message ==
    [type : {"alive"}, node : Members, inc : Nat \ {0}, addr : Addrs]
    \cup [type : {"suspect", "dead", "direct"}, node : Members, inc : Nat,
          from : Members \cup {Receiver}]

\* suspicion: who confirmed it (the originator included) and its k.
Suspicion == [conf : SUBSET Members, k : Nat]
NoTimer == [conf |-> {}, k |-> 0]

Calls == [op : {"none", "setAlive", "UpdateNode", "Leave"},
          pc : {"idle", "add", "load", "call"}, inc : Nat]
Idle == [op |-> "none", pc |-> "idle", inc |-> 0]

NoEntry == [inc |-> 0, st |-> "unknown", addr |-> CHOOSE a \in Addrs : TRUE]

Known(i, j) == nodeMap[i][j].st # "unknown"
DeadOrLeft(e) == e.st \in {"dead", "left"}
HasTimer(i, j) == nodeTimers[i][j].conf # {}
numNodes(i) == Cardinality({j \in Members : Known(i, j)})

\* The state of a process that does not run, and of one just constructed.
Init ==
    /\ status = [i \in Members |-> "off"]
    /\ addr = [i \in Members |-> NoEntry.addr]
    /\ incarnation = [i \in Members |-> 0]
    /\ leave = [i \in Members |-> FALSE]
    /\ nodeMap = [i \in Members |-> [j \in Members |-> NoEntry]]
    /\ nodeTimers = [i \in Members |-> [j \in Members |-> NoTimer]]
    /\ main = [i \in Members |-> Idle]
    /\ probing = [i \in Members |-> {}]
    /\ sent = [i \in Members |-> {}]
    /\ starts = [i \in Members |-> 0]
    /\ issued = [i \in Members |-> 0]
    /\ announced = [i \in Members |-> {}]

-----------------------------------------------------------------------------
(* Steps shared by the handlers. *)

SetEntry(i, j, e) == nodeMap' = [nodeMap EXCEPT ![i][j] = e]

EraseTimer(i, j) == nodeTimers' = [nodeTimers EXCEPT ![i][j] = NoTimer]
Queue(i, m) == sent' = [sent EXCEPT ![i] = @ \cup {m}]

\* The atomic counter takes the value inc.
Advance(i, inc) ==
    /\ inc <= MaxInc[i]
    /\ incarnation' = [incarnation EXCEPT ![i] = inc]
    /\ issued' = [issued EXCEPT ![i] = IF inc > @ THEN inc ELSE @]

\* Mutant of Refute: outbids without skipIncarnation, so the counter is behind.
RefuteWithoutSkip(i, me, accused, loads) ==
    /\ UNCHANGED <<incarnation, issued>>
    /\ SetEntry(i, i, [me EXCEPT !.inc = accused + 1])
    /\ Queue(i, AliveMsg(i, accused + 1, me.addr))

\* Mutant of Refute: the new number is broadcast but not stored in our entry.
RefuteWithoutStore(i, me, accused, loads) ==
    /\ Advance(i, accused + 1)
    /\ SetEntry(i, i, me)
    /\ Queue(i, AliveMsg(i, accused + 1, me.addr))

\* What incarnation.load() may return in a refute on a thread other than main.
\* The fetch_add of a pending nextIncarnation is not under nodeMutex and may
\* fall between that load and skipIncarnation, which is as if it came first and
\* the load was one behind.
Loaded(i) ==
    IF main[i].pc \in {"load", "call"} /\ main[i].op # "Leave"
    THEN {incarnation[i], incarnation[i] - 1} ELSE {incarnation[i]}

\* refute(me, accusedInc): outbid the accusation; the stored state and the
\* stored address of our own entry stay what they are.  Its incarnation.load()
\* returns one of loads.
Refute(i, me, accused, loads) ==
    \E old \in loads :
        LET counter == IF accused >= old THEN incarnation[i] + (accused - old + 1)
                       ELSE incarnation[i]
            inc == IF accused >= old THEN counter ELSE old
        IN  /\ Advance(i, counter)
            /\ SetEntry(i, i, [me EXCEPT !.inc = inc])
            /\ Queue(i, AliveMsg(i, inc, me.addr))

CounterUnchanged == UNCHANGED <<incarnation, issued>>

-----------------------------------------------------------------------------
(* aliveNode(a, bootstrap, notifyfd). *)

\* The entry aliveNode works on: the stored one, or a fresh StateDead one.
Lookup(i, a) ==
    IF Known(i, a.node) THEN nodeMap[i][a.node]
    ELSE [inc |-> 0, st |-> "dead", addr |-> a.addr]

Moved(i, a) == a.addr # Lookup(i, a).addr

\* Mutant of OldAlive: an equal incarnation counts as news.
OldAliveStrict(i, a) == a.inc < Lookup(i, a).inc

OldAlive(i, a) ==
    IF a.node = i THEN a.inc < Lookup(i, a).inc
    ELSE a.inc <= Lookup(i, a).inc /\ ~Moved(i, a)

\* aliveNode returns early.  A name in state dead may be reclaimed only after
\* DeadNodeReclaimTime, so with Reclaim both outcomes are possible.
AliveIgnored(i, a) ==
    \/ leave[i] /\ a.node = i
    \/ Moved(i, a) /\ Lookup(i, a).st # "left"
    \/ OldAlive(i, a)

\* Mutant of AliveAccepted: no check for a conflicting address.
AcceptAnyAddress(i, a) == ~(leave[i] /\ a.node = i) /\ ~OldAlive(i, a)

AliveAccepted(i, a) ==
    /\ ~(leave[i] /\ a.node = i)
    /\ \/ ~Moved(i, a)
       \/ Lookup(i, a).st = "left"
       \/ Lookup(i, a).st = "dead" /\ Reclaim
    /\ ~OldAlive(i, a)

\* A message about ourselves that did not come from setAlive.
AliveSelf(i, a, loads) ==
    /\ AliveAccepted(i, a)
    /\ a.node = i
    /\ EraseTimer(i, i)
    /\ IF a.inc = Lookup(i, a).inc
       THEN SetEntry(i, i, Lookup(i, a)) /\ CounterUnchanged /\ UNCHANGED sent
       ELSE Refute(i, Lookup(i, a), a.inc, loads)

\* Mutant of AliveUpdate: the news is stored but not passed on.
AliveUpdateSilent(i, a) ==
    /\ AliveAccepted(i, a)
    /\ EraseTimer(i, a.node)
    /\ SetEntry(i, a.node, [inc |-> a.inc, st |-> "alive", addr |-> a.addr])
    /\ CounterUnchanged
    /\ UNCHANGED sent

\* Mutant of AliveUpdate: the refutation is stored and the timer forgotten.
AliveUpdateKeepsTimer(i, a) ==
    /\ AliveAccepted(i, a)
    /\ Queue(i, a)
    /\ SetEntry(i, a.node, [inc |-> a.inc, st |-> "alive", addr |-> a.addr])
    /\ CounterUnchanged
    /\ UNCHANGED nodeTimers

\* Re-broadcast the message and store what it says.
AliveUpdate(i, a) ==
    /\ AliveAccepted(i, a)
    /\ EraseTimer(i, a.node)
    /\ Queue(i, a)
    /\ SetEntry(i, a.node, [inc |-> a.inc, st |-> "alive", addr |-> a.addr])
    /\ CounterUnchanged

aliveNode(i, a) ==
    IF a.node = i THEN AliveSelf(i, a, Loaded(i)) ELSE AliveUpdate(i, a)

-----------------------------------------------------------------------------
(* suspectNode(s). *)

Fresh(i, m) == Known(i, m.node) /\ m.inc >= nodeMap[i][m.node].inc

\* The k of a new suspicion.  numNodes - 2 is unsigned: with one known node
\* the difference is huge and k stays SuspicionMult - 2.
SuspicionK(i) ==
    IF numNodes(i) >= 2 /\ numNodes(i) - 2 < SuspicionMult - 2
    THEN 0 ELSE SuspicionMult - 2

\* suspicion::Confirm takes a new confirmer while n <= k.
Confirmable(i, s) ==
    LET t == nodeTimers[i][s.node]
    IN  /\ HasTimer(i, s.node)
        /\ Cardinality(t.conf) - 1 <= t.k
        /\ s.from \notin t.conf

SuspectConfirm(i, s) ==
    /\ Fresh(i, s)
    /\ Confirmable(i, s)
    /\ nodeTimers' = [nodeTimers EXCEPT ![i][s.node] =
                          [conf |-> @.conf \cup {s.from}, k |-> @.k]]
    /\ Queue(i, s)
    /\ CounterUnchanged
    /\ UNCHANGED nodeMap

SuspectSelf(i, s) ==
    /\ Fresh(i, s)
    /\ ~HasTimer(i, i)
    /\ s.node = i
    /\ nodeMap[i][i].st = "alive"
    /\ Refute(i, nodeMap[i][i], s.inc, Loaded(i))
    /\ UNCHANGED nodeTimers

SuspectStart(i, s) ==
    /\ Fresh(i, s)
    /\ ~HasTimer(i, s.node)
    /\ s.node # i
    /\ nodeMap[i][s.node].st = "alive"
    /\ Queue(i, s)
    /\ SetEntry(i, s.node, [nodeMap[i][s.node] EXCEPT !.inc = s.inc, !.st = "suspect"])
    /\ nodeTimers' = [nodeTimers EXCEPT ![i][s.node] =
                          [conf |-> {s.from}, k |-> SuspicionK(i)]]
    /\ CounterUnchanged

suspectNode(i, s) == SuspectConfirm(i, s) \/ SuspectSelf(i, s) \/ SuspectStart(i, s)

\* suspectNode returns without a change.
SuspectIgnored(i, s) ==
    \/ ~Fresh(i, s)
    \/ HasTimer(i, s.node) /\ ~Confirmable(i, s)
    \/ ~HasTimer(i, s.node) /\ nodeMap[i][s.node].st # "alive"

-----------------------------------------------------------------------------
(* deadNode(d). *)

DeadSelfRefute(i, d) ==
    /\ Fresh(i, d)
    /\ d.node = i
    /\ ~DeadOrLeft(nodeMap[i][i])
    /\ ~leave[i]
    /\ EraseTimer(i, i)
    /\ Refute(i, nodeMap[i][i], d.inc, Loaded(i))

\* Somebody else is dead or has left, or we are leaving ourselves.
DeadUpdate(i, d) ==
    /\ Fresh(i, d)
    /\ d.node = i => leave[i]
    /\ ~DeadOrLeft(nodeMap[i][d.node])
    /\ EraseTimer(i, d.node)
    /\ Queue(i, d)
    /\ SetEntry(i, d.node, [nodeMap[i][d.node] EXCEPT
           !.inc = d.inc, !.st = IF d.node = d.from THEN "left" ELSE "dead"])
    /\ CounterUnchanged

\* deadNode erases the timer before it finds that the news is not new.
DeadRepeat(i, d) ==
    /\ Fresh(i, d)
    /\ DeadOrLeft(nodeMap[i][d.node])
    /\ EraseTimer(i, d.node)
    /\ CounterUnchanged
    /\ UNCHANGED <<nodeMap, sent>>

deadNode(i, d) == DeadSelfRefute(i, d) \/ DeadUpdate(i, d) \/ DeadRepeat(i, d)

HandlerUnchanged == UNCHANGED <<nodeMap, nodeTimers, incarnation, issued, sent>>

-----------------------------------------------------------------------------
(* Messages from other members: packetHandler and mergeRemoteState. *)

\* Mutant of Resolve: the placeholder is taken for a confirming member.
ResolveNothing(i, m) == m

\* mergeRemoteState puts the name of the merging member into a suspicion.
Resolve(i, m) == IF m.from = Receiver THEN [m EXCEPT !.from = i] ELSE m

\* Suspicions that reach i: gossiped or merged ones, and direct ones about i.
Suspicions(i, k) ==
    {SuspectMsg(m.node, m.inc, Resolve(i, m).from) :
        m \in {x \in sent[k] : x.type = "suspect" \/ (x.type = "direct" /\ x.node = i)}}

Alives(k) == {m \in sent[k] : m.type = "alive"}
Deads(k) == {m \in sent[k] : m.type = "dead"}

NetUnchanged == UNCHANGED <<status, addr, leave, main, probing, starts, announced>>

HandleAlive(i, k) ==
    /\ status[i] = "running" /\ i # k
    /\ \E a \in Alives(k) : aliveNode(i, a)
    /\ NetUnchanged

HandleSuspect(i, k) ==
    /\ status[i] = "running" /\ i # k
    /\ \E s \in Suspicions(i, k) : suspectNode(i, s)
    /\ NetUnchanged

HandleDead(i, k) ==
    /\ status[i] = "running" /\ i # k
    /\ \E d \in Deads(k) : deadNode(i, d)
    /\ NetUnchanged

\* Mutant of StateMsg: a remote StateDead is declared instead of suspected.
StateMsgDeclare(j, e) ==
    CASE e.st = "alive" -> AliveMsg(j, e.inc, e.addr)
      [] e.st \in {"left", "dead"} -> DeadMsg(j, e.inc, j)
      [] OTHER -> SuspectMsg(j, e.inc, Receiver)

\* What mergeRemoteState makes of an entry of the sender's node list.
StateMsg(j, e) ==
    CASE e.st = "alive" -> AliveMsg(j, e.inc, e.addr)
      [] e.st = "left" -> DeadMsg(j, e.inc, j)
      [] OTHER -> SuspectMsg(j, e.inc, Receiver)

\* sendLocalState, for a Join, for pushPull or to answer a peer's.
SendLocalState(i) ==
    /\ i \in Pushers
    /\ status[i] = "running"
    /\ sent' = [sent EXCEPT ![i] = @ \cup
           {StateMsg(j, nodeMap[i][j]) : j \in {n \in Members : Known(i, n)}}]
    /\ UNCHANGED <<nodeMap, nodeTimers, incarnation, issued>>
    /\ NetUnchanged

-----------------------------------------------------------------------------
(* The main thread: constructor, UpdateNode and Leave. *)

MainUnchanged == UNCHANGED <<addr, probing, starts>>

\* The constructor up to the start of the three listener threads.
Start(i, a) ==
    /\ status[i] = "off"
    /\ starts[i] < MaxStarts[i]
    /\ status' = [status EXCEPT ![i] = "running"]
    /\ starts' = [starts EXCEPT ![i] = @ + 1]
    /\ addr' = [addr EXCEPT ![i] = a]
    /\ main' = [main EXCEPT ![i] = [op |-> "setAlive", pc |-> "add", inc |-> 0]]
    /\ HandlerUnchanged
    /\ UNCHANGED <<leave, probing, announced>>

\* nextIncarnation: fetch_add and load are two atomic operations.
NextIncAdd(i) ==
    /\ status[i] = "running" /\ main[i].pc = "add"
    /\ Advance(i, incarnation[i] + 1)
    /\ main' = [main EXCEPT ![i].pc = "load"]
    /\ UNCHANGED <<status, leave, nodeMap, nodeTimers, sent, announced>>
    /\ MainUnchanged

NextIncLoad(i) ==
    /\ status[i] = "running" /\ main[i].pc = "load"
    /\ main' = [main EXCEPT ![i] = [op |-> @.op, pc |-> "call", inc |-> incarnation[i]]]
    /\ HandlerUnchanged
    /\ UNCHANGED <<status, leave, announced>>
    /\ MainUnchanged

Calling(i, op) ==
    /\ status[i] = "running"
    /\ main[i].op = op
    /\ main[i].pc = "call"

Return(i) == main' = [main EXCEPT ![i] = Idle]

\* setAlive calls aliveNode with bootstrap = true.
SetAlive(i) ==
    LET a == AliveMsg(i, main[i].inc, addr[i])
    IN  /\ Calling(i, "setAlive")
        /\ \/ AliveUpdate(i, a)
           \/ AliveIgnored(i, a) /\ HandlerUnchanged
        /\ Return(i)
        /\ UNCHANGED <<status, leave, announced>>
        /\ MainUnchanged

UpdateNodeBegin(i) ==
    /\ i \in Updaters
    /\ status[i] = "running" /\ main[i].op = "none"
    /\ main' = [main EXCEPT ![i] = [op |-> "UpdateNode", pc |-> "add", inc |-> 0]]
    /\ HandlerUnchanged
    /\ UNCHANGED <<status, leave, announced>>
    /\ MainUnchanged

\* UpdateNode calls aliveNode with bootstrap = false.
UpdateNode(i) ==
    LET a == AliveMsg(i, main[i].inc, nodeMap[i][i].addr)
    IN  /\ Calling(i, "UpdateNode")
        /\ \/ AliveSelf(i, a, {incarnation[i]})
           \/ AliveIgnored(i, a) /\ HandlerUnchanged
        /\ Return(i)
        /\ UNCHANGED <<status, leave, announced>>
        /\ MainUnchanged

\* Leave sets the flag and reads its incarnation without nodeMutex.
LeaveBegin(i) ==
    /\ i \in Leavers
    /\ status[i] = "running" /\ main[i].op = "none"
    /\ ~leave[i]
    /\ leave' = [leave EXCEPT ![i] = TRUE]
    /\ main' = [main EXCEPT ![i] =
           [op |-> "Leave", pc |-> "call", inc |-> nodeMap[i][i].inc]]
    /\ announced' = [announced EXCEPT ![i] = @ \cup {nodeMap[i][i].inc}]
    /\ HandlerUnchanged
    /\ UNCHANGED status
    /\ MainUnchanged

Leave(i) ==
    LET d == DeadMsg(i, main[i].inc, i)
    IN  /\ Calling(i, "Leave")
        /\ \/ deadNode(i, d)
           \/ ~Fresh(i, d) /\ HandlerUnchanged
        /\ Return(i)
        /\ UNCHANGED <<status, leave, announced>>
        /\ MainUnchanged

-----------------------------------------------------------------------------
(* The probe thread. *)

ProbeUnchanged == UNCHANGED <<status, addr, leave, main, starts, announced>>

\* probe() copies the nodeState and probeNode sends the pings; schedule()
\* starts the probe thread after setAlive.
ProbeStart(i, j) ==
    LET e == nodeMap[i][j]
    IN  /\ i \in Probers
        /\ status[i] = "running" /\ main[i].op # "setAlive"
        /\ i # j /\ Known(i, j) /\ ~DeadOrLeft(e)
        /\ probing[i] = {}
        /\ probing' = [probing EXCEPT ![i] = {[node |-> j, inc |-> e.inc]}]
        /\ IF e.st = "alive" THEN UNCHANGED sent
           ELSE Queue(i, DirectMsg(j, e.inc, i))
        /\ UNCHANGED <<nodeMap, nodeTimers, incarnation, issued>>
        /\ ProbeUnchanged

\* An ack arrived, directly, through a peer or over TCP.
ProbeAck(i) ==
    /\ status[i] = "running"
    /\ probing[i] # {}
    /\ probing' = [probing EXCEPT ![i] = {}]
    /\ HandlerUnchanged
    /\ ProbeUnchanged

\* No ack: suspect the node at the incarnation copied when the probe began.
ProbeFail(i) ==
    /\ status[i] = "running"
    /\ \E p \in probing[i] :
          LET s == SuspectMsg(p.node, p.inc, i)
          IN  \/ suspectNode(i, s)
              \/ SuspectIgnored(i, s) /\ HandlerUnchanged
    /\ probing' = [probing EXCEPT ![i] = {}]
    /\ ProbeUnchanged

-----------------------------------------------------------------------------
(* Suspicion timers and the end of a process. *)

\* A process that ends loses everything but what it has sent.
Exit(i) ==
    /\ status' = [status EXCEPT ![i] = "off"]
    /\ incarnation' = [incarnation EXCEPT ![i] = 0]
    /\ leave' = [leave EXCEPT ![i] = FALSE]
    /\ nodeMap' = [nodeMap EXCEPT ![i] = [j \in Members |-> NoEntry]]
    /\ nodeTimers' = [nodeTimers EXCEPT ![i] = [j \in Members |-> NoTimer]]
    /\ main' = [main EXCEPT ![i] = Idle]
    /\ probing' = [probing EXCEPT ![i] = {}]
    /\ UNCHANGED <<addr, sent, starts, issued, announced>>

\* A crash, or ShutDown and exit.  For its peers a process that is not started
\* again is one that takes no further step, so this is a step of the model only
\* where another start may follow.
Crash(i) ==
    /\ status[i] = "running" /\ starts[i] < MaxStarts[i]
    /\ Exit(i)

\* The timer expires: its thread runs f, f calls deadNode, and deadNode erases
\* the suspicion whose destructor cancels and joins the thread it runs on; the
\* destructor must not throw, so the process is terminated.
SuspicionTimeout(i, j) ==
    /\ status[i] = "running"
    /\ HasTimer(i, j)
    /\ nodeMap[i][j].st = "suspect"
    /\ Exit(i)

-----------------------------------------------------------------------------
Next ==
    \E i \in Members :
        \/ \E a \in Addrs : Start(i, a)
        \/ NextIncAdd(i) \/ NextIncLoad(i) \/ SetAlive(i)
        \/ UpdateNodeBegin(i) \/ UpdateNode(i)
        \/ LeaveBegin(i) \/ Leave(i)
        \/ \E j \in Members : ProbeStart(i, j)
        \/ ProbeAck(i) \/ ProbeFail(i)
        \/ \E k \in Members : HandleAlive(i, k) \/ HandleSuspect(i, k) \/ HandleDead(i, k)
        \/ SendLocalState(i)
        \/ \E j \in Members : SuspicionTimeout(i, j)
        \/ Crash(i)

Spec == Init /\ [][Next]_vars

-----------------------------------------------------------------------------
(* Properties. *)

\* Type invariant of the state above.
TypeOK ==
    /\ status \in [Members -> {"off", "running"}]
    /\ addr \in [Members -> Addrs]
    /\ incarnation \in [Members -> Nat]
    /\ leave \in [Members -> BOOLEAN]
    /\ nodeMap \in [Members -> [Members -> Entry]]
    /\ nodeTimers \in [Members -> [Members -> Suspicion]]
    /\ main \in [Members -> Calls]
    /\ probing \in [Members -> SUBSET [node : Members, inc : Nat]]
    /\ sent \in [Members -> SUBSET Message]
    /\ starts \in [Members -> Nat]
    /\ issued \in [Members -> Nat]
    /\ announced \in [Members -> SUBSET Nat]

\* An incarnation number of j comes from j alone: no view, message, probe copy
\* or pending call carries a number of j above the highest that j's own counter
\* has had in any of its runs (nextIncarnation and skipIncarnation are the only
\* sources; every handler copies or outbids).
IncarnationOwned ==
    \A i \in Members :
        /\ incarnation[i] <= issued[i] /\ main[i].inc <= issued[i]
        /\ \A j \in Members : nodeMap[i][j].inc <= issued[j]
        /\ \A m \in sent[i] : m.inc <= issued[m.node]
        /\ \A p \in probing[i] : p.inc <= issued[p.node]

\* A suspicion timer runs for exactly the nodes in StateSuspect: aliveNode and
\* deadNode erase it with the state they overwrite, suspectNode creates it with
\* the state it sets, so no timer outlives the suspicion it was started for.
TimerIffSuspect ==
    \A i, j \in Members : HasTimer(i, j) <=> nodeMap[i][j].st = "suspect"

\* StateLeft is stored, and a dead broadcast exists, only for an incarnation at
\* which that very node called Leave: neither a failed probe nor a merged
\* push/pull state ever makes a member that did not leave look as if it had.
LeftIsAnnounced ==
    \A i \in Members :
        /\ \A j \in Members :
              nodeMap[i][j].st = "left" => nodeMap[i][j].inc \in announced[j]
        /\ \A m \in sent[i] :
              m.type = "dead" => m.from = m.node /\ m.inc \in announced[m.node]

\* The counter and our own entry agree whenever no call is between the two, so
\* that refute, which compares the accusation with the counter only, outbids
\* the entry as well; the main thread may be ahead of the entry, never behind.
SelfIncarnationCurrent ==
    \A i \in Members :
        nodeMap[i][i].st = "alive" =>
            /\ nodeMap[i][i].inc <= incarnation[i]
            /\ main[i].op # "UpdateNode" /\ ~leave[i]
                   => nodeMap[i][i].inc = incarnation[i]

\* Whatever a member believes it has queued for gossip as well: each handler
\* that changes an entry re-broadcasts the message that made it do so.
EveryBeliefGossiped ==
    \A i, j \in Members :
        LET e == nodeMap[i][j]
        IN  /\ e.st = "alive" => AliveMsg(j, e.inc, e.addr) \in sent[i]
            /\ e.st = "left" => DeadMsg(j, e.inc, j) \in sent[i]
            /\ e.st = "suspect" =>
                   \E f \in Members : SuspectMsg(j, e.inc, f) \in sent[i]

Rank(st) == CASE st = "alive" -> 0 [] st = "suspect" -> 1 [] OTHER -> 2

\* What i stores about another member only moves up: to a higher incarnation,
\* or within one from alive to suspect to dead or left.  A lower incarnation is
\* accepted only from a new address, for a name that had left or died.
EntryAdvances(i, j) ==
    LET e == nodeMap[i][j]
        f == nodeMap'[i][j]
    IN  IF f.addr = e.addr
        THEN f.inc > e.inc \/ (f.inc = e.inc /\ Rank(f.st) >= Rank(e.st))
        ELSE DeadOrLeft(e) /\ f.st = "alive"

\* No order of stale, duplicated or reordered messages makes a running member
\* fall back to older knowledge about somebody else.
ViewAdvances ==
    [][\A i, j \in Members :
          i # j /\ Known(i, j) /\ status[i] = "running" /\ status'[i] = "running"
              => EntryAdvances(i, j)]_vars

\* The protocol with all its messages, retries, restarts and races does nothing
\* that Beliefs does not allow: seen through nodeMap and the history of the
\* counters and of the calls to Leave, every step is one of Beliefs or none.
Abs == INSTANCE Beliefs WITH belief <- nodeMap
ImplementsBeliefs == Abs!Spec

\* setAlive "is used to mark this node as being alive" (memberlist.cpp:23): once
\* the constructor has run it, a member that is not leaving is alive in its own
\* map.
AliveOnceStarted ==
    \A i \in Members :
        status[i] = "running" /\ main[i].op # "setAlive" /\ ~leave[i]
            => nodeMap[i][i].st = "alive"

\* "Leave will broadcast a leave message" (memberlist.cpp:194): when the call
\* that sends it has returned, the member has left in its own map.
LeaveTakesEffect ==
    \A i \in Members :
        status[i] = "running" /\ leave[i] /\ main[i].op # "Leave"
            => nodeMap[i][i].st = "left"
=============================================================================
