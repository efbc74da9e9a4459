-------------------------- MODULE MembershipProofs --------------------------
(***************************************************************************)
(* Proofs about Membership, for every set of members and addresses, every  *)
(* SuspicionMult and every bound.                                          *)
(***************************************************************************)
EXTENDS Membership, TLAPS

\* Numbers are issued from 1 on: nextIncarnation adds before it loads, so a
\* pending setAlive or UpdateNode and an entry in StateAlive never carry 0.  TypeOK needs it
\* for the messages they produce.
Positive ==
    \A i \in Members :
        /\ main[i].pc = "load" => incarnation[i] # 0
        /\ main[i].op # "Leave" /\ main[i].pc = "call" =>
               main[i].inc # 0 /\ incarnation[i] # 0
        /\ \A j \in Members : nodeMap[i][j].st = "alive" => nodeMap[i][j].inc # 0

\* What a handler may change, and its type.
HandlerTyped ==
    /\ nodeMap \in [Members -> [Members -> Entry]]
    /\ nodeTimers \in [Members -> [Members -> Suspicion]]
    /\ incarnation \in [Members -> Nat]
    /\ issued \in [Members -> Nat]
    /\ sent \in [Members -> SUBSET Message]

AlivePositive ==
    \A i, j \in Members : nodeMap[i][j].st = "alive" => nodeMap[i][j].inc # 0

\* refute loads a counter value, even if main's fetch_add overtakes the load.
LoadsTyped ==
    \A i \in Members : /\ Loaded(i) \in SUBSET (0..incarnation[i])
                       /\ {incarnation[i]} \in SUBSET (0..incarnation[i])

CounterGrows == \A i \in Members : incarnation'[i] >= incarnation[i]

\* What each handler establishes.
HandlerOK == HandlerTyped' /\ AlivePositive' /\ CounterGrows

AliveMsgs == [type : {"alive"}, node : Members, inc : Nat \ {0}, addr : Addrs]
SuspectMsgs == [type : {"suspect"}, node : Members, inc : Nat, from : Members]
DeadMsgs == [type : {"dead"}, node : Members, inc : Nat,
             from : Members \cup {Receiver}]

\* NoEntry, NoTimer and Idle have their types.
LEMMA ConstantTypes ==
    NoEntry \in Entry /\ NoTimer \in Suspicion /\ Idle \in Calls
  BY AddrsNonempty DEF NoEntry, Entry, NodeStates, NoTimer, Suspicion, Idle, Calls

\* The constructors of messages build messages.
LEMMA MessageTypes ==
    ASSUME NEW n \in Members, NEW inc \in Nat, NEW a \in Addrs,
           NEW f \in Members \cup {Receiver}
    PROVE  /\ inc # 0 => AliveMsg(n, inc, a) \in Message
           /\ SuspectMsg(n, inc, f) \in Message
           /\ DeadMsg(n, inc, f) \in Message
           /\ DirectMsg(n, inc, f) \in Message
  BY DEF AliveMsg, SuspectMsg, DeadMsg, DirectMsg, Message

\* The record sets of the three kinds of broadcast are sets of messages.
LEMMA BroadcastTypes ==
    /\ AliveMsgs \subseteq Message
    /\ SuspectMsgs \subseteq Message
    /\ DeadMsgs \subseteq Message
  BY DEF AliveMsgs, SuspectMsgs, DeadMsgs, Message

\* A handler that does not refute leaves the counter alone.
LEMMA CounterKept ==
    ASSUME HandlerTyped, CounterUnchanged
    PROVE  /\ incarnation' \in [Members -> Nat]
           /\ issued' \in [Members -> Nat]
           /\ CounterGrows
  BY DEF HandlerTyped, CounterUnchanged, CounterGrows

\* What refute stores and broadcasts is a positive number within its counter.
LEMMA RefuteNumbers ==
    ASSUME HandlerTyped, NEW i \in Members, NEW me, NEW accused \in Nat,
           NEW loads \in SUBSET (0..incarnation[i]), Refute(i, me, accused, loads)
    PROVE  \E counter \in Nat, inc \in Nat :
               /\ inc # 0 /\ inc <= counter /\ counter >= incarnation[i]
               /\ Advance(i, counter)
               /\ SetEntry(i, i, [me EXCEPT !.inc = inc])
               /\ Queue(i, AliveMsg(i, inc, me.addr))
  <1> DEFINE C(old) == IF accused >= old THEN incarnation[i] + (accused - old + 1)
                       ELSE incarnation[i]
             I(old) == IF accused >= old THEN C(old) ELSE old
  <1>1. PICK old \in loads :
            /\ Advance(i, C(old))
            /\ SetEntry(i, i, [me EXCEPT !.inc = I(old)])
            /\ Queue(i, AliveMsg(i, I(old), me.addr))
    BY DEF Refute
  <1>2. old \in Nat /\ incarnation[i] \in Nat /\ old <= incarnation[i]
    BY DEF HandlerTyped
  <1>3. /\ C(old) \in Nat /\ I(old) \in Nat /\ I(old) # 0
        /\ I(old) <= C(old) /\ C(old) >= incarnation[i]
    BY <1>2
  <1> HIDE DEF C, I
  <1> QED
    BY <1>1, <1>3

\* refute keeps the types, for an entry of ours in any state.
LEMMA RefuteOK ==
    ASSUME HandlerTyped, AlivePositive, NEW i \in Members, NEW me \in Entry,
           NEW accused \in Nat, NEW loads \in SUBSET (0..incarnation[i]),
           Refute(i, me, accused, loads)
    PROVE  /\ nodeMap' \in [Members -> [Members -> Entry]]
           /\ incarnation' \in [Members -> Nat]
           /\ issued' \in [Members -> Nat]
           /\ sent' \in [Members -> SUBSET Message]
           /\ AlivePositive'
           /\ CounterGrows
  <1>1. PICK counter \in Nat, inc \in Nat :
            /\ inc # 0 /\ inc <= counter /\ counter >= incarnation[i]
            /\ Advance(i, counter)
            /\ SetEntry(i, i, [me EXCEPT !.inc = inc])
            /\ Queue(i, AliveMsg(i, inc, me.addr))
    BY RefuteNumbers
  <1>3. [me EXCEPT !.inc = inc] \in Entry /\ me.addr \in Addrs
        /\ [me EXCEPT !.inc = inc].inc = inc
    BY <1>1 DEF Entry
  <1>4. nodeMap' \in [Members -> [Members -> Entry]] /\ AlivePositive'
    BY <1>1, <1>3 DEF SetEntry, HandlerTyped, AlivePositive
  <1>5. incarnation' \in [Members -> Nat] /\ CounterGrows
    BY <1>1 DEF Advance, HandlerTyped, CounterGrows
  <1>6. issued' \in [Members -> Nat]
    BY <1>1 DEF Advance, HandlerTyped
  <1>7. sent' \in [Members -> SUBSET Message]
    BY <1>1, <1>3, MessageTypes DEF Queue, HandlerTyped
  <1> QED
    BY <1>4, <1>5, <1>6, <1>7

\* The entry aliveNode works on is well-typed, stored or fresh.
LEMMA LookupType ==
    ASSUME HandlerTyped, NEW i \in Members, NEW a \in AliveMsgs
    PROVE  Lookup(i, a) \in Entry
  BY DEF Lookup, HandlerTyped, Entry, NodeStates, AliveMsgs

\* aliveNode for a message about ourselves.
LEMMA AliveSelfOK ==
    ASSUME HandlerTyped, AlivePositive, NEW i \in Members, NEW a \in AliveMsgs,
           NEW loads \in SUBSET (0..incarnation[i]), AliveSelf(i, a, loads)
    PROVE  HandlerOK
  <1>1. nodeTimers' \in [Members -> [Members -> Suspicion]]
    BY ConstantTypes DEF AliveSelf, EraseTimer, HandlerTyped
  <1>2. Lookup(i, a) \in Entry /\ a.inc \in Nat
    BY LookupType DEF AliveMsgs
  <1>3. CASE a.inc = Lookup(i, a).inc
    <2>1. Lookup(i, a).st = "alive" => Lookup(i, a).inc # 0
      BY DEF Lookup, AlivePositive, AliveMsgs
    <2> QED
      <3>1. SetEntry(i, i, Lookup(i, a)) /\ CounterUnchanged /\ UNCHANGED sent
        BY <1>3 DEF AliveSelf
      <3>2. nodeMap' \in [Members -> [Members -> Entry]] /\ AlivePositive'
        BY <1>2, <2>1, <3>1 DEF SetEntry, HandlerTyped, AlivePositive
      <3> QED
        BY <1>1, <3>1, <3>2, CounterKept DEF HandlerTyped, HandlerOK
  <1>4. CASE a.inc # Lookup(i, a).inc
    BY <1>1, <1>2, <1>4, RefuteOK DEF AliveSelf, HandlerOK, HandlerTyped
  <1> QED
    BY <1>3, <1>4

\* aliveNode for a message about another member, and the one of setAlive.
LEMMA AliveUpdateOK ==
    ASSUME HandlerTyped, AlivePositive, NEW i \in Members, NEW a \in AliveMsgs,
           AliveUpdate(i, a)
    PROVE  HandlerOK
  <1> DEFINE e == [inc |-> a.inc, st |-> "alive", addr |-> a.addr]
  <1>1. e \in Entry /\ e.inc # 0 /\ a.node \in Members
    BY DEF Entry, NodeStates, AliveMsgs
  <1>2. nodeTimers' \in [Members -> [Members -> Suspicion]]
    BY <1>1, ConstantTypes DEF AliveUpdate, EraseTimer, HandlerTyped
  <1>3. nodeMap' \in [Members -> [Members -> Entry]] /\ AlivePositive'
    BY <1>1 DEF AliveUpdate, SetEntry, HandlerTyped, AlivePositive
  <1>4. sent' \in [Members -> SUBSET Message]
    BY BroadcastTypes DEF AliveUpdate, Queue, HandlerTyped
  <1> QED
    BY <1>2, <1>3, <1>4, CounterKept DEF AliveUpdate, HandlerTyped, HandlerOK

\* suspectNode, whichever of its three branches it takes.
LEMMA SuspectNodeOK ==
    ASSUME HandlerTyped, LoadsTyped, AlivePositive, NEW i \in Members, NEW s \in SuspectMsgs,
           suspectNode(i, s)
    PROVE  HandlerOK
  <1>1. s.node \in Members /\ s.inc \in Nat /\ s.from \in Members /\ s \in Message
    BY BroadcastTypes DEF SuspectMsgs
  <1>2. CASE SuspectConfirm(i, s)
    <2> DEFINE t == nodeTimers[i][s.node]
               u == [conf |-> t.conf \cup {s.from}, k |-> t.k]
    <2>0. u \in Suspicion
      <3>1. t \in Suspicion
        BY <1>1 DEF HandlerTyped
      <3> QED
        BY <1>1, <3>1 DEF Suspicion
    <2>1. nodeTimers' \in [Members -> [Members -> Suspicion]]
      BY <1>1, <1>2, <2>0 DEF SuspectConfirm, HandlerTyped
    <2>2. sent' \in [Members -> SUBSET Message]
      BY <1>1, <1>2 DEF SuspectConfirm, Queue, HandlerTyped
    <2> QED
      BY <1>2, <2>1, <2>2, CounterKept
      DEF SuspectConfirm, HandlerTyped, HandlerOK, AlivePositive
  <1>3. CASE SuspectSelf(i, s)
    <2>1. nodeMap[i][i] \in Entry /\ Loaded(i) \in SUBSET (0..incarnation[i])
      BY DEF HandlerTyped, LoadsTyped
    <2> QED
      BY <1>1, <1>3, <2>1, RefuteOK DEF SuspectSelf, HandlerOK, HandlerTyped
  <1>4. CASE SuspectStart(i, s)
    <2> DEFINE e == [nodeMap[i][s.node] EXCEPT !.inc = s.inc, !.st = "suspect"]
               t == [conf |-> {s.from}, k |-> SuspicionK(i)]
    <2>1. e \in Entry /\ e.st = "suspect"
      <3>1. nodeMap[i][s.node] \in Entry
        BY <1>1 DEF HandlerTyped
      <3> QED
        BY <1>1, <3>1 DEF Entry, NodeStates
    <2>2. t \in Suspicion
      BY <1>1, MultAssumption DEF Suspicion, SuspicionK
    <2>3. nodeMap' \in [Members -> [Members -> Entry]] /\ AlivePositive'
      BY <1>1, <1>4, <2>1 DEF SuspectStart, SetEntry, HandlerTyped, AlivePositive
    <2>4. nodeTimers' \in [Members -> [Members -> Suspicion]]
      BY <1>1, <1>4, <2>2 DEF SuspectStart, HandlerTyped
    <2>5. sent' \in [Members -> SUBSET Message]
      BY <1>1, <1>4 DEF SuspectStart, Queue, HandlerTyped
    <2> QED
      BY <1>4, <2>3, <2>4, <2>5, CounterKept DEF SuspectStart, HandlerTyped, HandlerOK
  <1> QED
    BY <1>2, <1>3, <1>4 DEF suspectNode

\* deadNode, whichever of its three branches it takes.
LEMMA DeadNodeOK ==
    ASSUME HandlerTyped, LoadsTyped, AlivePositive, NEW i \in Members, NEW d \in DeadMsgs,
           deadNode(i, d)
    PROVE  HandlerOK
  <1>1. d.node \in Members /\ d.inc \in Nat /\ d \in Message
    BY BroadcastTypes DEF DeadMsgs
  <1>2. CASE DeadSelfRefute(i, d)
    <2>1. nodeMap[i][i] \in Entry
      BY DEF HandlerTyped
    <2>2. nodeTimers' \in [Members -> [Members -> Suspicion]]
      BY <1>2, ConstantTypes DEF DeadSelfRefute, EraseTimer, HandlerTyped
    <2>3. Loaded(i) \in SUBSET (0..incarnation[i])
      BY DEF LoadsTyped
    <2> QED
      BY <1>1, <1>2, <2>1, <2>2, <2>3, RefuteOK DEF DeadSelfRefute, HandlerOK, HandlerTyped
  <1>3. CASE DeadUpdate(i, d)
    <2> DEFINE e == [nodeMap[i][d.node] EXCEPT !.inc = d.inc,
                         !.st = IF d.node = d.from THEN "left" ELSE "dead"]
    <2>1. e \in Entry /\ e.st # "alive"
      <3>1. nodeMap[i][d.node] \in Entry
        BY <1>1 DEF HandlerTyped
      <3> QED
        BY <1>1, <3>1 DEF Entry, NodeStates
    <2>2. nodeMap' \in [Members -> [Members -> Entry]] /\ AlivePositive'
      BY <1>1, <1>3, <2>1 DEF DeadUpdate, SetEntry, HandlerTyped, AlivePositive
    <2>3. nodeTimers' \in [Members -> [Members -> Suspicion]]
      BY <1>1, <1>3, ConstantTypes DEF DeadUpdate, EraseTimer, HandlerTyped
    <2>4. sent' \in [Members -> SUBSET Message]
      BY <1>1, <1>3 DEF DeadUpdate, Queue, HandlerTyped
    <2> QED
      BY <1>3, <2>2, <2>3, <2>4, CounterKept DEF DeadUpdate, HandlerTyped, HandlerOK
  <1>4. CASE DeadRepeat(i, d)
    <2>1. nodeTimers' \in [Members -> [Members -> Suspicion]]
      BY <1>1, <1>4, ConstantTypes DEF DeadRepeat, EraseTimer, HandlerTyped
    <2> QED
      BY <1>4, <2>1, CounterKept DEF DeadRepeat, HandlerTyped, HandlerOK, AlivePositive
  <1> QED
    BY <1>2, <1>3, <1>4 DEF deadNode

-----------------------------------------------------------------------------
(* What arrives from the network, and the type invariant. *)

\* Every message that a handler takes from the network has its kind's type.
LEMMA ReceivedTypes ==
    ASSUME sent \in [Members -> SUBSET Message], NEW i \in Members, NEW k \in Members
    PROVE  /\ Alives(k) \subseteq AliveMsgs
           /\ Suspicions(i, k) \subseteq SuspectMsgs
           /\ Deads(k) \subseteq DeadMsgs
  <1>1. sent[k] \subseteq Message
    OBVIOUS
  <1>2. Alives(k) \subseteq AliveMsgs /\ Deads(k) \subseteq DeadMsgs
    BY <1>1 DEF Alives, Deads, Message, AliveMsgs, DeadMsgs
  <1>3. ASSUME NEW m \in sent[k],
               m.type = "suspect" \/ (m.type = "direct" /\ m.node = i)
        PROVE  SuspectMsg(m.node, m.inc, Resolve(i, m).from) \in SuspectMsgs
    <2>1. m.node \in Members /\ m.inc \in Nat /\ m.from \in Members \cup {Receiver}
      BY <1>1, <1>3 DEF Message
    <2>2. Resolve(i, m).from \in Members
      <3>1. CASE m.from = Receiver
        <4>1. m \in [type : {"suspect", "dead", "direct"}, node : Members,
                     inc : Nat, from : Members \cup {Receiver}]
          BY <1>1, <1>3 DEF Message
        <4>2. [m EXCEPT !.from = i].from = i
          BY <4>1
        <4> QED
          BY <3>1, <4>2 DEF Resolve
      <3>2. CASE m.from # Receiver
        BY <2>1, <3>2 DEF Resolve
      <3> QED
        BY <3>1, <3>2
    <2> QED
      BY <2>1, <2>2 DEF SuspectMsg, SuspectMsgs
  <1> QED
    BY <1>2, <1>3 DEF Suspicions

TInv == TypeOK /\ Positive

\* A step that runs a handler, and of the rest at most main's call and the
\* probe in progress, keeps the type invariant.
LEMMA HandlerStep ==
    ASSUME TInv, HandlerOK,
           status' \in [Members -> {"off", "running"}],
           leave' = leave, addr' = addr, starts' = starts, announced' = announced,
           probing' \in [Members -> SUBSET [node : Members, inc : Nat]],
           \/ main' = main
           \/ \E i \in Members : main' = [main EXCEPT ![i] = Idle]
    PROVE  TInv'
  <1>1. main' \in [Members -> Calls]
    BY ConstantTypes DEF TInv, TypeOK
  <1>2. TypeOK'
    BY <1>1 DEF TInv, TypeOK, HandlerOK, HandlerTyped
  <1>3. ASSUME NEW i \in Members
        PROVE  /\ main'[i].pc = "load" => incarnation'[i] # 0
               /\ main'[i].op # "Leave" /\ main'[i].pc = "call" =>
                      main'[i].inc # 0 /\ incarnation'[i] # 0
    <2>1. main'[i] = main[i] \/ main'[i] = Idle
      BY DEF TInv, TypeOK
    <2>2. CASE main'[i] = main[i]
      <3>1. incarnation'[i] >= incarnation[i] /\ incarnation[i] \in Nat
            /\ incarnation'[i] \in Nat
        BY DEF HandlerOK, CounterGrows, HandlerTyped, TInv, TypeOK
      <3>2. /\ main[i].pc = "load" => incarnation[i] # 0
            /\ main[i].op # "Leave" /\ main[i].pc = "call" =>
                   main[i].inc # 0 /\ incarnation[i] # 0
        BY DEF TInv, Positive
      <3> QED
        BY <2>2, <3>1, <3>2
    <2>3. CASE main'[i] = Idle
      BY <2>3 DEF Idle
    <2> QED
      BY <2>1, <2>2, <2>3
  <1>4. Positive'
    BY <1>3 DEF Positive, HandlerOK, AlivePositive
  <1> QED
    BY <1>2, <1>4 DEF TInv

\* A step that changes nothing a handler changes is a handler step too.
LEMMA NoHandler ==
    ASSUME TInv, HandlerUnchanged
    PROVE  HandlerOK
  BY CounterKept DEF TInv, TypeOK, Positive, HandlerUnchanged, CounterUnchanged,
      HandlerOK, HandlerTyped, AlivePositive

\* The facts about handlers apply in a state of the type invariant.
LEMMA HandlerPre == TInv => HandlerTyped /\ AlivePositive /\ LoadsTyped
  <1> SUFFICES ASSUME TInv PROVE HandlerTyped /\ AlivePositive /\ LoadsTyped
    OBVIOUS
  <1>1. HandlerTyped /\ AlivePositive
    BY DEF TInv, TypeOK, Positive, HandlerTyped, AlivePositive
  <1>2. ASSUME NEW i \in Members PROVE /\ Loaded(i) \in SUBSET (0..incarnation[i])
                                       /\ {incarnation[i]} \in SUBSET (0..incarnation[i])
    <2>1. incarnation[i] \in Nat
      BY DEF TInv, TypeOK
    <2>2. main[i].pc \in {"load", "call"} /\ main[i].op # "Leave" => incarnation[i] # 0
      BY DEF TInv, Positive
    <2> QED
      BY <2>1, <2>2 DEF Loaded
  <1> QED
    BY <1>1, <1>2 DEF LoadsTyped

\* The type invariant is inductive together with Positive.
LEMMA TInvInductive == TInv /\ [Next]_vars => TInv'
  <1> SUFFICES ASSUME TInv, [Next]_vars PROVE TInv'
    OBVIOUS
  <1> USE HandlerPre
  <1>0. CASE UNCHANGED vars
    BY <1>0 DEF vars, TInv, TypeOK, Positive
  <1>1. ASSUME NEW i \in Members, NEW a \in Addrs, Start(i, a)
        PROVE  TInv'
    <2>1. TypeOK'
      BY <1>1 DEF Start, HandlerUnchanged, TInv, TypeOK, Calls
    <2>2. Positive'
      BY <1>1 DEF Start, HandlerUnchanged, TInv, TypeOK, Positive
    <2> QED
      BY <2>1, <2>2 DEF TInv
  <1>2. ASSUME NEW i \in Members, NextIncAdd(i)
        PROVE  TInv'
    <2>1. main' \in [Members -> Calls]
      BY <1>2 DEF NextIncAdd, TInv, TypeOK, Calls
    <2>2. TypeOK'
      BY <1>2, <2>1 DEF NextIncAdd, Advance, MainUnchanged, TInv, TypeOK
    <2>3. Positive'
      BY <1>2 DEF NextIncAdd, Advance, MainUnchanged, TInv, TypeOK, Positive, Calls
    <2> QED
      BY <2>2, <2>3 DEF TInv
  <1>3. ASSUME NEW i \in Members, NextIncLoad(i)
        PROVE  TInv'
    <2>1. main' \in [Members -> Calls]
      BY <1>3 DEF NextIncLoad, TInv, TypeOK, Calls
    <2>2. TypeOK'
      BY <1>3, <2>1 DEF NextIncLoad, HandlerUnchanged, MainUnchanged, TInv, TypeOK
    <2>3. Positive'
      BY <1>3 DEF NextIncLoad, HandlerUnchanged, MainUnchanged, TInv, TypeOK,
          Positive, Calls
    <2> QED
      BY <2>2, <2>3 DEF TInv
  <1>4. ASSUME NEW i \in Members, SetAlive(i)
        PROVE  TInv'
    <2> DEFINE a == AliveMsg(i, main[i].inc, addr[i])
    <2>1. a \in AliveMsgs
      BY <1>4 DEF SetAlive, Calling, AliveMsg, AliveMsgs, TInv, TypeOK, Positive, Calls
    <2>2. AliveUpdate(i, a) \/ HandlerUnchanged
      BY <1>4 DEF SetAlive
    <2> HIDE DEF a
    <2>3. HandlerOK
      BY <2>1, <2>2, AliveUpdateOK, NoHandler
    <2> QED
      BY <1>4, <2>3, HandlerStep DEF SetAlive, Return, MainUnchanged, TInv, TypeOK
  <1>5. ASSUME NEW i \in Members, UpdateNodeBegin(i)
        PROVE  TInv'
    <2>1. TypeOK'
      BY <1>5 DEF UpdateNodeBegin, HandlerUnchanged, MainUnchanged, TInv, TypeOK, Calls
    <2>2. Positive'
      BY <1>5 DEF UpdateNodeBegin, HandlerUnchanged, MainUnchanged, TInv, TypeOK, Positive
    <2> QED
      BY <2>1, <2>2 DEF TInv
  <1>6. ASSUME NEW i \in Members, UpdateNode(i)
        PROVE  TInv'
    <2> DEFINE a == AliveMsg(i, main[i].inc, nodeMap[i][i].addr)
    <2>0. nodeMap[i][i] \in Entry
      BY DEF TInv, TypeOK
    <2>1. a \in AliveMsgs
      BY <1>6, <2>0 DEF UpdateNode, Calling, AliveMsg, AliveMsgs, TInv, TypeOK,
          Positive, Calls, Entry
    <2>2. AliveSelf(i, a, {incarnation[i]}) \/ HandlerUnchanged
      BY <1>6 DEF UpdateNode
    <2> HIDE DEF a
    <2>3. {incarnation[i]} \in SUBSET (0..incarnation[i])
      BY DEF LoadsTyped
    <2>4. HandlerOK
      BY <2>1, <2>2, <2>3, AliveSelfOK, NoHandler
    <2> QED
      BY <1>6, <2>4, HandlerStep DEF UpdateNode, Return, MainUnchanged, TInv, TypeOK
  <1>7. ASSUME NEW i \in Members, LeaveBegin(i)
        PROVE  TInv'
    <2>1. nodeMap[i][i].inc \in Nat
      BY DEF TInv, TypeOK, Entry
    <2>2. TypeOK'
      BY <1>7, <2>1 DEF LeaveBegin, HandlerUnchanged, MainUnchanged, TInv, TypeOK, Calls
    <2>3. Positive'
      BY <1>7 DEF LeaveBegin, HandlerUnchanged, MainUnchanged, TInv, TypeOK, Positive
    <2> QED
      BY <2>2, <2>3 DEF TInv
  <1>8. ASSUME NEW i \in Members, Leave(i)
        PROVE  TInv'
    <2> DEFINE d == DeadMsg(i, main[i].inc, i)
    <2>1. d \in DeadMsgs
      BY DEF DeadMsg, DeadMsgs, TInv, TypeOK, Calls
    <2>2. deadNode(i, d) \/ HandlerUnchanged
      BY <1>8 DEF Leave
    <2> HIDE DEF d
    <2>3. HandlerOK
      BY <2>1, <2>2, DeadNodeOK, NoHandler
    <2> QED
      BY <1>8, <2>3, HandlerStep DEF Leave, Return, MainUnchanged, TInv, TypeOK
  <1>9. ASSUME NEW i \in Members, NEW j \in Members, ProbeStart(i, j)
        PROVE  TInv'
    <2>1. nodeMap[i][j].inc \in Nat
      BY DEF TInv, TypeOK, Entry
    <2>2. probing' \in [Members -> SUBSET [node : Members, inc : Nat]]
      BY <1>9, <2>1 DEF ProbeStart, TInv, TypeOK
    <2>3. sent' \in [Members -> SUBSET Message]
      <3>1. DirectMsg(j, nodeMap[i][j].inc, i) \in Message
        BY <2>1, AddrsNonempty, MessageTypes
      <3>2. sent \in [Members -> SUBSET Message]
        BY DEF TInv, TypeOK
      <3>3. UNCHANGED sent \/ Queue(i, DirectMsg(j, nodeMap[i][j].inc, i))
        BY <1>9 DEF ProbeStart
      <3> QED
        BY <3>1, <3>2, <3>3 DEF Queue
    <2>4. CounterUnchanged /\ UNCHANGED <<nodeMap, nodeTimers>>
      BY <1>9 DEF ProbeStart, CounterUnchanged
    <2>5. HandlerOK
      BY <2>3, <2>4, CounterKept DEF HandlerOK, HandlerTyped, AlivePositive
    <2> QED
      BY <1>9, <2>2, <2>5, HandlerStep DEF ProbeStart, ProbeUnchanged, TInv, TypeOK
  <1>10. ASSUME NEW i \in Members, ProbeAck(i)
         PROVE  TInv'
    <2>1. probing' \in [Members -> SUBSET [node : Members, inc : Nat]]
      BY <1>10 DEF ProbeAck, TInv, TypeOK
    <2> QED
      BY <1>10, <2>1, NoHandler, HandlerStep DEF ProbeAck, ProbeUnchanged, TInv, TypeOK
  <1>11. ASSUME NEW i \in Members, ProbeFail(i)
         PROVE  TInv'
    <2>1. PICK p \in probing[i] : suspectNode(i, SuspectMsg(p.node, p.inc, i))
                                  \/ HandlerUnchanged
      BY <1>11 DEF ProbeFail
    <2>2. SuspectMsg(p.node, p.inc, i) \in SuspectMsgs
      BY <2>1 DEF SuspectMsg, SuspectMsgs, TInv, TypeOK
    <2>3. HandlerOK
      BY <2>1, <2>2, SuspectNodeOK, NoHandler
    <2>4. probing' \in [Members -> SUBSET [node : Members, inc : Nat]]
      BY <1>11 DEF ProbeFail, TInv, TypeOK
    <2> QED
      BY <1>11, <2>3, <2>4, HandlerStep DEF ProbeFail, ProbeUnchanged, TInv, TypeOK
  <1>12. ASSUME NEW i \in Members, NEW k \in Members,
                HandleAlive(i, k) \/ HandleSuspect(i, k) \/ HandleDead(i, k)
         PROVE  TInv'
    <2>1. sent \in [Members -> SUBSET Message]
      BY DEF TInv, TypeOK
    <2>2. CASE HandleAlive(i, k)
      <3>1. PICK a \in Alives(k) : aliveNode(i, a)
        BY <2>2 DEF HandleAlive
      <3>2. a \in AliveMsgs
        BY <2>1, <3>1, ReceivedTypes
      <3>3. Loaded(i) \in SUBSET (0..incarnation[i])
        BY DEF LoadsTyped
      <3>4. HandlerOK
        BY <3>1, <3>2, <3>3, AliveSelfOK, AliveUpdateOK DEF aliveNode
      <3> QED
        BY <2>2, <3>4, HandlerStep DEF HandleAlive, NetUnchanged, TInv, TypeOK
    <2>3. CASE HandleSuspect(i, k)
      <3>1. PICK s \in Suspicions(i, k) : suspectNode(i, s)
        BY <2>3 DEF HandleSuspect
      <3>2. s \in SuspectMsgs
        BY <2>1, <3>1, ReceivedTypes
      <3> QED
        BY <3>1, <3>2, SuspectNodeOK, <2>3, HandlerStep
        DEF HandleSuspect, NetUnchanged, TInv, TypeOK
    <2>4. CASE HandleDead(i, k)
      <3>1. PICK d \in Deads(k) : deadNode(i, d)
        BY <2>4 DEF HandleDead
      <3>2. d \in DeadMsgs
        BY <2>1, <3>1, ReceivedTypes
      <3> QED
        BY <3>1, <3>2, DeadNodeOK, <2>4, HandlerStep
        DEF HandleDead, NetUnchanged, TInv, TypeOK
    <2> QED
      BY <1>12, <2>2, <2>3, <2>4
  <1>13. ASSUME NEW i \in Members, SendLocalState(i)
         PROVE  TInv'
    <2>1. ASSUME NEW j \in Members PROVE StateMsg(j, nodeMap[i][j]) \in Message
      <3>1. nodeMap[i][j] \in Entry /\ (nodeMap[i][j].st = "alive" => nodeMap[i][j].inc # 0)
        BY DEF TInv, TypeOK, Positive
      <3>2. nodeMap[i][j].inc \in Nat /\ nodeMap[i][j].addr \in Addrs
        BY <3>1 DEF Entry
      <3> QED
        BY <3>1, <3>2, MessageTypes DEF StateMsg
    <2>2. sent' \in [Members -> SUBSET Message]
      BY <1>13, <2>1 DEF SendLocalState, TInv, TypeOK
    <2>3. CounterUnchanged /\ UNCHANGED <<nodeMap, nodeTimers>>
      BY <1>13 DEF SendLocalState, CounterUnchanged
    <2>4. HandlerOK
      BY <2>2, <2>3, CounterKept DEF HandlerOK, HandlerTyped, AlivePositive
    <2> QED
      BY <1>13, <2>4, HandlerStep DEF SendLocalState, NetUnchanged, TInv, TypeOK
  <1>14. ASSUME NEW i \in Members, Exit(i)
         PROVE  TInv'
    <2>1. TypeOK'
      BY <1>14, ConstantTypes DEF Exit, TInv, TypeOK
    <2>2. Positive'
      BY <1>14 DEF Exit, TInv, TypeOK, Positive, Idle, NoEntry
    <2> QED
      BY <2>1, <2>2 DEF TInv
  <1> QED
    BY <1>0, <1>1, <1>2, <1>3, <1>4, <1>5, <1>6, <1>7, <1>8, <1>9, <1>10, <1>11,
       <1>12, <1>13, <1>14
    DEF Next, SuspicionTimeout, Crash

\* The state every member keeps, the messages in flight and the copies that
\* threads work on always have their types; no alive message carries the
\* incarnation 0, so an alive message about an unknown node is never old.
THEOREM TypeCorrect == Spec => []TypeOK
  <1>1. Init => TInv
    BY ConstantTypes, AddrsNonempty
    DEF Init, TInv, TypeOK, Positive, NoEntry, NoTimer, Idle, Entry, Calls
  <1> QED
    BY <1>1, TInvInductive, PTL DEF Spec, TInv
-----------------------------------------------------------------------------
(* Incarnation numbers come from their owner. *)

\* The parts of IncarnationOwned that handlers change.
CounterOwned == \A i \in Members : incarnation[i] <= issued[i]
ViewsOwned == \A i, j \in Members : nodeMap[i][j].inc <= issued[j]
SentOwned == \A i \in Members : \A m \in sent[i] : m.inc <= issued[m.node]
Owned == CounterOwned /\ ViewsOwned /\ SentOwned

IssuedGrows == \A i \in Members : issued'[i] >= issued[i]

\* While the counter stands still, so does what it bounds.
LEMMA OwnedCounter ==
    ASSUME HandlerTyped, Owned, CounterUnchanged
    PROVE  CounterOwned' /\ IssuedGrows
  <1>1. issued' = issued /\ incarnation' = incarnation
    BY DEF CounterUnchanged
  <1> QED
    BY <1>1 DEF CounterOwned, Owned, IssuedGrows, HandlerTyped

\* Storing an entry within what its node has issued.
LEMMA OwnedEntry ==
    ASSUME HandlerTyped, Owned, CounterUnchanged, NEW i \in Members,
           NEW n \in Members, NEW e, e.inc <= issued[n], SetEntry(i, n, e)
    PROVE  ViewsOwned'
  <1>1. issued' = issued
    BY DEF CounterUnchanged
  <1> SUFFICES ASSUME NEW k \in Members, NEW j \in Members
               PROVE  nodeMap'[k][j].inc <= issued'[j]
    BY DEF ViewsOwned
  <1>2. CASE k = i /\ j = n
    BY <1>1, <1>2 DEF SetEntry, HandlerTyped
  <1>3. CASE ~(k = i /\ j = n)
    <2>1. nodeMap'[k][j] = nodeMap[k][j]
      BY <1>3 DEF SetEntry, HandlerTyped
    <2> QED
      BY <1>1, <2>1 DEF Owned, ViewsOwned
  <1> QED
    BY <1>2, <1>3

\* Queueing a message within what its node has issued.
LEMMA OwnedQueue ==
    ASSUME HandlerTyped, Owned, CounterUnchanged, NEW i \in Members,
           NEW m, m.inc <= issued[m.node], Queue(i, m)
    PROVE  SentOwned'
  <1>1. issued' = issued
    BY DEF CounterUnchanged
  <1>2. \A k \in Members : sent'[k] \subseteq sent[k] \cup {m}
    BY DEF Queue, HandlerTyped
  <1> QED
    BY <1>1, <1>2 DEF Owned, SentOwned

\* refute issues the number it stores and broadcasts.
LEMMA OwnedRefute ==
    ASSUME HandlerTyped, Owned, NEW i \in Members, NEW me \in Entry,
           NEW accused \in Nat, NEW loads \in SUBSET (0..incarnation[i]),
           Refute(i, me, accused, loads)
    PROVE  Owned' /\ IssuedGrows
  <1>1. PICK counter \in Nat, inc \in Nat :
            /\ inc # 0 /\ inc <= counter /\ counter >= incarnation[i]
            /\ Advance(i, counter)
            /\ SetEntry(i, i, [me EXCEPT !.inc = inc])
            /\ Queue(i, AliveMsg(i, inc, me.addr))
    BY RefuteNumbers
  <1>2. /\ incarnation' = [incarnation EXCEPT ![i] = counter]
        /\ issued' = [issued EXCEPT ![i] = IF counter > @ THEN counter ELSE @]
        /\ SetEntry(i, i, [me EXCEPT !.inc = inc])
        /\ Queue(i, AliveMsg(i, inc, me.addr))
    BY <1>1 DEF Advance
  <1>3. \A j \in Members : issued'[j] \in Nat /\ issued[j] \in Nat /\ issued'[j] >= issued[j]
    BY <1>1, <1>2 DEF HandlerTyped
  <1>4. issued'[i] >= inc /\ issued'[i] >= counter
    BY <1>1, <1>2 DEF HandlerTyped
  <1>5. \A k \in Members : incarnation'[k] <= issued'[k]
    BY <1>1, <1>2, <1>3, <1>4 DEF HandlerTyped, Owned, CounterOwned
  <1>6. \A k, j \in Members : nodeMap'[k][j].inc <= issued'[j]
    <2>1. [me EXCEPT !.inc = inc].inc = inc
      BY DEF Entry
    <2> SUFFICES ASSUME NEW k \in Members, NEW j \in Members
                 PROVE  nodeMap'[k][j].inc <= issued'[j]
      OBVIOUS
    <2>2. CASE k = i /\ j = i
      BY <1>1, <1>2, <1>3, <1>4, <2>1, <2>2 DEF SetEntry, HandlerTyped
    <2>3. CASE ~(k = i /\ j = i)
      <3>1. nodeMap'[k][j] = nodeMap[k][j]
        BY <1>2, <2>3 DEF SetEntry, HandlerTyped
      <3>2. nodeMap[k][j].inc \in Nat /\ nodeMap[k][j].inc <= issued[j]
        BY DEF HandlerTyped, Owned, ViewsOwned, Entry
      <3> QED
        BY <1>3, <3>1, <3>2
    <2> QED
      BY <2>2, <2>3
  <1>7. ASSUME NEW k \in Members, NEW m \in sent'[k]
        PROVE  m.inc <= issued'[m.node]
    <2>1. CASE m \in sent[k]
      <3>1. m.inc \in Nat /\ m.node \in Members /\ m.inc <= issued[m.node]
        BY <2>1 DEF HandlerTyped, Owned, SentOwned, Message
      <3> QED
        BY <1>3, <3>1
    <2>2. CASE m \notin sent[k]
      <3>1. m = AliveMsg(i, inc, me.addr)
        BY <1>2, <2>2 DEF Queue, HandlerTyped
      <3> QED
        BY <1>1, <1>3, <1>4, <3>1 DEF AliveMsg
    <2> QED
      BY <2>1, <2>2
  <1> QED
    BY <1>3, <1>5, <1>6, <1>7 DEF Owned, CounterOwned, ViewsOwned, SentOwned, IssuedGrows

\* aliveNode, for a message within what its node has issued.
LEMMA OwnedAlive ==
    ASSUME HandlerTyped, Owned, NEW i \in Members, NEW a \in AliveMsgs,
           NEW loads \in SUBSET (0..incarnation[i]),
           a.inc <= issued[a.node], AliveSelf(i, a, loads) \/ AliveUpdate(i, a)
    PROVE  Owned' /\ IssuedGrows
  <1>1. Lookup(i, a) \in Entry /\ a.inc \in Nat /\ a.node \in Members
    BY LookupType DEF AliveMsgs
  <1>2. CASE AliveUpdate(i, a)
    <2>1. /\ SetEntry(i, a.node, [inc |-> a.inc, st |-> "alive", addr |-> a.addr])
          /\ Queue(i, a)
          /\ CounterUnchanged
      BY <1>2 DEF AliveUpdate
    <2>2. ViewsOwned'
      BY <1>1, <2>1, OwnedEntry
    <2> QED
      BY <2>1, <2>2, OwnedQueue, OwnedCounter DEF Owned
  <1>3. CASE AliveSelf(i, a, loads) /\ a.inc = Lookup(i, a).inc
    <2>1. SetEntry(i, i, Lookup(i, a)) /\ CounterUnchanged /\ UNCHANGED sent /\ a.node = i
      BY <1>3 DEF AliveSelf
    <2>2. ViewsOwned'
      BY <1>3, <2>1, OwnedEntry
    <2>3. SentOwned'
      BY <2>1 DEF Owned, SentOwned, CounterUnchanged
    <2> QED
      BY <2>1, <2>2, <2>3, OwnedCounter DEF Owned
  <1>4. CASE AliveSelf(i, a, loads) /\ a.inc # Lookup(i, a).inc
    BY <1>1, <1>4, OwnedRefute DEF AliveSelf
  <1> QED
    BY <1>2, <1>3, <1>4

\* suspectNode, for a message within what its node has issued.
LEMMA OwnedSuspect ==
    ASSUME HandlerTyped, LoadsTyped, Owned, NEW i \in Members, NEW s \in SuspectMsgs,
           s.inc <= issued[s.node], suspectNode(i, s)
    PROVE  Owned' /\ IssuedGrows
  <1>1. s.node \in Members /\ s.inc \in Nat
    BY DEF SuspectMsgs
  <1>2. nodeMap[i][s.node] \in Entry /\ nodeMap[i][i] \in Entry
    BY <1>1 DEF HandlerTyped
  <1>3. CASE SuspectConfirm(i, s)
    <2>1. Queue(i, s) /\ CounterUnchanged /\ UNCHANGED nodeMap
      BY <1>3 DEF SuspectConfirm
    <2>2. ViewsOwned'
      BY <2>1 DEF Owned, ViewsOwned, CounterUnchanged
    <2> QED
      BY <2>1, <2>2, OwnedQueue, OwnedCounter DEF Owned
  <1>4. CASE SuspectSelf(i, s)
    <2>1. Loaded(i) \in SUBSET (0..incarnation[i])
      BY DEF LoadsTyped
    <2> QED
      BY <1>1, <1>2, <1>4, <2>1, OwnedRefute DEF SuspectSelf
  <1>5. CASE SuspectStart(i, s)
    <2> DEFINE e == [nodeMap[i][s.node] EXCEPT !.inc = s.inc, !.st = "suspect"]
    <2>1. e.inc = s.inc
      BY <1>2 DEF Entry
    <2>2. SetEntry(i, s.node, e) /\ Queue(i, s) /\ CounterUnchanged
      BY <1>5 DEF SuspectStart
    <2> HIDE DEF e
    <2>3. ViewsOwned'
      BY <1>1, <2>1, <2>2, OwnedEntry
    <2> QED
      BY <2>2, <2>3, OwnedQueue, OwnedCounter DEF Owned
  <1> QED
    BY <1>3, <1>4, <1>5 DEF suspectNode

\* deadNode, for a message within what its node has issued.
LEMMA OwnedDead ==
    ASSUME HandlerTyped, LoadsTyped, Owned, NEW i \in Members, NEW d \in DeadMsgs,
           d.inc <= issued[d.node], deadNode(i, d)
    PROVE  Owned' /\ IssuedGrows
  <1>1. d.node \in Members /\ d.inc \in Nat
    BY DEF DeadMsgs
  <1>2. nodeMap[i][d.node] \in Entry /\ nodeMap[i][i] \in Entry
    BY <1>1 DEF HandlerTyped
  <1>3. CASE DeadSelfRefute(i, d)
    <2>1. Loaded(i) \in SUBSET (0..incarnation[i])
      BY DEF LoadsTyped
    <2> QED
      BY <1>1, <1>2, <1>3, <2>1, OwnedRefute DEF DeadSelfRefute
  <1>4. CASE DeadUpdate(i, d)
    <2> DEFINE e == [nodeMap[i][d.node] EXCEPT !.inc = d.inc,
                         !.st = IF d.node = d.from THEN "left" ELSE "dead"]
    <2>1. e.inc = d.inc
      BY <1>2 DEF Entry
    <2>2. SetEntry(i, d.node, e) /\ Queue(i, d) /\ CounterUnchanged
      BY <1>4 DEF DeadUpdate
    <2> HIDE DEF e
    <2>3. ViewsOwned'
      BY <1>1, <2>1, <2>2, OwnedEntry
    <2> QED
      BY <2>2, <2>3, OwnedQueue, OwnedCounter DEF Owned
  <1>5. CASE DeadRepeat(i, d)
    <2>1. CounterUnchanged /\ UNCHANGED <<nodeMap, sent>>
      BY <1>5 DEF DeadRepeat
    <2>2. ViewsOwned' /\ SentOwned'
      BY <2>1 DEF Owned, ViewsOwned, SentOwned, CounterUnchanged
    <2> QED
      BY <2>1, <2>2, OwnedCounter DEF Owned
  <1> QED
    BY <1>3, <1>4, <1>5 DEF deadNode

\* The numbers that the main and the probe thread hold outside nodeMutex.
PendingOwned ==
    \A i \in Members :
        /\ main[i].inc <= issued[i]
        /\ \A p \in probing[i] : p.inc <= issued[p.node]

OInv == TInv /\ Owned /\ PendingOwned

\* A step keeps the pending numbers bounded if it only ends calls and probes.
LEMMA PendingKept ==
    ASSUME OInv, IssuedGrows, issued' \in [Members -> Nat],
           \/ main' = main
           \/ \E i \in Members : main' = [main EXCEPT ![i] = Idle],
           \/ probing' = probing
           \/ \E i \in Members : probing' = [probing EXCEPT ![i] = {}]
    PROVE  PendingOwned'
  <1> SUFFICES ASSUME NEW k \in Members
               PROVE  /\ main'[k].inc <= issued'[k]
                      /\ \A p \in probing'[k] : p.inc <= issued'[p.node]
    BY DEF PendingOwned
  <1>0. \A j \in Members : issued[j] \in Nat /\ issued'[j] \in Nat /\ issued[j] <= issued'[j]
    BY DEF OInv, TInv, TypeOK, IssuedGrows
  <1>1. main'[k] = main[k] \/ main'[k] = Idle
    BY DEF OInv, TInv, TypeOK
  <1>2. main[k].inc \in Nat /\ main[k].inc <= issued[k]
    BY DEF OInv, TInv, TypeOK, Calls, PendingOwned
  <1>3. main'[k].inc <= issued'[k]
    BY <1>0, <1>1, <1>2 DEF Idle
  <1>4. ASSUME NEW p \in probing'[k]
        PROVE  p.inc <= issued'[p.node]
    <2>1. p \in probing[k]
      BY DEF OInv, TInv, TypeOK
    <2>2. p.inc \in Nat /\ p.node \in Members /\ p.inc <= issued[p.node]
      BY <2>1 DEF OInv, TInv, TypeOK, PendingOwned
    <2> QED
      BY <1>0, <2>2
  <1> QED
    BY <1>3, <1>4

\* A step without a handler keeps what handlers keep.
LEMMA OwnedNoHandler ==
    ASSUME OInv, HandlerUnchanged
    PROVE  Owned' /\ IssuedGrows
  <1>1. issued' = issued /\ incarnation' = incarnation /\ nodeMap' = nodeMap /\ sent' = sent
    BY DEF HandlerUnchanged
  <1> QED
    BY <1>1 DEF OInv, TInv, TypeOK, Owned, CounterOwned, ViewsOwned, SentOwned, IssuedGrows

\* Messages from the network are within what their nodes have issued.
LEMMA ReceivedOwned ==
    ASSUME OInv, NEW i \in Members, NEW k \in Members
    PROVE  \A m \in Alives(k) \cup Deads(k) \cup Suspicions(i, k) : m.inc <= issued[m.node]
  BY DEF OInv, Owned, SentOwned, Alives, Deads, Suspicions, SuspectMsg

\* IncarnationOwned is inductive together with the type invariant.
LEMMA OInvInductive == OInv /\ [Next]_vars => OInv'
  <1> SUFFICES ASSUME OInv, [Next]_vars PROVE OInv'
    OBVIOUS
  <1>a. TInv /\ TInv' /\ HandlerTyped /\ LoadsTyped /\ Owned
    BY TInvInductive, HandlerPre DEF OInv
  <1>b. issued' \in [Members -> Nat]
    BY <1>a DEF TInv, TypeOK
  <1> SUFFICES Owned' /\ PendingOwned'
    BY <1>a DEF OInv
  <1>0. CASE UNCHANGED vars
    BY <1>0 DEF vars, OInv, Owned, CounterOwned, ViewsOwned, SentOwned, PendingOwned
  <1>1. ASSUME NEW i \in Members, NEW a \in Addrs, Start(i, a)
        PROVE  Owned' /\ PendingOwned'
    <2>1. HandlerUnchanged /\ UNCHANGED probing
      BY <1>1 DEF Start
    <2>2. \A k \in Members : main'[k].inc = main[k].inc \/ main'[k].inc = 0
      BY <1>1, <1>a DEF Start, TInv, TypeOK
    <2>3. PendingOwned'
      BY <1>b, <2>1, <2>2 DEF OInv, PendingOwned, HandlerUnchanged
    <2> QED
      BY <2>1, <2>3, OwnedNoHandler
  <1>2. ASSUME NEW i \in Members, NextIncAdd(i)
        PROVE  Owned' /\ PendingOwned'
    <2>1. /\ incarnation' = [incarnation EXCEPT ![i] = incarnation[i] + 1]
          /\ issued' = [issued EXCEPT ![i] =
                            IF incarnation[i] + 1 > @ THEN incarnation[i] + 1 ELSE @]
          /\ UNCHANGED <<nodeMap, sent, probing>>
          /\ main' = [main EXCEPT ![i].pc = "load"]
      BY <1>2 DEF NextIncAdd, Advance, MainUnchanged
    <2>2. \A j \in Members : issued[j] \in Nat /\ issued'[j] \in Nat /\ issued[j] <= issued'[j]
      BY <1>a, <2>1 DEF TInv, TypeOK
    <2>3. CounterOwned'
      BY <1>a, <2>1, <2>2 DEF TInv, TypeOK, Owned, CounterOwned
    <2>4. ASSUME NEW k \in Members, NEW j \in Members
          PROVE  nodeMap'[k][j].inc <= issued'[j]
      <3>1. nodeMap[k][j].inc \in Nat /\ nodeMap[k][j].inc <= issued[j]
        BY <1>a DEF TInv, TypeOK, Entry, Owned, ViewsOwned
      <3> QED
        BY <2>1, <2>2, <3>1
    <2>5. ASSUME NEW k \in Members, NEW m \in sent'[k]
          PROVE  m.inc <= issued'[m.node]
      <3>1. m.inc \in Nat /\ m.node \in Members /\ m.inc <= issued[m.node]
        BY <1>a, <2>1 DEF TInv, TypeOK, Message, Owned, SentOwned
      <3> QED
        BY <2>2, <3>1
    <2>6. ASSUME NEW k \in Members
          PROVE  /\ main'[k].inc <= issued'[k]
                 /\ \A p \in probing'[k] : p.inc <= issued'[p.node]
      <3>1. main'[k].inc = main[k].inc
        BY <1>a, <2>1 DEF TInv, TypeOK, Calls
      <3>2. main[k].inc \in Nat /\ main[k].inc <= issued[k]
        BY <1>a DEF TInv, TypeOK, Calls, OInv, PendingOwned
      <3>3. ASSUME NEW p \in probing[k]
            PROVE  p.inc <= issued'[p.node]
        <4>1. p.inc \in Nat /\ p.node \in Members /\ p.inc <= issued[p.node]
          BY <1>a DEF TInv, TypeOK, OInv, PendingOwned
        <4> QED
          BY <2>2, <4>1
      <3> QED
        BY <2>1, <2>2, <3>1, <3>2, <3>3
    <2> QED
      BY <2>3, <2>4, <2>5, <2>6 DEF Owned, ViewsOwned, SentOwned, PendingOwned
  <1>3. ASSUME NEW i \in Members, NextIncLoad(i)
        PROVE  Owned' /\ PendingOwned'
    <2>1. HandlerUnchanged /\ UNCHANGED probing
      BY <1>3 DEF NextIncLoad, MainUnchanged
    <2>2. \A k \in Members : main'[k].inc = main[k].inc \/ main'[k].inc = incarnation[k]
      BY <1>3, <1>a DEF NextIncLoad, TInv, TypeOK
    <2>3. PendingOwned'
      BY <1>a, <2>1, <2>2 DEF OInv, PendingOwned, HandlerUnchanged, Owned, CounterOwned
    <2> QED
      BY <2>1, <2>3, OwnedNoHandler
  <1>4. ASSUME NEW i \in Members, SetAlive(i)
        PROVE  Owned' /\ PendingOwned'
    <2> DEFINE a == AliveMsg(i, main[i].inc, addr[i])
    <2>1. a \in AliveMsgs /\ a.inc <= issued[a.node]
      BY <1>4, <1>a DEF SetAlive, Calling, AliveMsg, AliveMsgs, TInv, TypeOK, Positive,
          Calls, OInv, PendingOwned
    <2>2. AliveUpdate(i, a) \/ HandlerUnchanged
      BY <1>4 DEF SetAlive
    <2> HIDE DEF a
    <2>3. Owned' /\ IssuedGrows
      BY <1>a, <2>1, <2>2, OwnedAlive, OwnedNoHandler
    <2> QED
      BY <1>4, <1>b, <2>3, PendingKept DEF SetAlive, Return, MainUnchanged
  <1>5. ASSUME NEW i \in Members, UpdateNodeBegin(i)
        PROVE  Owned' /\ PendingOwned'
    <2>1. HandlerUnchanged /\ UNCHANGED probing
      BY <1>5 DEF UpdateNodeBegin, MainUnchanged
    <2>2. \A k \in Members : main'[k].inc = main[k].inc \/ main'[k].inc = 0
      BY <1>5, <1>a DEF UpdateNodeBegin, TInv, TypeOK
    <2>3. PendingOwned'
      BY <1>b, <2>1, <2>2 DEF OInv, PendingOwned, HandlerUnchanged
    <2> QED
      BY <2>1, <2>3, OwnedNoHandler
  <1>6. ASSUME NEW i \in Members, UpdateNode(i)
        PROVE  Owned' /\ PendingOwned'
    <2> DEFINE a == AliveMsg(i, main[i].inc, nodeMap[i][i].addr)
    <2>0. nodeMap[i][i] \in Entry
      BY <1>a DEF TInv, TypeOK
    <2>1. a \in AliveMsgs /\ a.inc <= issued[a.node]
      BY <1>6, <1>a, <2>0 DEF UpdateNode, Calling, AliveMsg, AliveMsgs, TInv, TypeOK,
          Positive, Calls, Entry, OInv, PendingOwned
    <2>2. AliveSelf(i, a, {incarnation[i]}) \/ HandlerUnchanged
      BY <1>6 DEF UpdateNode
    <2> HIDE DEF a
    <2>3. {incarnation[i]} \in SUBSET (0..incarnation[i])
      BY <1>a DEF LoadsTyped
    <2>4. Owned' /\ IssuedGrows
      BY <1>a, <2>1, <2>2, <2>3, OwnedAlive, OwnedNoHandler
    <2> QED
      BY <1>6, <1>b, <2>4, PendingKept DEF UpdateNode, Return, MainUnchanged
  <1>7. ASSUME NEW i \in Members, LeaveBegin(i)
        PROVE  Owned' /\ PendingOwned'
    <2>1. HandlerUnchanged /\ UNCHANGED probing
      BY <1>7 DEF LeaveBegin, MainUnchanged
    <2>2. \A k \in Members : main'[k].inc = main[k].inc \/ main'[k].inc = nodeMap[k][k].inc
      BY <1>7, <1>a DEF LeaveBegin, TInv, TypeOK
    <2>3. PendingOwned'
      BY <1>a, <2>1, <2>2 DEF OInv, PendingOwned, HandlerUnchanged, Owned, ViewsOwned
    <2> QED
      BY <2>1, <2>3, OwnedNoHandler
  <1>8. ASSUME NEW i \in Members, Leave(i)
        PROVE  Owned' /\ PendingOwned'
    <2> DEFINE d == DeadMsg(i, main[i].inc, i)
    <2>1. d \in DeadMsgs /\ d.inc <= issued[d.node]
      BY <1>a DEF DeadMsg, DeadMsgs, TInv, TypeOK, Calls, OInv, PendingOwned
    <2>2. deadNode(i, d) \/ HandlerUnchanged
      BY <1>8 DEF Leave
    <2> HIDE DEF d
    <2>3. Owned' /\ IssuedGrows
      BY <1>a, <2>1, <2>2, OwnedDead, OwnedNoHandler
    <2> QED
      BY <1>8, <1>b, <2>3, PendingKept DEF Leave, Return, MainUnchanged
  <1>9. ASSUME NEW i \in Members, NEW j \in Members, ProbeStart(i, j)
        PROVE  Owned' /\ PendingOwned'
    <2> DEFINE m == DirectMsg(j, nodeMap[i][j].inc, i)
    <2>1. /\ CounterUnchanged
          /\ UNCHANGED <<nodeMap, main>>
          /\ probing' = [probing EXCEPT ![i] = {[node |-> j, inc |-> nodeMap[i][j].inc]}]
          /\ UNCHANGED sent \/ Queue(i, m)
      BY <1>9 DEF ProbeStart, ProbeUnchanged, CounterUnchanged
    <2>2. nodeMap[i][j].inc <= issued[j]
      BY <1>a DEF Owned, ViewsOwned
    <2>3. m.inc <= issued[m.node]
      BY <2>2 DEF DirectMsg
    <2> HIDE DEF m
    <2>4. ViewsOwned' /\ (UNCHANGED sent => SentOwned')
      BY <1>a, <2>1 DEF Owned, ViewsOwned, SentOwned, CounterUnchanged
    <2>5. Owned'
      BY <1>a, <2>1, <2>3, <2>4, OwnedCounter, OwnedQueue DEF Owned
    <2>6. PendingOwned'
      BY <1>a, <2>1, <2>2 DEF OInv, PendingOwned, CounterUnchanged, TInv, TypeOK
    <2> QED
      BY <2>5, <2>6
  <1>10. ASSUME NEW i \in Members, ProbeAck(i)
         PROVE  Owned' /\ PendingOwned'
    BY <1>10, <1>b, OwnedNoHandler, PendingKept DEF ProbeAck, ProbeUnchanged
  <1>11. ASSUME NEW i \in Members, ProbeFail(i)
         PROVE  Owned' /\ PendingOwned'
    <2>1. PICK p \in probing[i] : suspectNode(i, SuspectMsg(p.node, p.inc, i))
                                  \/ HandlerUnchanged
      BY <1>11 DEF ProbeFail
    <2> DEFINE s == SuspectMsg(p.node, p.inc, i)
    <2>2. s \in SuspectMsgs /\ s.inc <= issued[s.node]
      BY <1>a, <2>1 DEF SuspectMsg, SuspectMsgs, TInv, TypeOK, OInv, PendingOwned
    <2>3. suspectNode(i, s) \/ HandlerUnchanged
      BY <2>1
    <2> HIDE DEF s
    <2>4. Owned' /\ IssuedGrows
      BY <1>a, <2>2, <2>3, OwnedSuspect, OwnedNoHandler
    <2> QED
      BY <1>11, <1>b, <2>4, PendingKept DEF ProbeFail, ProbeUnchanged
  <1>12. ASSUME NEW i \in Members, NEW k \in Members,
                HandleAlive(i, k) \/ HandleSuspect(i, k) \/ HandleDead(i, k)
         PROVE  Owned' /\ PendingOwned'
    <2>1. /\ Alives(k) \subseteq AliveMsgs
          /\ Suspicions(i, k) \subseteq SuspectMsgs
          /\ Deads(k) \subseteq DeadMsgs
      BY <1>a, ReceivedTypes DEF TInv, TypeOK
    <2>2. \A m \in Alives(k) \cup Deads(k) \cup Suspicions(i, k) : m.inc <= issued[m.node]
      BY ReceivedOwned
    <2>3. HandleAlive(i, k) => Owned' /\ IssuedGrows
      <3>1. Loaded(i) \in SUBSET (0..incarnation[i])
        BY <1>a DEF LoadsTyped
      <3>2. ASSUME NEW a \in Alives(k), aliveNode(i, a) PROVE Owned' /\ IssuedGrows
        BY <1>a, <2>1, <2>2, <3>1, <3>2, OwnedAlive DEF aliveNode
      <3> QED
        BY <3>2 DEF HandleAlive
    <2>4. HandleSuspect(i, k) => Owned' /\ IssuedGrows
      BY <1>a, <2>1, <2>2, OwnedSuspect DEF HandleSuspect
    <2>5. HandleDead(i, k) => Owned' /\ IssuedGrows
      BY <1>a, <2>1, <2>2, OwnedDead DEF HandleDead
    <2>6. Owned' /\ IssuedGrows
      BY <1>12, <2>3, <2>4, <2>5
    <2> QED
      BY <1>12, <1>b, <2>6, PendingKept
      DEF HandleAlive, HandleSuspect, HandleDead, NetUnchanged
  <1>13. ASSUME NEW i \in Members, SendLocalState(i)
         PROVE  Owned' /\ PendingOwned'
    <2>1. /\ CounterUnchanged
          /\ UNCHANGED <<nodeMap, main, probing>>
          /\ sent' = [sent EXCEPT ![i] = @ \cup
                 {StateMsg(j, nodeMap[i][j]) : j \in {n \in Members : Known(i, n)}}]
      BY <1>13 DEF SendLocalState, NetUnchanged, CounterUnchanged
    <2>2. \A j \in Members :
              /\ StateMsg(j, nodeMap[i][j]).inc = nodeMap[i][j].inc
              /\ StateMsg(j, nodeMap[i][j]).node = j
      BY DEF StateMsg, AliveMsg, DeadMsg, SuspectMsg
    <2>3. ASSUME NEW k \in Members, NEW m \in sent'[k]
          PROVE  m.inc <= issued'[m.node]
      <3>1. issued' = issued
        BY <2>1 DEF CounterUnchanged
      <3>2. m \in sent[k] \/ \E j \in Members : m = StateMsg(j, nodeMap[i][j])
        BY <1>a, <2>1 DEF TInv, TypeOK
      <3> QED
        BY <1>a, <2>2, <3>1, <3>2 DEF Owned, SentOwned, ViewsOwned
    <2>4. ViewsOwned'
      BY <1>a, <2>1 DEF Owned, ViewsOwned, CounterUnchanged
    <2>5. Owned' /\ IssuedGrows
      BY <1>a, <2>1, <2>3, <2>4, OwnedCounter DEF Owned, SentOwned
    <2> QED
      BY <1>b, <2>1, <2>5, PendingKept
  <1>14. ASSUME NEW i \in Members, Exit(i)
         PROVE  Owned' /\ PendingOwned'
    <2>1. UNCHANGED <<sent, issued>>
      BY <1>14 DEF Exit
    <2>2. CounterOwned'
      BY <1>14, <1>a DEF Exit, Owned, CounterOwned, TInv, TypeOK
    <2>3. \A k, j \in Members : nodeMap'[k][j].inc = nodeMap[k][j].inc \/ nodeMap'[k][j].inc = 0
      BY <1>14, <1>a DEF Exit, TInv, TypeOK, NoEntry
    <2>4. ViewsOwned' /\ SentOwned'
      BY <1>a, <1>b, <2>1, <2>3 DEF Owned, ViewsOwned, SentOwned
    <2>5. IssuedGrows
      BY <1>b, <2>1 DEF IssuedGrows
    <2> QED
      BY <1>14, <1>b, <2>2, <2>4, <2>5, PendingKept DEF Exit, Owned
  <1> QED
    BY <1>0, <1>1, <1>2, <1>3, <1>4, <1>5, <1>6, <1>7, <1>8, <1>9, <1>10, <1>11,
       <1>12, <1>13, <1>14
    DEF Next, SuspicionTimeout, Crash

\* No view, message, probe copy or pending call ever carries an incarnation
\* number that its node has not issued: nextIncarnation and skipIncarnation on
\* the node itself are the only sources, however messages are lost, repeated or
\* reordered and however often processes crash and restart.
THEOREM IncarnationsAreOwned == Spec => []IncarnationOwned
  <1>1. Init => OInv
    <2>1. Init => TInv
      BY ConstantTypes, AddrsNonempty
      DEF Init, TInv, TypeOK, Positive, NoEntry, NoTimer, Idle, Entry, Calls
    <2>2. Init => Owned /\ PendingOwned
      BY DEF Init, Owned, CounterOwned, ViewsOwned, SentOwned, PendingOwned, NoEntry, Idle
    <2> QED
      BY <2>1, <2>2 DEF OInv
  <1>2. OInv => IncarnationOwned
    BY DEF OInv, Owned, CounterOwned, ViewsOwned, SentOwned, PendingOwned, IncarnationOwned
  <1> QED
    BY <1>1, <1>2, OInvInductive, PTL DEF Spec
=============================================================================
