------------------------ MODULE MembershipRefinement ------------------------
(***************************************************************************)
(* Membership implements Beliefs, for every set of members, addresses and  *)
(* every bound.                                                            *)
(***************************************************************************)
EXTENDS MembershipSafety

\* Nobody stores StateDead for another member: only deadNode could, and every
\* dead message comes from the node it is about.
OthersNotDead == \A i, j \in Members : i # j => nodeMap[i][j].st # "dead"

\* What is not in the map has the number of a fresh entry.
UnknownIsNew == \A i, j \in Members : nodeMap[i][j].st = "unknown" => nodeMap[i][j].inc = 0

RInv == OInv /\ AInv /\ TimerSafe /\ OthersNotDead /\ UnknownIsNew

\* What a step of member i may do to the numbers issued.
IssuedBy(i) ==
    \/ UNCHANGED issued
    \/ \E n \in (issued[i] + 1)..MaxInc[i] : issued' = [issued EXCEPT ![i] = n]

\* EXCEPT on an entry, written out.
LEMMA EntryRecord ==
    ASSUME NEW o \in Entry, NEW n \in Nat, NEW s \in NodeStates
    PROVE  /\ [o EXCEPT !.inc = n] = [inc |-> n, st |-> o.st, addr |-> o.addr]
           /\ [o EXCEPT !.inc = n, !.st = s] = [inc |-> n, st |-> s, addr |-> o.addr]
  <1> DEFINE e == [o EXCEPT !.inc = n]
             f == [o EXCEPT !.inc = n, !.st = s]
  <1>1. \A x \in Entry : x = [inc |-> x.inc, st |-> x.st, addr |-> x.addr]
    BY DEF Entry
  <1>2. e \in Entry /\ e.inc = n /\ e.st = o.st /\ e.addr = o.addr
    BY DEF Entry
  <1>3. f \in Entry /\ f.inc = n /\ f.st = s /\ f.addr = o.addr
    BY DEF Entry
  <1>4. e = [inc |-> e.inc, st |-> e.st, addr |-> e.addr]
    BY <1>1, <1>2
  <1>5. f = [inc |-> f.inc, st |-> f.st, addr |-> f.addr]
    BY <1>1, <1>3
  <1> HIDE DEF e, f
  <1>6. e = [inc |-> n, st |-> o.st, addr |-> o.addr]
    BY <1>2, <1>4
  <1>7. f = [inc |-> n, st |-> s, addr |-> o.addr]
    BY <1>3, <1>5
  <1> QED
    BY <1>6, <1>7 DEF e, f

\* The counter and the history of its highest value move together.
LEMMA AdvanceIssued ==
    ASSUME HandlerTyped, NEW i \in Members, NEW n \in Nat, Advance(i, n)
    PROVE  IssuedBy(i)
  <1>1. issued \in [Members -> Nat] /\ MaxInc[i] \in Nat
    BY BoundsAssumption DEF HandlerTyped
  <1>2. CASE n > issued[i]
    <2>1. issued' = [issued EXCEPT ![i] = n] /\ n <= MaxInc[i]
      BY <1>1, <1>2 DEF Advance
    <2>2. n \in (issued[i] + 1)..MaxInc[i]
      BY <1>1, <1>2, <2>1
    <2> QED
      BY <2>1, <2>2 DEF IssuedBy
  <1>3. CASE ~(n > issued[i])
    <2>1. issued' = [issued EXCEPT ![i] = issued[i]]
      BY <1>1, <1>3 DEF Advance
    <2> QED
      BY <1>1, <2>1 DEF IssuedBy
  <1> QED
    BY <1>2, <1>3

\* refute outbids the accusation, whichever value of the counter it has read.
LEMMA RefuteOutbids ==
    ASSUME HandlerTyped, NEW i \in Members, NEW me \in Entry, NEW accused \in Nat,
           NEW loads \in SUBSET (0..incarnation[i]), Refute(i, me, accused, loads)
    PROVE  /\ IssuedBy(i)
           /\ \E n \in Nat : n > accused /\ SetEntry(i, i, [me EXCEPT !.inc = n])
  <1> DEFINE C(old) == IF accused >= old THEN incarnation[i] + (accused - old + 1)
                       ELSE incarnation[i]
             I(old) == IF accused >= old THEN C(old) ELSE old
  <1>1. PICK old \in loads :
            /\ Advance(i, C(old))
            /\ SetEntry(i, i, [me EXCEPT !.inc = I(old)])
    BY DEF Refute
  <1>2. old \in Nat /\ incarnation[i] \in Nat /\ old <= incarnation[i]
    BY DEF HandlerTyped
  <1>3. C(old) \in Nat /\ I(old) \in Nat /\ I(old) > accused
    BY <1>2
  <1> HIDE DEF C, I
  <1> QED
    BY <1>1, <1>3, AdvanceIssued

\* A new entry of a member about itself is a step of Beliefs.
LEMMA OwnEntry ==
    ASSUME HandlerTyped, OInv', AInv', announced' = announced,
           NEW i \in Members, IssuedBy(i),
           NEW n \in Nat, n >= nodeMap[i][i].inc,
           NEW s \in {"alive", "dead", "left"}, NEW a \in Addrs,
           SetEntry(i, i, [inc |-> n, st |-> s, addr |-> a])
    PROVE  Abs!Own(i)
  <1> DEFINE e == [inc |-> n, st |-> s, addr |-> a]
  <1>1. nodeMap'[i][i] = e
    BY OneEntry
  <1>2. n <= issued'[i] /\ issued'[i] \in Nat
    BY <1>1 DEF OInv, Owned, ViewsOwned, TInv, TypeOK
  <1>3. s = "left" => n \in announced[i]
    BY <1>1 DEF AInv, EntryAnnounced
  <1>4. nodeMap[i][i] \in Entry /\ nodeMap[i][i].inc \in Nat
    BY DEF HandlerTyped, Entry
  <1>5. n \in nodeMap[i][i].inc..issued'[i]
    BY <1>2, <1>4
  <1> QED
    BY <1>3, <1>5 DEF Abs!Own, Abs!View, SetEntry, IssuedBy

\* refute is a step of Beliefs.
LEMMA RefuteOwn ==
    ASSUME HandlerTyped, OInv', AInv', announced' = announced,
           NEW i \in Members, NEW me \in Entry, me.st \in {"alive", "dead", "left"},
           NEW accused \in Nat, accused >= nodeMap[i][i].inc,
           NEW loads \in SUBSET (0..incarnation[i]), Refute(i, me, accused, loads)
    PROVE  Abs!Own(i)
  <1>1. PICK n \in Nat : n > accused /\ SetEntry(i, i, [me EXCEPT !.inc = n])
    BY RefuteOutbids
  <1>2. IssuedBy(i)
    BY RefuteOutbids
  <1>3. SetEntry(i, i, [inc |-> n, st |-> me.st, addr |-> me.addr])
    <2>1. "alive" \in NodeStates
      BY DEF NodeStates
    <2>2. [me EXCEPT !.inc = n] = [inc |-> n, st |-> me.st, addr |-> me.addr]
      BY <2>1, EntryRecord
    <2> QED
      BY <1>1, <2>2
  <1>4. nodeMap[i][i] \in Entry /\ nodeMap[i][i].inc \in Nat /\ me.addr \in Addrs
    BY DEF HandlerTyped, Entry
  <1>5. n >= nodeMap[i][i].inc
    BY <1>1, <1>4
  <1> QED
    BY <1>2, <1>3, <1>4, <1>5, OwnEntry

-----------------------------------------------------------------------------
(* The handlers. *)

\* What a step of a handler of member i maps to.
Mapped(i) ==
    \/ UNCHANGED <<nodeMap, issued>>
    \/ Abs!Own(i)
    \/ \E j \in Members : Abs!BelieveAlive(i, j) \/ Abs!Suspect(i, j) \/ Abs!BelieveLeft(i, j)

\* What a member knows of itself is alive, dead or left when it is known at all.
LEMMA SelfStates ==
    ASSUME RInv, NEW i \in Members
    PROVE  /\ nodeMap[i][i] \in Entry /\ nodeMap[i][i].inc \in Nat
           /\ Known(i, i) => nodeMap[i][i].st \in {"alive", "dead", "left"}
           /\ ~Known(i, i) => nodeMap[i][i].inc = 0
  <1>1. nodeMap[i][i] \in Entry
    BY DEF RInv, OInv, TInv, TypeOK
  <1>2. nodeMap[i][i].st # "suspect"
    BY DEF RInv, TimerSafe, SelfNotSuspect
  <1> QED
    BY <1>1, <1>2 DEF Known, Entry, NodeStates, RInv, UnknownIsNew

\* aliveNode about ourselves.
LEMMA AliveSelfMaps ==
    ASSUME RInv, OInv', AInv', announced' = announced, NEW i \in Members,
           NEW a \in AliveMsgs, NEW loads \in SUBSET (0..incarnation[i]),
           AliveSelf(i, a, loads)
    PROVE  Mapped(i)
  <1>0. HandlerTyped /\ a.inc \in Nat \ {0} /\ a.node = i
    BY HandlerPre DEF RInv, OInv, AliveMsgs, AliveSelf
  <1>1. Lookup(i, a) \in Entry /\ Lookup(i, a).inc \in Nat
    BY <1>0, LookupType DEF Entry
  <1>2. a.inc >= Lookup(i, a).inc
    BY <1>0, <1>1 DEF AliveSelf, AliveAccepted, OldAlive
  <1>3. Lookup(i, a).inc = nodeMap[i][i].inc
    BY <1>0, SelfStates DEF Lookup
  <1>4. Lookup(i, a).st \in {"alive", "dead", "left"}
    BY <1>0, SelfStates DEF Lookup
  <1>5. CASE a.inc = Lookup(i, a).inc
    <2>1. Known(i, i)
      BY <1>0, <1>3, <1>5, SelfStates
    <2>2. nodeMap' = [nodeMap EXCEPT ![i][i] = nodeMap[i][i]] /\ issued' = issued
      BY <1>0, <1>5, <2>1 DEF AliveSelf, SetEntry, Lookup, CounterUnchanged
    <2>3. nodeMap' = nodeMap
      BY <1>0, <2>2 DEF HandlerTyped
    <2> QED
      BY <2>2, <2>3 DEF Mapped
  <1>6. CASE a.inc # Lookup(i, a).inc
    <2>1. Refute(i, Lookup(i, a), a.inc, loads)
      BY <1>6 DEF AliveSelf
    <2> QED
      BY <1>0, <1>1, <1>2, <1>3, <1>4, <2>1, RefuteOwn DEF Mapped
  <1> QED
    BY <1>5, <1>6

\* aliveNode about another member, and the one of setAlive.
LEMMA AliveUpdateMaps ==
    ASSUME RInv, OInv', AInv', announced' = announced, NEW i \in Members,
           NEW a \in AliveMsgs, AliveUpdate(i, a)
    PROVE  Mapped(i)
  <1> DEFINE j == a.node
             e == [inc |-> a.inc, st |-> "alive", addr |-> a.addr]
             o == nodeMap[i][j]
  <1>0. HandlerTyped /\ a.inc \in Nat \ {0} /\ j \in Members /\ a.addr \in Addrs
    BY HandlerPre DEF RInv, OInv, AliveMsgs
  <1>1. SetEntry(i, j, e) /\ issued' = issued /\ AliveAccepted(i, a)
    BY DEF AliveUpdate, CounterUnchanged
  <1>2. o \in Entry /\ o.inc \in Nat
    BY <1>0 DEF HandlerTyped, Entry
  <1>3. CASE j = i
    <2>1. Lookup(i, a).inc = o.inc
      BY <1>3, SelfStates DEF Lookup
    <2>2. a.inc >= o.inc
      BY <1>0, <1>1, <1>2, <1>3, <2>1 DEF AliveAccepted, OldAlive
    <2>3. IssuedBy(i)
      BY <1>1 DEF IssuedBy
    <2> QED
      BY <1>0, <1>1, <1>3, <2>2, <2>3, OwnEntry DEF Mapped
  <1>4. CASE j # i
    <2>1. nodeMap'[i][j] = e
      BY <1>0, <1>1, OneEntry
    <2>2. a.inc <= issued[j] /\ issued[j] \in Nat
      BY <1>0, <1>1, <2>1 DEF OInv, Owned, ViewsOwned, TInv, TypeOK
    <2>3. a.inc \in 1..issued[j]
      BY <1>0, <2>2
    <2>4. \/ o.st = "unknown"
          \/ a.inc > o.inc /\ a.addr = o.addr
          \/ o.st = "left" /\ a.addr # o.addr
      <3>1. o.st # "dead"
        BY <1>0, <1>4 DEF RInv, OthersNotDead
      <3>2. Known(i, j) => Lookup(i, a) = o
        BY DEF Lookup
      <3> QED
        BY <1>0, <1>1, <1>2, <1>4, <3>1, <3>2
        DEF AliveAccepted, OldAlive, Moved, Known
    <2>5. Abs!Believe(i, j, e)
      BY <1>1, <1>4 DEF Abs!Believe, SetEntry
    <2>6. Abs!BelieveAlive(i, j)
      BY <1>0, <2>3, <2>4, <2>5 DEF Abs!BelieveAlive, Abs!View
    <2> QED
      BY <1>0, <2>6 DEF Mapped
  <1> QED
    BY <1>3, <1>4

\* suspectNode.
LEMMA SuspectMaps ==
    ASSUME RInv, OInv', AInv', announced' = announced, NEW i \in Members,
           NEW s \in SuspectMsgs, suspectNode(i, s)
    PROVE  Mapped(i)
  <1> DEFINE j == s.node
             o == nodeMap[i][j]
  <1>0. HandlerTyped /\ LoadsTyped /\ s.inc \in Nat /\ j \in Members
    BY HandlerPre DEF RInv, OInv, SuspectMsgs
  <1>1. o \in Entry /\ o.inc \in Nat /\ o.addr \in Addrs
    BY <1>0 DEF HandlerTyped, Entry
  <1>2. CASE SuspectConfirm(i, s)
    BY <1>2 DEF SuspectConfirm, CounterUnchanged, Mapped
  <1>3. CASE SuspectSelf(i, s)
    <2>1. /\ j = i /\ o.st = "alive" /\ s.inc >= o.inc
          /\ Refute(i, nodeMap[i][i], s.inc, Loaded(i))
      BY <1>3 DEF SuspectSelf, Fresh
    <2>2. Loaded(i) \in SUBSET (0..incarnation[i])
      BY <1>0 DEF LoadsTyped
    <2> QED
      BY <1>0, <1>1, <2>1, <2>2, RefuteOwn DEF Mapped
  <1>4. CASE SuspectStart(i, s)
    <2> DEFINE e == [inc |-> s.inc, st |-> "suspect", addr |-> o.addr]
    <2>1. /\ j # i /\ o.st = "alive" /\ s.inc >= o.inc /\ issued' = issued
          /\ SetEntry(i, j, [o EXCEPT !.inc = s.inc, !.st = "suspect"])
      BY <1>4 DEF SuspectStart, Fresh, CounterUnchanged
    <2>2. SetEntry(i, j, e)
      <3>1. "suspect" \in NodeStates
        BY DEF NodeStates
      <3>2. [o EXCEPT !.inc = s.inc, !.st = "suspect"] = e
        BY <1>0, <1>1, <3>1, EntryRecord
      <3> QED
        BY <2>1, <3>2
    <2>3. nodeMap'[i][j] = e
      BY <1>0, <2>2, OneEntry
    <2>4. s.inc <= issued[j] /\ issued[j] \in Nat
      BY <1>0, <2>1, <2>3 DEF OInv, Owned, ViewsOwned, TInv, TypeOK
    <2>5. s.inc \in o.inc..issued[j]
      BY <1>0, <1>1, <2>1, <2>4
    <2>6. Abs!Believe(i, j, e)
      BY <2>1, <2>2 DEF Abs!Believe, SetEntry
    <2>7. Abs!Suspect(i, j)
      BY <2>1, <2>5, <2>6 DEF Abs!Suspect, Abs!View
    <2> QED
      BY <1>0, <2>7 DEF Mapped
  <1> QED
    BY <1>2, <1>3, <1>4 DEF suspectNode

\* deadNode: what it is told about another member that member has announced.
LEMMA DeadMaps ==
    ASSUME RInv, OInv', AInv', announced' = announced, NEW i \in Members,
           NEW d \in DeadMsgs, deadNode(i, d), DeadSource(i, d)
    PROVE  Mapped(i)
  <1> DEFINE j == d.node
             o == nodeMap[i][j]
  <1>0. HandlerTyped /\ LoadsTyped /\ d.inc \in Nat /\ j \in Members
    BY HandlerPre DEF RInv, OInv, DeadMsgs
  <1>1. o \in Entry /\ o.inc \in Nat /\ o.addr \in Addrs
    BY <1>0 DEF HandlerTyped, Entry
  <1>2. CASE DeadRepeat(i, d)
    BY <1>2 DEF DeadRepeat, CounterUnchanged, Mapped
  <1>3. CASE DeadSelfRefute(i, d)
    <2>1. /\ j = i /\ Known(i, i) /\ d.inc >= o.inc
          /\ Refute(i, nodeMap[i][i], d.inc, Loaded(i))
      BY <1>3 DEF DeadSelfRefute, Fresh
    <2>2. Loaded(i) \in SUBSET (0..incarnation[i])
      BY <1>0 DEF LoadsTyped
    <2>3. o.st \in {"alive", "dead", "left"}
      BY <2>1, SelfStates
    <2> QED
      BY <1>0, <1>1, <2>1, <2>2, <2>3, RefuteOwn DEF Mapped
  <1>4. CASE DeadUpdate(i, d)
    <2> DEFINE st == IF j = d.from THEN "left" ELSE "dead"
               e == [inc |-> d.inc, st |-> st, addr |-> o.addr]
    <2>1. /\ Known(i, j) /\ d.inc >= o.inc /\ ~DeadOrLeft(o) /\ issued' = issued
          /\ SetEntry(i, j, [o EXCEPT !.inc = d.inc, !.st = st])
      BY <1>4 DEF DeadUpdate, Fresh, CounterUnchanged
    <2>2. SetEntry(i, j, e)
      <3>1. st \in NodeStates
        BY DEF NodeStates
      <3> HIDE DEF st
      <3>2. [o EXCEPT !.inc = d.inc, !.st = st] = e
        BY <1>0, <1>1, <3>1, EntryRecord
      <3> QED
        BY <2>1, <3>2
    <2>3. CASE j = i
      <3>1. st \in {"alive", "dead", "left"}
        OBVIOUS
      <3>2. IssuedBy(i)
        BY <2>1 DEF IssuedBy
      <3> QED
        BY <1>0, <1>1, <2>1, <2>2, <2>3, <3>1, <3>2, OwnEntry DEF Mapped
    <2>4. CASE j # i
      <3>1. d.from = d.node /\ d.inc \in announced[j]
        <4>1. PICK k \in Members : d \in Deads(k)
          BY <2>4 DEF DeadSource, DeadMsg
        <4>2. d \in sent[k] /\ d.type = "dead"
          BY <4>1 DEF Deads
        <4> QED
          BY <4>1, <4>2 DEF RInv, AInv, MsgAnnounced
      <3>2. o.st \in {"alive", "suspect"}
        BY <1>1, <2>1 DEF Known, DeadOrLeft, Entry, NodeStates
      <3>3. Abs!Believe(i, j, [inc |-> d.inc, st |-> "left", addr |-> o.addr])
        BY <2>1, <2>2, <2>4, <3>1 DEF Abs!Believe, SetEntry
      <3>4. Abs!BelieveLeft(i, j)
        BY <2>1, <3>1, <3>2, <3>3 DEF Abs!BelieveLeft, Abs!View
      <3> QED
        BY <1>0, <3>4 DEF Mapped
    <2> QED
      BY <2>3, <2>4
  <1> QED
    BY <1>2, <1>3, <1>4 DEF deadNode

-----------------------------------------------------------------------------
(* Steps and behaviours. *)

\* Every step of Membership is a step of Beliefs, or none.
LEMMA StepMaps ==
    ASSUME RInv, OInv', AInv', [Next]_vars
    PROVE  [Abs!Next]_(Abs!vars)
  <1>0. TInv /\ HandlerTyped
    BY HandlerPre DEF RInv, OInv
  <1>1. ASSUME NEW i \in Members, Exit(i) PROVE Abs!Forget(i)
    BY <1>1 DEF Exit, Abs!Forget, Abs!Unknown, NoEntry
  <1>2. ASSUME ViewsKept, HistoryKept PROVE [Abs!Next]_(Abs!vars)
    <2>1. nodeMap' = nodeMap
      BY <1>2 DEF ViewsKept
    <2>2. CASE UNCHANGED <<issued, announced>>
      BY <2>1, <2>2 DEF Abs!vars
    <2>3. ASSUME NEW i \in Members, Advance(i, incarnation[i] + 1), announced' = announced
          PROVE  Abs!Own(i)
      <3>1. incarnation[i] + 1 \in Nat
        BY <1>0 DEF HandlerTyped
      <3>2. IssuedBy(i)
        BY <1>0, <2>3, <3>1, AdvanceIssued
      <3> QED
        BY <2>1, <2>3, <3>2 DEF Abs!Own, IssuedBy
    <2>4. ASSUME NEW i \in Members, issued' = issued,
                 announced' = [announced EXCEPT ![i] = @ \cup {nodeMap[i][i].inc}]
          PROVE  Abs!Announce(i)
      BY <2>1, <2>4 DEF Abs!Announce
    <2> QED
      BY <1>2, <2>2, <2>3, <2>4 DEF HistoryKept, Abs!Next
  <1>3. ASSUME NEW i \in Members, RunsHandler(i), announced' = announced PROVE Mapped(i)
    BY <1>3, AliveSelfMaps, AliveUpdateMaps, SuspectMaps, DeadMaps DEF RunsHandler
  <1>4. ASSUME NEW i \in Members, Mapped(i), announced' = announced
        PROVE  [Abs!Next]_(Abs!vars)
    BY <1>4 DEF Mapped, Abs!Next, Abs!vars
  <1> QED
    BY <1>0, <1>1, <1>2, <1>3, <1>4, StepKinds DEF Abs!Next

\* A step of Beliefs declares nobody else dead and makes nobody unknown but by
\* forgetting.
LEMMA BeliefsKeep ==
    ASSUME HandlerTyped, OthersNotDead, UnknownIsNew, [Abs!Next]_(Abs!vars)
    PROVE  OthersNotDead' /\ UnknownIsNew'
  <1>0. nodeMap \in [Members -> [Members -> Entry]]
    BY DEF HandlerTyped
  <1>1. ASSUME UNCHANGED nodeMap PROVE OthersNotDead' /\ UnknownIsNew'
    BY <1>1 DEF OthersNotDead, UnknownIsNew
  <1>2. ASSUME NEW i \in Members, NEW j \in Members, NEW n, NEW a,
               NEW s \in {"alive", "suspect", "dead", "left"}, s = "dead" => i = j,
               nodeMap' = [nodeMap EXCEPT ![i][j] = [inc |-> n, st |-> s, addr |-> a]]
        PROVE  OthersNotDead' /\ UnknownIsNew'
    BY <1>0, <1>2 DEF OthersNotDead, UnknownIsNew
  <1>3. ASSUME NEW i \in Members, Abs!Own(i) PROVE OthersNotDead' /\ UnknownIsNew'
    BY <1>1, <1>2, <1>3 DEF Abs!Own, Abs!View
  <1>4. ASSUME NEW i \in Members, NEW j \in Members,
               Abs!BelieveAlive(i, j) \/ Abs!Suspect(i, j) \/ Abs!BelieveLeft(i, j)
        PROVE  OthersNotDead' /\ UnknownIsNew'
    BY <1>2, <1>4 DEF Abs!BelieveAlive, Abs!Suspect, Abs!BelieveLeft, Abs!Believe, Abs!View
  <1>5. ASSUME NEW i \in Members, Abs!Forget(i) PROVE OthersNotDead' /\ UnknownIsNew'
    BY <1>0, <1>5 DEF Abs!Forget, Abs!Unknown, OthersNotDead, UnknownIsNew
  <1>6. ASSUME NEW i \in Members, Abs!Announce(i) PROVE UNCHANGED nodeMap
    BY <1>6 DEF Abs!Announce
  <1> QED
    BY <1>1, <1>3, <1>4, <1>5, <1>6 DEF Abs!Next, Abs!vars

\* RInv is inductive.
LEMMA RInvInductive == RInv /\ [Next]_vars => RInv' /\ [Abs!Next]_(Abs!vars)
  <1> SUFFICES ASSUME RInv, [Next]_vars PROVE RInv' /\ [Abs!Next]_(Abs!vars)
    OBVIOUS
  <1>1. OInv' /\ AInv' /\ TimerSafe'
    BY OInvInductive, AInvInductive, TimerSafeInductive DEF RInv, OInv
  <1>2. [Abs!Next]_(Abs!vars)
    BY <1>1, StepMaps
  <1>3. HandlerTyped
    BY HandlerPre DEF RInv, OInv
  <1> QED
    BY <1>1, <1>2, <1>3, BeliefsKeep DEF RInv

\* The protocol of aliveNode, suspectNode and deadNode, with its races, retries,
\* restarts and stale messages, implements Beliefs: whatever members believe
\* about each other is what single owners have issued, taken up in order.
THEOREM MembershipImplementsBeliefs == Spec => ImplementsBeliefs
  <1>1. Init => RInv /\ Abs!Init
    <2>1. Init => OInv /\ AInv /\ TimerSafe
      BY ConstantTypes, AddrsNonempty
      DEF Init, OInv, Owned, CounterOwned, ViewsOwned, SentOwned, PendingOwned,
          AInv, TInv, TypeOK, Positive, NoEntry, NoTimer, Idle, Entry, Calls,
          LeaveAnnounced, SelfLeftLeaving, EntryAnnounced, MsgAnnounced,
          TimerSafe, TimerIffSuspect, SelfNotSuspect, HasTimer
    <2>2. Init => OthersNotDead /\ UnknownIsNew
      BY DEF Init, OthersNotDead, UnknownIsNew, NoEntry
    <2>3. Init => Abs!Init
      BY DEF Init, Abs!Init, Abs!Unknown, NoEntry
    <2> QED
      BY <2>1, <2>2, <2>3 DEF RInv
  <1> QED
    BY <1>1, RInvInductive, PTL DEF Spec, ImplementsBeliefs, Abs!Spec
=============================================================================
