-------------------------- MODULE MembershipSafety --------------------------
(***************************************************************************)
(* More about Membership, for every set of members and every bound: views  *)
(* only advance, suspicions and timers match, what is stored is gossiped,  *)
(* whoever counts as left has announced it, and a member's own entry keeps *)
(* up with its incarnation counter.                                        *)
(***************************************************************************)
EXTENDS MembershipProofs

-----------------------------------------------------------------------------
(* The three kinds of steps. *)

\* Where the argument of deadNode comes from.
DeadSource(i, d) ==
    \/ \E k \in Members : d \in Deads(k)
    \/ main[i].op = "Leave" /\ d = DeadMsg(i, main[i].inc, i)

\* Member i runs one of the three handlers to its end.
RunsHandler(i) ==
    \/ \E a \in AliveMsgs :
          \/ AliveUpdate(i, a)
          \/ \E loads \in SUBSET (0..incarnation[i]) : AliveSelf(i, a, loads)
    \/ \E s \in SuspectMsgs : suspectNode(i, s)
    \/ \E d \in DeadMsgs : deadNode(i, d) /\ DeadSource(i, d)

\* No view changes; what is sent besides are no new dead messages, but for the
\* ones that sendLocalState makes of entries in StateLeft.
ViewsKept ==
    /\ UNCHANGED <<nodeMap, nodeTimers>>
    /\ \A k \in Members :
          /\ sent[k] \subseteq sent'[k]
          /\ \A m \in sent'[k] \ sent[k] : m.type = "dead" =>
                /\ m.node \in Members /\ m.from = m.node
                /\ nodeMap[k][m.node].st = "left"
                /\ nodeMap[k][m.node].inc = m.inc

\* Numbers are issued by nextIncarnation, departures announced by Leave.
HistoryKept ==
    \/ UNCHANGED <<issued, announced>>
    \/ announced' = announced /\ \E i \in Members : Advance(i, incarnation[i] + 1)
    \/ /\ issued' = issued
       /\ \E i \in Members :
             announced' = [announced EXCEPT ![i] = @ \cup {nodeMap[i][i].inc}]

FlagsKept == \A i \in Members : leave[i] => leave'[i]

\* A step that leaves the handlers' variables alone keeps the views.
LEMMA NothingHandled == HandlerUnchanged => ViewsKept
  BY DEF HandlerUnchanged, ViewsKept

\* Every step ends a process, keeps all views, or runs a handler.
LEMMA StepKinds ==
    ASSUME TInv, [Next]_vars
    PROVE  \/ \E i \in Members : Exit(i)
           \/ ViewsKept /\ FlagsKept /\ HistoryKept
           \/ leave' = leave /\ announced' = announced /\ \E i \in Members : RunsHandler(i)
  <1> DEFINE Goal == \/ \E i \in Members : Exit(i)
                     \/ ViewsKept /\ FlagsKept /\ HistoryKept
                     \/ leave' = leave /\ announced' = announced /\ \E i \in Members : RunsHandler(i)
  <1> SUFFICES Goal
    OBVIOUS
  <1>0. CASE UNCHANGED vars
    BY <1>0, NothingHandled DEF vars, HandlerUnchanged, FlagsKept, HistoryKept
  <1>1. ASSUME NEW i \in Members, NEW a \in Addrs, Start(i, a)
        PROVE  Goal
    BY <1>1, NothingHandled DEF Start, FlagsKept, HistoryKept, HandlerUnchanged
  <1>2. ASSUME NEW i \in Members, NextIncAdd(i)
        PROVE  Goal
    BY <1>2 DEF NextIncAdd, FlagsKept, ViewsKept, HistoryKept
  <1>3. ASSUME NEW i \in Members, NextIncLoad(i)
        PROVE  Goal
    BY <1>3, NothingHandled DEF NextIncLoad, FlagsKept, HistoryKept, HandlerUnchanged
  <1>4. ASSUME NEW i \in Members, SetAlive(i)
        PROVE  Goal
    <2> DEFINE a == AliveMsg(i, main[i].inc, addr[i])
    <2>1. a \in AliveMsgs
      BY <1>4 DEF SetAlive, Calling, AliveMsg, AliveMsgs, TInv, TypeOK, Positive, Calls
    <2>2. (AliveUpdate(i, a) \/ HandlerUnchanged) /\ UNCHANGED <<leave, announced>>
      BY <1>4 DEF SetAlive
    <2> HIDE DEF a
    <2> QED
      BY <2>1, <2>2, NothingHandled DEF RunsHandler, FlagsKept, HistoryKept, HandlerUnchanged
  <1>5. ASSUME NEW i \in Members, UpdateNodeBegin(i)
        PROVE  Goal
    BY <1>5, NothingHandled DEF UpdateNodeBegin, FlagsKept, HistoryKept, HandlerUnchanged
  <1>6. ASSUME NEW i \in Members, UpdateNode(i)
        PROVE  Goal
    <2> DEFINE a == AliveMsg(i, main[i].inc, nodeMap[i][i].addr)
    <2>0. nodeMap[i][i] \in Entry
      BY DEF TInv, TypeOK
    <2>1. a \in AliveMsgs
      BY <1>6, <2>0 DEF UpdateNode, Calling, AliveMsg, AliveMsgs, TInv, TypeOK,
          Positive, Calls, Entry
    <2>2. (AliveSelf(i, a, {incarnation[i]}) \/ HandlerUnchanged) /\ UNCHANGED <<leave, announced>>
      BY <1>6 DEF UpdateNode
    <2>3. {incarnation[i]} \in SUBSET (0..incarnation[i])
      BY DEF TInv, TypeOK
    <2> HIDE DEF a
    <2> QED
      BY <2>1, <2>2, <2>3, NothingHandled DEF RunsHandler, FlagsKept, HistoryKept, HandlerUnchanged
  <1>7. ASSUME NEW i \in Members, LeaveBegin(i)
        PROVE  Goal
    BY <1>7, NothingHandled DEF LeaveBegin, FlagsKept, HistoryKept, HandlerUnchanged, TInv, TypeOK
  <1>8. ASSUME NEW i \in Members, Leave(i)
        PROVE  Goal
    <2> DEFINE d == DeadMsg(i, main[i].inc, i)
    <2>1. d \in DeadMsgs
      BY DEF DeadMsg, DeadMsgs, TInv, TypeOK, Calls
    <2>2. (deadNode(i, d) \/ HandlerUnchanged) /\ UNCHANGED <<leave, announced>>
      BY <1>8 DEF Leave
    <2>3. DeadSource(i, d)
      BY <1>8 DEF Leave, Calling, DeadSource
    <2> HIDE DEF d
    <2> QED
      BY <2>1, <2>2, <2>3, NothingHandled DEF RunsHandler, FlagsKept, HistoryKept, HandlerUnchanged
  <1>9. ASSUME NEW i \in Members, NEW j \in Members, ProbeStart(i, j)
        PROVE  Goal
    <2>1. UNCHANGED <<nodeMap, nodeTimers, leave, issued, announced>>
      BY <1>9 DEF ProbeStart, ProbeUnchanged
    <2>2. UNCHANGED sent \/ Queue(i, DirectMsg(j, nodeMap[i][j].inc, i))
      BY <1>9 DEF ProbeStart
    <2>3. DirectMsg(j, nodeMap[i][j].inc, i).type # "dead"
      BY DEF DirectMsg
    <2>4. sent \in [Members -> SUBSET Message]
      BY DEF TInv, TypeOK
    <2>5. ViewsKept
      BY <2>1, <2>2, <2>3, <2>4 DEF ViewsKept, Queue
    <2> QED
      BY <2>1, <2>5 DEF FlagsKept, HistoryKept, HandlerUnchanged
  <1>10. ASSUME NEW i \in Members, ProbeAck(i)
         PROVE  Goal
    BY <1>10, NothingHandled DEF ProbeAck, ProbeUnchanged, FlagsKept, HistoryKept, HandlerUnchanged
  <1>11. ASSUME NEW i \in Members, ProbeFail(i)
         PROVE  Goal
    <2>1. PICK p \in probing[i] : suspectNode(i, SuspectMsg(p.node, p.inc, i))
                                  \/ HandlerUnchanged
      BY <1>11 DEF ProbeFail
    <2>2. SuspectMsg(p.node, p.inc, i) \in SuspectMsgs
      BY <2>1 DEF SuspectMsg, SuspectMsgs, TInv, TypeOK
    <2>3. UNCHANGED <<leave, announced>>
      BY <1>11 DEF ProbeFail, ProbeUnchanged
    <2> QED
      BY <2>1, <2>2, <2>3, NothingHandled DEF RunsHandler, FlagsKept, HistoryKept, HandlerUnchanged
  <1>12. ASSUME NEW i \in Members, NEW k \in Members,
                HandleAlive(i, k) \/ HandleSuspect(i, k) \/ HandleDead(i, k)
         PROVE  Goal
    <2>1. sent \in [Members -> SUBSET Message]
      BY DEF TInv, TypeOK
    <2>2. UNCHANGED <<leave, announced>>
      BY <1>12 DEF HandleAlive, HandleSuspect, HandleDead, NetUnchanged
    <2>3. CASE HandleAlive(i, k)
      <3>1. Loaded(i) \in SUBSET (0..incarnation[i])
        BY HandlerPre DEF LoadsTyped
      <3> QED
        BY <2>1, <2>2, <2>3, <3>1, ReceivedTypes DEF HandleAlive, aliveNode, RunsHandler
    <2>4. CASE HandleSuspect(i, k)
      BY <2>1, <2>2, <2>4, ReceivedTypes DEF HandleSuspect, RunsHandler
    <2>5. CASE HandleDead(i, k)
      BY <2>1, <2>2, <2>5, ReceivedTypes DEF HandleDead, RunsHandler, DeadSource
    <2> QED
      BY <1>12, <2>3, <2>4, <2>5
  <1>13. ASSUME NEW i \in Members, SendLocalState(i)
         PROVE  Goal
    <2>1. UNCHANGED <<nodeMap, nodeTimers, leave, issued, announced>>
      BY <1>13 DEF SendLocalState, NetUnchanged
    <2>2. ASSUME NEW j \in Members, StateMsg(j, nodeMap[i][j]).type = "dead"
          PROVE  /\ nodeMap[i][j].st = "left"
                 /\ StateMsg(j, nodeMap[i][j]) = DeadMsg(j, nodeMap[i][j].inc, j)
      BY <2>2 DEF StateMsg, AliveMsg, SuspectMsg
    <2>3. sent \in [Members -> SUBSET Message]
      BY DEF TInv, TypeOK
    <2>4. \A m \in sent'[i] \ sent[i] :
              \E j \in Members : m = StateMsg(j, nodeMap[i][j])
      BY <1>13, <2>3 DEF SendLocalState
    <2>5. \A m \in sent'[i] \ sent[i] : m.type = "dead" =>
              \E j \in Members : nodeMap[i][j].st = "left"
                                 /\ m = DeadMsg(j, nodeMap[i][j].inc, j)
      BY <2>2, <2>4
    <2>6. \A m \in sent'[i] \ sent[i] : m.type = "dead" =>
              /\ m.node \in Members /\ m.from = m.node
              /\ nodeMap[i][m.node].st = "left"
              /\ nodeMap[i][m.node].inc = m.inc
      BY <2>5 DEF DeadMsg
    <2>7. /\ sent[i] \subseteq sent'[i]
          /\ \A k \in Members \ {i} : sent'[k] = sent[k]
      BY <1>13, <2>3 DEF SendLocalState
    <2>8. ViewsKept
      BY <2>1, <2>6, <2>7 DEF ViewsKept
    <2> QED
      BY <2>1, <2>8 DEF FlagsKept, HistoryKept, HandlerUnchanged
  <1>14. ASSUME NEW i \in Members, Exit(i)
         PROVE  Goal
    BY <1>14
  <1> HIDE DEF Goal
  <1> QED
    BY <1>0, <1>1, <1>2, <1>3, <1>4, <1>5, <1>6, <1>7, <1>8, <1>9, <1>10, <1>11,
       <1>12, <1>13, <1>14
    DEF Next, SuspicionTimeout, Crash
-----------------------------------------------------------------------------
(* Views advance. *)

\* SetEntry changes one entry of one map.
LEMMA OneEntry ==
    ASSUME HandlerTyped, NEW i \in Members, NEW n \in Members, NEW e, SetEntry(i, n, e)
    PROVE  /\ nodeMap'[i][n] = e
           /\ \A x, y \in Members : x # i \/ y # n => nodeMap'[x][y] = nodeMap[x][y]
  BY DEF HandlerTyped, SetEntry

\* An entry that stays the same advances.
LEMMA SameAdvances ==
    ASSUME HandlerTyped, NEW x \in Members, NEW y \in Members,
           nodeMap'[x][y] = nodeMap[x][y]
    PROVE  EntryAdvances(x, y)
  <1>1. Rank(nodeMap[x][y].st) \in Nat
    BY DEF Rank
  <1> QED
    BY <1>1 DEF EntryAdvances

ViewsAdvance ==
    \A x, y \in Members : x # y /\ Known(x, y) => EntryAdvances(x, y)

\* It suffices to look at the entry that a handler sets.
LEMMA AdvanceOne ==
    ASSUME HandlerTyped, NEW i \in Members, NEW n \in Members, NEW e, SetEntry(i, n, e),
           n # i /\ Known(i, n) => EntryAdvances(i, n)
    PROVE  ViewsAdvance
  BY OneEntry, SameAdvances DEF ViewsAdvance

\* refute touches nothing but our own entry.
LEMMA RefuteEntry ==
    ASSUME NEW i, NEW me, NEW accused, NEW loads, Refute(i, me, accused, loads)
    PROVE  \E inc : SetEntry(i, i, [me EXCEPT !.inc = inc])
                    /\ Queue(i, AliveMsg(i, inc, me.addr))
  BY DEF Refute

\* An accepted alive message has a higher number, or another address that may
\* be taken over.
LEMMA AliveAdvances ==
    ASSUME HandlerTyped, NEW i \in Members, NEW a \in AliveMsgs, NEW loads,
           AliveSelf(i, a, loads) \/ AliveUpdate(i, a)
    PROVE  ViewsAdvance
  <1>1. CASE AliveSelf(i, a, loads)
    <2>1. \E e : SetEntry(i, i, e)
      BY <1>1, RefuteEntry DEF AliveSelf
    <2> QED
      BY <2>1, AdvanceOne
  <1>2. CASE AliveUpdate(i, a)
    <2> DEFINE e == [inc |-> a.inc, st |-> "alive", addr |-> a.addr]
    <2>1. SetEntry(i, a.node, e) /\ a.node \in Members /\ a.inc \in Nat
      BY <1>2 DEF AliveUpdate, AliveMsgs
    <2>2. nodeMap'[i][a.node] = e
      BY <2>1, OneEntry
    <2>3. nodeMap[i][a.node] \in Entry /\ nodeMap[i][a.node].inc \in Nat
      BY <2>1 DEF HandlerTyped, Entry
    <2>4. ASSUME a.node # i, Known(i, a.node)
          PROVE  EntryAdvances(i, a.node)
      <3>1. Lookup(i, a) = nodeMap[i][a.node]
        BY <2>4 DEF Lookup
      <3>2. /\ a.addr # nodeMap[i][a.node].addr => DeadOrLeft(nodeMap[i][a.node])
            /\ a.addr = nodeMap[i][a.node].addr => ~(a.inc <= nodeMap[i][a.node].inc)
        BY <1>2, <2>4, <3>1
        DEF AliveUpdate, AliveAccepted, OldAlive, Moved, DeadOrLeft
      <3> QED
        BY <2>1, <2>2, <2>3, <3>2 DEF EntryAdvances
    <2> QED
      BY <2>1, <2>4, AdvanceOne
  <1> QED
    BY <1>1, <1>2

\* A suspicion keeps or raises the number of an entry in StateAlive.
LEMMA SuspectAdvances ==
    ASSUME HandlerTyped, NEW i \in Members, NEW s \in SuspectMsgs, suspectNode(i, s)
    PROVE  ViewsAdvance
  <1>1. CASE SuspectConfirm(i, s)
    BY <1>1, SameAdvances DEF SuspectConfirm, ViewsAdvance
  <1>2. CASE SuspectSelf(i, s)
    BY <1>2, RefuteEntry, AdvanceOne DEF SuspectSelf
  <1>3. CASE SuspectStart(i, s)
    <2> DEFINE o == nodeMap[i][s.node]
               e == [o EXCEPT !.inc = s.inc, !.st = "suspect"]
    <2>1. SetEntry(i, s.node, e) /\ s.node \in Members /\ s.inc \in Nat
      BY <1>3 DEF SuspectStart, SuspectMsgs
    <2>2. o \in Entry /\ o.inc \in Nat
      BY <2>1 DEF HandlerTyped, Entry
    <2>3. e.inc = s.inc /\ e.st = "suspect" /\ e.addr = o.addr
      BY <2>2 DEF Entry
    <2>4. nodeMap'[i][s.node] = e
      BY <2>1, OneEntry
    <2>5. s.inc >= o.inc /\ o.st = "alive"
      BY <1>3 DEF SuspectStart, Fresh
    <2>6. Rank(e.st) >= Rank(o.st)
      BY <2>3, <2>5 DEF Rank
    <2>7. EntryAdvances(i, s.node)
      BY <2>1, <2>2, <2>3, <2>4, <2>5, <2>6 DEF EntryAdvances
    <2> QED
      BY <2>1, <2>7, AdvanceOne
  <1> QED
    BY <1>1, <1>2, <1>3 DEF suspectNode

\* A dead message keeps or raises the number and takes the highest rank.
LEMMA DeadAdvances ==
    ASSUME HandlerTyped, NEW i \in Members, NEW d \in DeadMsgs, deadNode(i, d)
    PROVE  ViewsAdvance
  <1>1. CASE DeadSelfRefute(i, d)
    BY <1>1, RefuteEntry, AdvanceOne DEF DeadSelfRefute
  <1>2. CASE DeadRepeat(i, d)
    BY <1>2, SameAdvances DEF DeadRepeat, ViewsAdvance
  <1>3. CASE DeadUpdate(i, d)
    <2> DEFINE o == nodeMap[i][d.node]
               st == IF d.node = d.from THEN "left" ELSE "dead"
               e == [o EXCEPT !.inc = d.inc, !.st = st]
    <2>1. SetEntry(i, d.node, e) /\ d.node \in Members /\ d.inc \in Nat
      BY <1>3 DEF DeadUpdate, DeadMsgs
    <2>2. o \in Entry /\ o.inc \in Nat
      BY <2>1 DEF HandlerTyped, Entry
    <2>3. e.inc = d.inc /\ e.st = st /\ e.addr = o.addr
      BY <2>2 DEF Entry
    <2>4. nodeMap'[i][d.node] = e
      BY <2>1, OneEntry
    <2>5. d.inc >= o.inc
      BY <1>3 DEF DeadUpdate, Fresh
    <2>6. Rank(e.st) = 2 /\ Rank(o.st) \in 0..2
      BY <2>3 DEF Rank
    <2>7. EntryAdvances(i, d.node)
      BY <2>1, <2>2, <2>3, <2>4, <2>5, <2>6 DEF EntryAdvances
    <2> QED
      BY <2>1, <2>7, AdvanceOne
  <1> QED
    BY <1>1, <1>2, <1>3 DEF deadNode

\* One step of the system, from a well-typed state.
LEMMA StepAdvances ==
    ASSUME TInv, [Next]_vars
    PROVE  \A i, j \in Members :
               i # j /\ Known(i, j) /\ status[i] = "running" /\ status'[i] = "running"
                   => EntryAdvances(i, j)
  <1>0. HandlerTyped
    BY HandlerPre
  <1>1. ASSUME NEW n \in Members, Exit(n), NEW i \in Members, NEW j \in Members,
               status'[i] = "running"
        PROVE  EntryAdvances(i, j)
    <2>1. i # n
      BY <1>1 DEF Exit, TInv, TypeOK
    <2>2. nodeMap'[i][j] = nodeMap[i][j]
      BY <1>1, <2>1 DEF Exit, TInv, TypeOK
    <2> QED
      BY <1>0, <2>2, SameAdvances
  <1>2. CASE ViewsKept
    BY <1>0, <1>2, SameAdvances DEF ViewsKept
  <1>3. ASSUME NEW n \in Members, RunsHandler(n)
        PROVE  ViewsAdvance
    BY <1>0, <1>3, AliveAdvances, SuspectAdvances, DeadAdvances DEF RunsHandler
  <1> QED
    BY <1>1, <1>2, <1>3, StepKinds DEF ViewsAdvance

\* In whatever order alive, suspect and dead messages, old and new, reach
\* aliveNode, suspectNode and deadNode: a running member never goes back to
\* older knowledge about another one.
THEOREM ViewsOnlyAdvance == Spec => ViewAdvances
  <1>1. Init => TInv
    BY ConstantTypes, AddrsNonempty
    DEF Init, TInv, TypeOK, Positive, NoEntry, NoTimer, Idle, Entry, Calls
  <1>2. TInv /\ [Next]_vars =>
            [\A i, j \in Members :
                i # j /\ Known(i, j) /\ status[i] = "running" /\ status'[i] = "running"
                    => EntryAdvances(i, j)]_vars
    BY StepAdvances
  <1> QED
    BY <1>1, <1>2, TInvInductive, PTL DEF Spec, ViewAdvances
-----------------------------------------------------------------------------
(* Suspicions and timers match. *)

\* A member never suspects itself: suspectNode refutes instead.
SelfNotSuspect == \A i \in Members : nodeMap[i][i].st # "suspect"

TimerSafe == TimerIffSuspect /\ SelfNotSuspect

\* An entry and its timer are replaced together.
LEMMA TimerReplaced ==
    ASSUME HandlerTyped, TimerSafe, NEW i \in Members, NEW n \in Members, NEW e, NEW t,
           SetEntry(i, n, e), nodeTimers' = [nodeTimers EXCEPT ![i][n] = t],
           t.conf # {} <=> e.st = "suspect",
           n = i => e.st # "suspect"
    PROVE  TimerSafe'
  <1>1. /\ nodeTimers'[i][n] = t
        /\ \A x, y \in Members : x # i \/ y # n => nodeTimers'[x][y] = nodeTimers[x][y]
    BY DEF HandlerTyped
  <1>2. /\ nodeMap'[i][n] = e
        /\ \A x, y \in Members : x # i \/ y # n => nodeMap'[x][y] = nodeMap[x][y]
    BY OneEntry
  <1> QED
    BY <1>1, <1>2 DEF TimerSafe, TimerIffSuspect, SelfNotSuspect, HasTimer

\* The same for the steps that erase the timer with an entry not suspected.
LEMMA TimerErased ==
    ASSUME HandlerTyped, TimerSafe, NEW i \in Members, NEW n \in Members, NEW e,
           SetEntry(i, n, e), EraseTimer(i, n), e.st # "suspect"
    PROVE  TimerSafe'
  <1>1. NoTimer.conf = {}
    BY DEF NoTimer
  <1> QED
    BY <1>1, TimerReplaced DEF EraseTimer

\* refute stores the entry it was given with another number.
LEMMA RefuteState ==
    ASSUME NEW i, NEW me \in Entry, NEW accused, NEW loads, Refute(i, me, accused, loads)
    PROVE  \E e : e.st = me.st /\ e.addr = me.addr /\ SetEntry(i, i, e)
                  /\ Queue(i, AliveMsg(i, e.inc, e.addr))
  <1>1. PICK inc : SetEntry(i, i, [me EXCEPT !.inc = inc])
                   /\ Queue(i, AliveMsg(i, inc, me.addr))
    BY RefuteEntry
  <1>2. /\ [me EXCEPT !.inc = inc].st = me.st
        /\ [me EXCEPT !.inc = inc].addr = me.addr
        /\ [me EXCEPT !.inc = inc].inc = inc
    BY DEF Entry
  <1> QED
    BY <1>1, <1>2

\* aliveNode erases the timer of the node it is about.
LEMMA AliveTimers ==
    ASSUME HandlerTyped, TimerSafe, NEW i \in Members, NEW a \in AliveMsgs, NEW loads,
           AliveSelf(i, a, loads) \/ AliveUpdate(i, a)
    PROVE  TimerSafe'
  <1>1. CASE AliveSelf(i, a, loads)
    <2>1. Lookup(i, a) \in Entry /\ Lookup(i, a).st # "suspect"
      BY <1>1, LookupType DEF AliveSelf, Lookup, TimerSafe, SelfNotSuspect
    <2>2. \E e : e.st # "suspect" /\ SetEntry(i, i, e)
      BY <1>1, <2>1, RefuteState DEF AliveSelf
    <2> QED
      BY <1>1, <2>2, TimerErased DEF AliveSelf
  <1>2. CASE AliveUpdate(i, a)
    <2>1. a.node \in Members
      BY DEF AliveMsgs
    <2> QED
      BY <1>2, <2>1, TimerErased DEF AliveUpdate
  <1> QED
    BY <1>1, <1>2

\* suspectNode creates state and timer together and adds to a timer otherwise.
LEMMA SuspectTimers ==
    ASSUME HandlerTyped, TimerSafe, NEW i \in Members, NEW s \in SuspectMsgs,
           suspectNode(i, s)
    PROVE  TimerSafe'
  <1>0. s.node \in Members /\ s.from \in Members
    BY DEF SuspectMsgs
  <1>1. CASE SuspectConfirm(i, s)
    <2>1. nodeMap' = nodeMap /\ HasTimer(i, s.node)
      BY <1>1 DEF SuspectConfirm, Confirmable
    <2>2. nodeTimers'[i][s.node].conf # {}
      BY <1>0, <1>1 DEF SuspectConfirm, HandlerTyped
    <2>3. \A x, y \in Members : x # i \/ y # s.node => nodeTimers'[x][y] = nodeTimers[x][y]
      BY <1>0, <1>1 DEF SuspectConfirm, HandlerTyped
    <2>4. \A x, y \in Members : HasTimer(x, y)' <=> HasTimer(x, y)
      BY <1>0, <2>1, <2>2, <2>3 DEF HasTimer
    <2> QED
      BY <2>1, <2>4 DEF TimerSafe, TimerIffSuspect, SelfNotSuspect
  <1>2. CASE SuspectSelf(i, s)
    <2>1. nodeMap[i][i] \in Entry /\ nodeMap[i][i].st = "alive" /\ nodeTimers' = nodeTimers
      BY <1>2 DEF SuspectSelf, HandlerTyped
    <2>2. PICK e : e.st = "alive" /\ SetEntry(i, i, e)
      BY <1>2, <2>1, RefuteState DEF SuspectSelf
    <2>3. /\ nodeMap'[i][i] = e
          /\ \A x, y \in Members : x # i \/ y # i => nodeMap'[x][y] = nodeMap[x][y]
      BY <2>2, OneEntry
    <2> QED
      BY <2>1, <2>2, <2>3 DEF TimerSafe, TimerIffSuspect, SelfNotSuspect, HasTimer
  <1>3. CASE SuspectStart(i, s)
    <2> DEFINE e == [nodeMap[i][s.node] EXCEPT !.inc = s.inc, !.st = "suspect"]
               t == [conf |-> {s.from}, k |-> SuspicionK(i)]
    <2>1. SetEntry(i, s.node, e) /\ nodeTimers' = [nodeTimers EXCEPT ![i][s.node] = t]
          /\ s.node # i
      BY <1>3 DEF SuspectStart
    <2>2. nodeMap[i][s.node] \in Entry
      BY <1>0 DEF HandlerTyped
    <2>3. e.st = "suspect" /\ t.conf # {}
      BY <2>2 DEF Entry
    <2> HIDE DEF e, t
    <2> QED
      BY <1>0, <2>1, <2>3, TimerReplaced
  <1> QED
    BY <1>1, <1>2, <1>3 DEF suspectNode

\* deadNode erases the timer, whether the news is new or not.
LEMMA DeadTimers ==
    ASSUME HandlerTyped, TimerSafe, NEW i \in Members, NEW d \in DeadMsgs,
           deadNode(i, d)
    PROVE  TimerSafe'
  <1>0. d.node \in Members
    BY DEF DeadMsgs
  <1>1. CASE DeadSelfRefute(i, d)
    <2>1. nodeMap[i][i] \in Entry /\ nodeMap[i][i].st # "suspect"
      BY DEF HandlerTyped, TimerSafe, SelfNotSuspect
    <2> QED
      BY <1>1, <2>1, RefuteState, TimerErased DEF DeadSelfRefute
  <1>2. CASE DeadUpdate(i, d)
    <2> DEFINE st == IF d.node = d.from THEN "left" ELSE "dead"
               e == [nodeMap[i][d.node] EXCEPT !.inc = d.inc, !.st = st]
    <2>1. SetEntry(i, d.node, e) /\ EraseTimer(i, d.node)
      BY <1>2 DEF DeadUpdate
    <2>2. nodeMap[i][d.node] \in Entry
      BY <1>0 DEF HandlerTyped
    <2>3. e.st # "suspect"
      BY <2>2 DEF Entry
    <2> HIDE DEF e
    <2> QED
      BY <1>0, <2>1, <2>3, TimerErased
  <1>3. CASE DeadRepeat(i, d)
    <2>1. nodeMap' = nodeMap /\ nodeMap[i][d.node].st # "suspect"
      BY <1>3 DEF DeadRepeat, DeadOrLeft
    <2>2. /\ nodeTimers'[i][d.node].conf = {}
          /\ \A x, y \in Members : x # i \/ y # d.node => nodeTimers'[x][y] = nodeTimers[x][y]
      BY <1>0, <1>3 DEF DeadRepeat, EraseTimer, NoTimer, HandlerTyped
    <2> QED
      BY <1>0, <2>1, <2>2 DEF TimerSafe, TimerIffSuspect, SelfNotSuspect, HasTimer
  <1> QED
    BY <1>1, <1>2, <1>3 DEF deadNode

\* TimerSafe is inductive in the states of the type invariant.
LEMMA TimerSafeInductive == TInv /\ TimerSafe /\ [Next]_vars => TimerSafe'
  <1> SUFFICES ASSUME TInv, TimerSafe, [Next]_vars PROVE TimerSafe'
    OBVIOUS
  <1>0. HandlerTyped
    BY HandlerPre
  <1>1. ASSUME NEW i \in Members, Exit(i) PROVE TimerSafe'
    BY <1>1 DEF Exit, TInv, TypeOK, TimerSafe, TimerIffSuspect, SelfNotSuspect,
        HasTimer, NoTimer, NoEntry
  <1>2. CASE ViewsKept
    BY <1>2 DEF ViewsKept, TimerSafe, TimerIffSuspect, SelfNotSuspect, HasTimer
  <1>3. ASSUME NEW i \in Members, RunsHandler(i) PROVE TimerSafe'
    BY <1>0, <1>3, AliveTimers, SuspectTimers, DeadTimers DEF RunsHandler
  <1> QED
    BY <1>1, <1>2, <1>3, StepKinds

\* A member runs a suspicion timer for exactly the nodes it has in
\* StateSuspect, and never for itself: no timer outlives its suspicion.
THEOREM TimersMatchSuspicions == Spec => []TimerIffSuspect
  <1>1. Init => TInv /\ TimerSafe
    BY ConstantTypes, AddrsNonempty
    DEF Init, TInv, TypeOK, Positive, NoEntry, NoTimer, Idle, Entry, Calls,
        TimerSafe, TimerIffSuspect, SelfNotSuspect, HasTimer
  <1> QED
    BY <1>1, TInvInductive, TimerSafeInductive, PTL DEF Spec, TimerSafe
-----------------------------------------------------------------------------
(* Whoever counts as left has announced it. *)

\* A pending Leave has announced the number it is about to send.
LeaveAnnounced ==
    \A i \in Members :
        main[i].op = "Leave" => main[i].pc = "call" /\ main[i].inc \in announced[i]

\* Only a member that is leaving has itself in StateLeft, and aliveNode ignores
\* messages about a member that is leaving: refute never meets StateLeft.
SelfLeftLeaving == \A i \in Members : nodeMap[i][i].st = "left" => leave[i]

AnnouncedGrows == \A i \in Members : announced[i] \subseteq announced'[i]

\* LeaveAnnounced is kept by the main thread, which nobody else interferes with.
LEMMA LeaveAnnouncedInductive ==
    TInv /\ LeaveAnnounced /\ [Next]_vars => LeaveAnnounced' /\ AnnouncedGrows
  <1> SUFFICES ASSUME TInv, LeaveAnnounced, [Next]_vars
               PROVE  LeaveAnnounced' /\ AnnouncedGrows
    OBVIOUS
  <1> USE DEF LeaveAnnounced, AnnouncedGrows
  <1>a. /\ main \in [Members -> Calls]
        /\ announced \in [Members -> SUBSET Nat]
    BY DEF TInv, TypeOK
  <1>b. Idle.op # "Leave"
    BY DEF Idle
  <1>0. CASE UNCHANGED vars
    BY <1>0 DEF vars
  <1>1. ASSUME NEW i \in Members, NEW a \in Addrs, Start(i, a)
        PROVE  LeaveAnnounced' /\ AnnouncedGrows
    BY <1>1, <1>a DEF Start
  <1>2. ASSUME NEW i \in Members, NextIncAdd(i) \/ NextIncLoad(i)
        PROVE  LeaveAnnounced' /\ AnnouncedGrows
    <2>1. announced' = announced /\ main[i].op # "Leave"
      BY <1>2 DEF NextIncAdd, NextIncLoad
    <2>2. /\ main'[i].op = main[i].op
          /\ \A n \in Members \ {i} : main'[n] = main[n]
      BY <1>2, <1>a DEF NextIncAdd, NextIncLoad, Calls
    <2> QED
      BY <2>1, <2>2
  <1>3. ASSUME NEW i \in Members, SetAlive(i) \/ UpdateNode(i) \/ Leave(i)
        PROVE  LeaveAnnounced' /\ AnnouncedGrows
    <2>1. announced' = announced /\ Return(i)
      BY <1>3 DEF SetAlive, UpdateNode, Leave
    <2> QED
      BY <2>1, <1>a, <1>b DEF Return
  <1>4. ASSUME NEW i \in Members, UpdateNodeBegin(i)
        PROVE  LeaveAnnounced' /\ AnnouncedGrows
    BY <1>4, <1>a DEF UpdateNodeBegin
  <1>5. ASSUME NEW i \in Members, LeaveBegin(i)
        PROVE  LeaveAnnounced' /\ AnnouncedGrows
    BY <1>5, <1>a DEF LeaveBegin
  <1>6. ASSUME NEW i \in Members,
               \/ \E j \in Members : ProbeStart(i, j)
               \/ ProbeAck(i) \/ ProbeFail(i) \/ SendLocalState(i)
               \/ \E k \in Members :
                     HandleAlive(i, k) \/ HandleSuspect(i, k) \/ HandleDead(i, k)
        PROVE  LeaveAnnounced' /\ AnnouncedGrows
    <2>1. UNCHANGED <<main, announced>>
      BY <1>6 DEF ProbeStart, ProbeAck, ProbeFail, ProbeUnchanged, SendLocalState,
          HandleAlive, HandleSuspect, HandleDead, NetUnchanged
    <2> QED
      BY <2>1
  <1>7. ASSUME NEW i \in Members, Exit(i)
        PROVE  LeaveAnnounced' /\ AnnouncedGrows
    BY <1>7, <1>a, <1>b DEF Exit
  <1> QED
    BY <1>0, <1>1, <1>2, <1>3, <1>4, <1>5, <1>6, <1>7
    DEF Next, SuspicionTimeout, Crash

EntryAnnounced(i, j) == nodeMap[i][j].st = "left" => nodeMap[i][j].inc \in announced[j]
MsgAnnounced(m) == m.type = "dead" => m.from = m.node /\ m.inc \in announced[m.node]

\* LeftIsAnnounced and what it rests on.
AInv ==
    /\ TInv /\ LeaveAnnounced /\ SelfLeftLeaving
    /\ \A i, j \in Members : EntryAnnounced(i, j)
    /\ \A i \in Members : \A m \in sent[i] : MsgAnnounced(m)

\* A handler replaces one entry and queues at most one message.
LEMMA AnnouncedOne ==
    ASSUME AInv, leave' = leave, LeaveAnnounced', AnnouncedGrows, TInv',
           NEW i \in Members, NEW n \in Members, NEW e,
           SetEntry(i, n, e),
           e.st = "left" => e.inc \in announced[n] /\ (n = i => leave[i]),
           \/ UNCHANGED sent
           \/ \E m : Queue(i, m) /\ (m.type = "dead" => m.node \in Members) /\ MsgAnnounced(m)
    PROVE  AInv'
  <1>1. /\ nodeMap'[i][n] = e
        /\ \A x, y \in Members : x # i \/ y # n => nodeMap'[x][y] = nodeMap[x][y]
    BY OneEntry, HandlerPre DEF AInv
  <1>2. \A x, y \in Members : EntryAnnounced(x, y)'
    BY <1>1 DEF AInv, EntryAnnounced, AnnouncedGrows
  <1>3. SelfLeftLeaving'
    BY <1>1 DEF AInv, SelfLeftLeaving
  <1>4. sent \in [Members -> SUBSET Message]
    BY DEF AInv, TInv, TypeOK
  <1>5. \A x \in Members : \A m \in sent'[x] :
            (m.type = "dead" => m.node \in Members) /\ MsgAnnounced(m)
    <2>1. \A x \in Members : \A m \in sent[x] : m.type = "dead" => m.node \in Members
      BY <1>4 DEF Message
    <2> QED
      BY <1>4, <2>1 DEF AInv, Queue
  <1>6. \A x \in Members : \A m \in sent'[x] : MsgAnnounced(m)'
    BY <1>5 DEF MsgAnnounced, AnnouncedGrows
  <1> QED
    BY <1>2, <1>3, <1>6 DEF AInv

\* A step that changes no view and queues only what may be queued.
LEMMA AnnouncedSame ==
    ASSUME AInv, FlagsKept, LeaveAnnounced', AnnouncedGrows, TInv', nodeMap' = nodeMap,
           \A x \in Members : \A m \in sent'[x] \ sent[x] : MsgAnnounced(m)
    PROVE  AInv'
  <1>1. \A x, y \in Members : EntryAnnounced(x, y)'
    BY DEF AInv, EntryAnnounced, AnnouncedGrows
  <1>2. SelfLeftLeaving'
    BY DEF AInv, SelfLeftLeaving, FlagsKept
  <1>3. \A x \in Members : \A m \in sent'[x] : m.type = "dead" => m.node \in Members
    <2>1. sent' \in [Members -> SUBSET Message]
      BY DEF TInv, TypeOK
    <2> QED
      BY <2>1 DEF Message
  <1>4. \A x \in Members : \A m \in sent'[x] : MsgAnnounced(m)
    BY DEF AInv
  <1>5. \A x \in Members : \A m \in sent'[x] : MsgAnnounced(m)'
    BY <1>3, <1>4 DEF MsgAnnounced, AnnouncedGrows
  <1> QED
    BY <1>1, <1>2, <1>5 DEF AInv

\* Messages of the other kinds are of no concern.
LEMMA OtherMsgs ==
    ASSUME NEW m, m.type # "dead"
    PROVE  (m.type = "dead" => m.node \in Members) /\ MsgAnnounced(m)
  BY DEF MsgAnnounced

\* refute does not make an entry left.
LEMMA AnnouncedRefute ==
    ASSUME AInv, leave' = leave, LeaveAnnounced', AnnouncedGrows, TInv',
           NEW i \in Members, NEW me \in Entry, me.st # "left", NEW accused,
           NEW loads, Refute(i, me, accused, loads)
    PROVE  AInv'
  <1>1. PICK e : e.st = me.st /\ SetEntry(i, i, e) /\ Queue(i, AliveMsg(i, e.inc, e.addr))
    BY RefuteState
  <1>2. AliveMsg(i, e.inc, e.addr).type # "dead"
    BY DEF AliveMsg
  <1> QED
    BY <1>1, <1>2, OtherMsgs, AnnouncedOne

\* A handler run keeps AInv: only deadNode stores StateLeft, and it stores what
\* a received message or our own Leave has announced.
LEMMA AnnouncedHandler ==
    ASSUME AInv, leave' = leave, LeaveAnnounced', AnnouncedGrows, TInv',
           NEW i \in Members, RunsHandler(i)
    PROVE  AInv'
  <1>0. HandlerTyped /\ FlagsKept
    BY HandlerPre DEF AInv, FlagsKept
  <1>1. ASSUME NEW a \in AliveMsgs, NEW loads, AliveSelf(i, a, loads)
        PROVE  AInv'
    <2>1. a.node = i /\ ~leave[i]
      BY <1>1 DEF AliveSelf, AliveAccepted
    <2>2. Lookup(i, a) \in Entry
      BY <1>0, LookupType
    <2>3. Lookup(i, a).st # "left"
      BY <2>1 DEF Lookup, AInv, SelfLeftLeaving
    <2>4. CASE SetEntry(i, i, Lookup(i, a)) /\ UNCHANGED sent
      BY <2>3, <2>4, AnnouncedOne
    <2>5. CASE Refute(i, Lookup(i, a), a.inc, loads)
      BY <2>2, <2>3, <2>5, AnnouncedRefute
    <2> QED
      BY <1>1, <2>4, <2>5 DEF AliveSelf
  <1>2. ASSUME NEW a \in AliveMsgs, AliveUpdate(i, a)
        PROVE  AInv'
    <2>1. a.node \in Members /\ a.type # "dead"
      BY DEF AliveMsgs
    <2>2. PICK e : e.st = "alive" /\ SetEntry(i, a.node, e) /\ Queue(i, a)
      BY <1>2 DEF AliveUpdate
    <2> QED
      BY <2>1, <2>2, OtherMsgs, AnnouncedOne
  <1>3. ASSUME NEW s \in SuspectMsgs, suspectNode(i, s)
        PROVE  AInv'
    <2>1. s.node \in Members /\ s.type # "dead"
      BY DEF SuspectMsgs
    <2>2. CASE SuspectConfirm(i, s)
      <3>1. nodeMap' = nodeMap /\ Queue(i, s)
        BY <2>2 DEF SuspectConfirm
      <3>2. \A x \in Members : \A m \in sent'[x] \ sent[x] : MsgAnnounced(m)
        BY <3>1, <2>1, <1>0, OtherMsgs DEF Queue, HandlerTyped
      <3> QED
        BY <1>0, <3>1, <3>2, AnnouncedSame
    <2>3. CASE SuspectSelf(i, s)
      <3>1. nodeMap[i][i] \in Entry /\ nodeMap[i][i].st # "left"
        BY <2>3, <1>0 DEF SuspectSelf, HandlerTyped
      <3> QED
        BY <2>3, <3>1, AnnouncedRefute DEF SuspectSelf
    <2>4. CASE SuspectStart(i, s)
      <3> DEFINE e == [nodeMap[i][s.node] EXCEPT !.inc = s.inc, !.st = "suspect"]
      <3>1. SetEntry(i, s.node, e) /\ Queue(i, s)
        BY <2>4 DEF SuspectStart
      <3>2. nodeMap[i][s.node] \in Entry
        BY <1>0, <2>1 DEF HandlerTyped
      <3>3. e.st = "suspect"
        BY <3>2 DEF Entry
      <3> HIDE DEF e
      <3> QED
        BY <2>1, <3>1, <3>3, OtherMsgs, AnnouncedOne
    <2> QED
      BY <1>3, <2>2, <2>3, <2>4 DEF suspectNode
  <1>4. ASSUME NEW d \in DeadMsgs, deadNode(i, d), DeadSource(i, d)
        PROVE  AInv'
    <2>1. d.node \in Members /\ d.type = "dead"
      BY DEF DeadMsgs
    <2>2. MsgAnnounced(d)
      <3>1. CASE \E k \in Members : d \in Deads(k)
        BY <3>1 DEF Deads, AInv
      <3>2. CASE main[i].op = "Leave" /\ d = DeadMsg(i, main[i].inc, i)
        BY <3>2 DEF DeadMsg, MsgAnnounced, AInv, LeaveAnnounced
      <3> QED
        BY <1>4, <3>1, <3>2 DEF DeadSource
    <2>3. CASE DeadSelfRefute(i, d)
      <3>1. nodeMap[i][i] \in Entry /\ nodeMap[i][i].st # "left"
        BY <2>3, <1>0 DEF DeadSelfRefute, DeadOrLeft, HandlerTyped
      <3> QED
        BY <2>3, <3>1, AnnouncedRefute DEF DeadSelfRefute
    <2>4. CASE DeadUpdate(i, d)
      <3> DEFINE st == IF d.node = d.from THEN "left" ELSE "dead"
                 e == [nodeMap[i][d.node] EXCEPT !.inc = d.inc, !.st = st]
      <3>1. SetEntry(i, d.node, e) /\ Queue(i, d) /\ (d.node = i => leave[i])
        BY <2>4 DEF DeadUpdate
      <3>2. nodeMap[i][d.node] \in Entry
        BY <1>0, <2>1 DEF HandlerTyped
      <3>3. e.inc = d.inc
        BY <3>2 DEF Entry
      <3>4. d.inc \in announced[d.node]
        BY <2>1, <2>2 DEF MsgAnnounced
      <3> HIDE DEF e
      <3> QED
        BY <2>1, <2>2, <3>1, <3>3, <3>4, AnnouncedOne
    <2>5. CASE DeadRepeat(i, d)
      BY <1>0, <2>5, AnnouncedSame DEF DeadRepeat
    <2> QED
      BY <1>4, <2>3, <2>4, <2>5 DEF deadNode
  <1> QED
    BY <1>1, <1>2, <1>3, <1>4 DEF RunsHandler

\* AInv is inductive.
LEMMA AInvInductive == AInv /\ [Next]_vars => AInv'
  <1> SUFFICES ASSUME AInv, [Next]_vars PROVE AInv'
    OBVIOUS
  <1>0. TInv' /\ LeaveAnnounced' /\ AnnouncedGrows
    BY TInvInductive, LeaveAnnouncedInductive DEF AInv
  <1>1. ASSUME NEW i \in Members, Exit(i) PROVE AInv'
    <2>1. /\ \A j \in Members : nodeMap'[i][j].st # "left"
          /\ \A x \in Members \ {i} : nodeMap'[x] = nodeMap[x] /\ leave'[x] = leave[x]
          /\ sent' = sent /\ announced' = announced
      BY <1>1 DEF Exit, NoEntry, AInv, TInv, TypeOK
    <2>2. \A x, y \in Members : EntryAnnounced(x, y)'
      BY <2>1 DEF AInv, EntryAnnounced
    <2>3. SelfLeftLeaving'
      BY <2>1 DEF AInv, SelfLeftLeaving
    <2>4. \A x \in Members : \A m \in sent'[x] : MsgAnnounced(m)'
      BY <2>1 DEF AInv, MsgAnnounced
    <2> QED
      BY <1>0, <2>2, <2>3, <2>4 DEF AInv
  <1>2. ASSUME ViewsKept, FlagsKept PROVE AInv'
    <2>1. \A x \in Members : \A m \in sent'[x] \ sent[x] : MsgAnnounced(m)
      BY <1>2 DEF ViewsKept, MsgAnnounced, AInv, EntryAnnounced
    <2> QED
      BY <1>0, <1>2, <2>1, AnnouncedSame DEF ViewsKept
  <1>3. ASSUME NEW i \in Members, RunsHandler(i), leave' = leave PROVE AInv'
    BY <1>0, <1>3, AnnouncedHandler
  <1>4. TInv
    BY DEF AInv
  <1> QED
    BY <1>1, <1>2, <1>3, <1>4, StepKinds

\* No member is ever taken to have left, nor is a dead message ever sent about
\* it, unless it called Leave itself at that very incarnation, whatever is
\* probed, suspected, merged from push/pull or replayed.
THEOREM LeftOnlyIfAnnounced == Spec => []LeftIsAnnounced
  <1>1. Init => AInv
    BY ConstantTypes, AddrsNonempty
    DEF Init, AInv, TInv, TypeOK, Positive, NoEntry, NoTimer, Idle, Entry, Calls,
        LeaveAnnounced, SelfLeftLeaving, EntryAnnounced, MsgAnnounced
  <1>2. AInv => LeftIsAnnounced
    BY DEF AInv, LeftIsAnnounced, EntryAnnounced, MsgAnnounced
  <1> QED
    BY <1>1, <1>2, AInvInductive, PTL DEF Spec
-----------------------------------------------------------------------------
(* What is believed is gossiped. *)

\* What EveryBeliefGossiped says of an entry e about j and the broadcasts S.
Gossiped(j, e, S) ==
    /\ e.st = "alive" => AliveMsg(j, e.inc, e.addr) \in S
    /\ e.st = "left" => DeadMsg(j, e.inc, j) \in S
    /\ e.st = "suspect" => \E f \in Members : SuspectMsg(j, e.inc, f) \in S

AllGossiped == \A i, j \in Members : Gossiped(j, nodeMap[i][j], sent[i])

\* Queueing one broadcast keeps those that are there.
LEMMA QueueGrows ==
    ASSUME HandlerTyped, NEW i \in Members, NEW m, Queue(i, m)
    PROVE  m \in sent'[i] /\ \A x \in Members : sent[x] \subseteq sent'[x]
  BY DEF HandlerTyped, Queue

\* More broadcasts do no harm.
LEMMA GossipedGrows ==
    ASSUME NEW j, NEW e, NEW S, NEW T, S \subseteq T, Gossiped(j, e, S)
    PROVE  Gossiped(j, e, T)
  BY DEF Gossiped

\* A handler replaces one entry and gossips what it says.
LEMMA GossipedOne ==
    ASSUME HandlerTyped, AllGossiped, NEW i \in Members, NEW n \in Members, NEW e,
           SetEntry(i, n, e), Gossiped(n, e, sent'[i]),
           \A x \in Members : sent[x] \subseteq sent'[x]
    PROVE  AllGossiped'
  <1>1. /\ nodeMap'[i][n] = e
        /\ \A x, y \in Members : x # i \/ y # n => nodeMap'[x][y] = nodeMap[x][y]
    BY OneEntry
  <1>2. ASSUME NEW x \in Members, NEW y \in Members
        PROVE  Gossiped(y, nodeMap'[x][y], sent'[x])
    <2>1. Gossiped(y, nodeMap[x][y], sent'[x])
      BY GossipedGrows DEF AllGossiped
    <2> QED
      BY <1>1, <2>1
  <1> QED
    BY <1>2 DEF AllGossiped, Gossiped

\* No entry changes.
LEMMA GossipedSame ==
    ASSUME AllGossiped, nodeMap' = nodeMap, \A x \in Members : sent[x] \subseteq sent'[x]
    PROVE  AllGossiped'
  <1>1. ASSUME NEW x \in Members, NEW y \in Members
        PROVE  Gossiped(y, nodeMap'[x][y], sent'[x])
    BY GossipedGrows DEF AllGossiped
  <1> QED
    BY <1>1 DEF AllGossiped, Gossiped

\* refute gossips the entry it stores; it is not run on an entry suspected or
\* left.
LEMMA GossipedRefute ==
    ASSUME HandlerTyped, AllGossiped, NEW i \in Members, NEW me \in Entry,
           me.st \notin {"left", "suspect"}, NEW accused, NEW loads, Refute(i, me, accused, loads)
    PROVE  AllGossiped'
  <1>1. PICK e : e.st = me.st /\ SetEntry(i, i, e) /\ Queue(i, AliveMsg(i, e.inc, e.addr))
    BY RefuteState
  <1>2. AliveMsg(i, e.inc, e.addr) \in sent'[i] /\ \A x \in Members : sent[x] \subseteq sent'[x]
    BY <1>1, QueueGrows
  <1>3. Gossiped(i, e, sent'[i])
    BY <1>1, <1>2 DEF Gossiped
  <1> QED
    BY <1>1, <1>2, <1>3, GossipedOne

\* aliveNode, suspectNode and deadNode gossip whatever they store.
LEMMA GossipedHandler ==
    ASSUME HandlerTyped, AllGossiped, SelfNotSuspect, SelfLeftLeaving,
           NEW i \in Members, RunsHandler(i)
    PROVE  AllGossiped'
  <1>1. ASSUME NEW a \in AliveMsgs, NEW loads, AliveSelf(i, a, loads)
        PROVE  AllGossiped'
    <2>1. a.node = i /\ ~leave[i]
      BY <1>1 DEF AliveSelf, AliveAccepted
    <2>2. Lookup(i, a) \in Entry
      BY LookupType
    <2>3. Lookup(i, a).st \notin {"left", "suspect"}
      BY <2>1 DEF Lookup, SelfLeftLeaving, SelfNotSuspect
    <2>4. CASE SetEntry(i, i, Lookup(i, a)) /\ UNCHANGED sent
      <3>1. Lookup(i, a) = nodeMap[i][i] \/ Lookup(i, a).st = "dead"
        BY <2>1 DEF Lookup
      <3>2. Gossiped(i, nodeMap[i][i], sent'[i])
        BY <2>4 DEF AllGossiped
      <3>3. Gossiped(i, Lookup(i, a), sent'[i])
        BY <3>1, <3>2 DEF Gossiped
      <3> QED
        BY <2>4, <3>3, GossipedOne
    <2>5. CASE Refute(i, Lookup(i, a), a.inc, loads)
      BY <2>2, <2>3, <2>5, GossipedRefute
    <2> QED
      BY <1>1, <2>4, <2>5 DEF AliveSelf
  <1>2. ASSUME NEW a \in AliveMsgs, AliveUpdate(i, a)
        PROVE  AllGossiped'
    <2> DEFINE e == [inc |-> a.inc, st |-> "alive", addr |-> a.addr]
    <2>1. a.node \in Members /\ a = AliveMsg(a.node, e.inc, e.addr)
      BY DEF AliveMsgs, AliveMsg
    <2>2. SetEntry(i, a.node, e) /\ Queue(i, a)
      BY <1>2 DEF AliveUpdate
    <2>3. a \in sent'[i] /\ \A x \in Members : sent[x] \subseteq sent'[x]
      BY <2>2, QueueGrows
    <2>4. Gossiped(a.node, e, sent'[i])
      BY <2>1, <2>3 DEF Gossiped
    <2> HIDE DEF e
    <2> QED
      BY <2>1, <2>2, <2>3, <2>4, GossipedOne
  <1>3. ASSUME NEW s \in SuspectMsgs, suspectNode(i, s)
        PROVE  AllGossiped'
    <2>1. s.node \in Members /\ s.from \in Members
          /\ s = SuspectMsg(s.node, s.inc, s.from)
      BY DEF SuspectMsgs, SuspectMsg
    <2>2. CASE SuspectConfirm(i, s)
      BY <2>2, QueueGrows, GossipedSame DEF SuspectConfirm
    <2>3. CASE SuspectSelf(i, s)
      <3>1. nodeMap[i][i] \in Entry /\ nodeMap[i][i].st \notin {"left", "suspect"}
        BY <2>3 DEF SuspectSelf, HandlerTyped
      <3> QED
        BY <2>3, <3>1, GossipedRefute DEF SuspectSelf
    <2>4. CASE SuspectStart(i, s)
      <3> DEFINE e == [nodeMap[i][s.node] EXCEPT !.inc = s.inc, !.st = "suspect"]
      <3>1. SetEntry(i, s.node, e) /\ Queue(i, s)
        BY <2>4 DEF SuspectStart
      <3>2. nodeMap[i][s.node] \in Entry
        BY <2>1 DEF HandlerTyped
      <3>3. e.st = "suspect" /\ e.inc = s.inc
        BY <3>2 DEF Entry
      <3>4. s \in sent'[i] /\ \A x \in Members : sent[x] \subseteq sent'[x]
        BY <3>1, QueueGrows
      <3> HIDE DEF e
      <3>5. Gossiped(s.node, e, sent'[i])
        BY <2>1, <3>3, <3>4 DEF Gossiped
      <3> QED
        BY <2>1, <3>1, <3>4, <3>5, GossipedOne
    <2> QED
      BY <1>3, <2>2, <2>3, <2>4 DEF suspectNode
  <1>4. ASSUME NEW d \in DeadMsgs, deadNode(i, d)
        PROVE  AllGossiped'
    <2>1. d.node \in Members /\ d = DeadMsg(d.node, d.inc, d.from)
      BY DEF DeadMsgs, DeadMsg
    <2>2. CASE DeadSelfRefute(i, d)
      <3>1. nodeMap[i][i] \in Entry /\ nodeMap[i][i].st \notin {"left", "suspect"}
        BY <2>2 DEF DeadSelfRefute, DeadOrLeft, HandlerTyped, SelfNotSuspect
      <3> QED
        BY <2>2, <3>1, GossipedRefute DEF DeadSelfRefute
    <2>3. CASE DeadUpdate(i, d)
      <3> DEFINE st == IF d.node = d.from THEN "left" ELSE "dead"
                 e == [nodeMap[i][d.node] EXCEPT !.inc = d.inc, !.st = st]
      <3>1. SetEntry(i, d.node, e) /\ Queue(i, d)
        BY <2>3 DEF DeadUpdate
      <3>2. nodeMap[i][d.node] \in Entry
        BY <2>1 DEF HandlerTyped
      <3>3. e.st = st /\ e.inc = d.inc
        BY <3>2 DEF Entry
      <3>4. d \in sent'[i] /\ \A x \in Members : sent[x] \subseteq sent'[x]
        BY <3>1, QueueGrows
      <3> HIDE DEF e
      <3>5. Gossiped(d.node, e, sent'[i])
        BY <2>1, <3>3, <3>4 DEF Gossiped
      <3> QED
        BY <2>1, <3>1, <3>4, <3>5, GossipedOne
    <2>4. CASE DeadRepeat(i, d)
      BY <2>4, GossipedSame DEF DeadRepeat
    <2> QED
      BY <1>4, <2>2, <2>3, <2>4 DEF deadNode
  <1> QED
    BY <1>1, <1>2, <1>3, <1>4 DEF RunsHandler

GInv == AInv /\ TimerSafe /\ AllGossiped

\* EveryBeliefGossiped is inductive with what keeps refute off entries that
\* are suspected or left.
LEMMA GInvInductive == GInv /\ [Next]_vars => GInv'
  <1> SUFFICES ASSUME GInv, [Next]_vars PROVE GInv'
    OBVIOUS
  <1>0. TInv /\ HandlerTyped /\ SelfNotSuspect /\ SelfLeftLeaving /\ AllGossiped
    BY HandlerPre DEF GInv, AInv, TimerSafe
  <1>1. AInv' /\ TimerSafe'
    BY <1>0, AInvInductive, TimerSafeInductive DEF GInv
  <1>2. ASSUME NEW i \in Members, Exit(i) PROVE AllGossiped'
    <2>1. /\ \A j \in Members : nodeMap'[i][j].st = "unknown"
          /\ \A x \in Members \ {i} : nodeMap'[x] = nodeMap[x]
          /\ sent' = sent
      BY <1>0, <1>2 DEF Exit, NoEntry, TInv, TypeOK
    <2> QED
      BY <1>0, <2>1 DEF AllGossiped, Gossiped
  <1>3. ASSUME ViewsKept PROVE AllGossiped'
    BY <1>0, <1>3, GossipedSame DEF ViewsKept
  <1>4. ASSUME NEW i \in Members, RunsHandler(i) PROVE AllGossiped'
    BY <1>0, <1>4, GossipedHandler
  <1>5. AllGossiped'
    BY <1>0, <1>2, <1>3, <1>4, StepKinds
  <1> QED
    BY <1>1, <1>5 DEF GInv

\* Whatever aliveNode, suspectNode, deadNode and refute store, they have queued
\* for gossip: no belief of a member depends on push/pull to spread.
THEOREM BeliefsAreGossiped == Spec => []EveryBeliefGossiped
  <1>1. Init => GInv
    <2> SUFFICES ASSUME Init PROVE GInv
      OBVIOUS
    <2>1. AInv
      BY ConstantTypes, AddrsNonempty
      DEF Init, AInv, TInv, TypeOK, Positive, NoEntry, NoTimer, Idle, Entry, Calls,
          LeaveAnnounced, SelfLeftLeaving, EntryAnnounced, MsgAnnounced
    <2>2. \A i, j \in Members : nodeMap[i][j].st = "unknown" /\ ~HasTimer(i, j)
      BY DEF Init, NoEntry, NoTimer, HasTimer
    <2>3. TimerSafe /\ AllGossiped
      BY <2>2 DEF TimerSafe, TimerIffSuspect, SelfNotSuspect, AllGossiped, Gossiped
    <2> QED
      BY <2>1, <2>3 DEF GInv
  <1>2. GInv => EveryBeliefGossiped
    <2> SUFFICES ASSUME GInv, NEW i \in Members, NEW j \in Members
                 PROVE  Gossiped(j, nodeMap[i][j], sent[i])
      BY DEF EveryBeliefGossiped, Gossiped
    <2> QED
      BY DEF GInv, AllGossiped
  <1> QED
    BY <1>1, <1>2, GInvInductive, PTL DEF Spec
-----------------------------------------------------------------------------
(* The counter and our own entry. *)

\* The shape of the main thread's calls.  Our entry is not alive before setAlive
\* has called aliveNode: an old message about ourselves that overtakes it is
\* refuted on a fresh StateDead entry.
CallShape(i) ==
    /\ status[i] = "off" =>
           nodeMap[i][i].st = "unknown" /\ main[i].op = "none" /\ ~leave[i]
    /\ main[i].op = "none" => main[i].pc = "idle"
    /\ main[i].op = "setAlive" => ~leave[i] /\ nodeMap[i][i].st # "alive"
    /\ main[i].op = "UpdateNode" => main[i].pc # "idle"
    /\ main[i].op = "Leave" => leave[i] /\ main[i].pc = "call"

\* Our entry is behind the counter by at most the one number that a pending
\* UpdateNode has added and not yet announced.
EntryBehind(i) ==
    nodeMap[i][i].st = "alive" =>
        /\ nodeMap[i][i].inc <= incarnation[i]
        /\ ~leave[i] =>
               \/ nodeMap[i][i].inc = incarnation[i]
               \/ /\ nodeMap[i][i].inc + 1 = incarnation[i]
                  /\ main[i].op = "UpdateNode" /\ main[i].pc # "add"

\* The number that a pending call has loaded is the counter's, unless a refute
\* came after the load; then our entry has the counter's.
CallCurrent(i) ==
    main[i].pc = "call" /\ ~leave[i] =>
        /\ main[i].inc <= incarnation[i]
        /\ \/ main[i].inc = incarnation[i]
           \/ Known(i, i) /\ nodeMap[i][i].inc = incarnation[i]

CInv == TInv /\ \A i \in Members : CallShape(i) /\ EntryBehind(i) /\ CallCurrent(i)

\* What a handler that runs on i does to i's own entry and counter: nothing;
\* it outbids, and then the entry has the counter's number or the counter did
\* not change; or it obeys a dead message because i leaves.
OwnSame(i) == nodeMap'[i][i] = nodeMap[i][i] /\ incarnation'[i] = incarnation[i]

OwnOutbid(i) ==
    /\ nodeMap'[i][i].st # "unknown"
    /\ nodeMap'[i][i].st = "alive" <=> nodeMap[i][i].st = "alive"
    /\ incarnation'[i] >= incarnation[i]
    /\ nodeMap'[i][i].inc <= incarnation'[i]
    /\ \/ nodeMap'[i][i].inc = incarnation'[i]
       \/ /\ incarnation'[i] = incarnation[i]
          /\ Known(i, i) => nodeMap[i][i].inc < nodeMap'[i][i].inc

OwnGone(i) ==
    /\ leave[i]
    /\ incarnation'[i] = incarnation[i]
    /\ nodeMap'[i][i].st \in {"left", "dead"}

OthersOwnKept(i) ==
    \A k \in Members \ {i} :
        nodeMap'[k][k] = nodeMap[k][k] /\ incarnation'[k] = incarnation[k]

OwnStep(i) == OthersOwnKept(i) /\ (OwnSame(i) \/ OwnOutbid(i) \/ OwnGone(i))

\* A handler that leaves the counter and our entry alone.
LEMMA OwnKept ==
    ASSUME HandlerTyped, NEW i \in Members, CounterUnchanged,
           \/ UNCHANGED nodeMap
           \/ \E n \in Members \ {i} : \E e : SetEntry(i, n, e)
           \/ SetEntry(i, i, nodeMap[i][i])
    PROVE  OwnStep(i)
  <1>1. incarnation' = incarnation
    BY DEF CounterUnchanged
  <1>2. \A k \in Members : nodeMap'[k][k] = nodeMap[k][k]
    BY DEF HandlerTyped, SetEntry
  <1> QED
    BY <1>1, <1>2 DEF OwnStep, OthersOwnKept, OwnSame

\* refute of an accusation that is not below our entry.
LEMMA OwnRefute ==
    ASSUME HandlerTyped, NEW i \in Members, NEW me \in Entry, NEW accused \in Nat,
           NEW loads \in SUBSET (0..incarnation[i]), Refute(i, me, accused, loads),
           me.st # "unknown", me.st = "alive" <=> nodeMap[i][i].st = "alive",
           Known(i, i) => nodeMap[i][i].inc <= accused
    PROVE  OwnStep(i)
  <1> DEFINE C(old) == IF accused >= old THEN incarnation[i] + (accused - old + 1)
                       ELSE incarnation[i]
             I(old) == IF accused >= old THEN C(old) ELSE old
  <1>1. PICK old \in loads :
            /\ Advance(i, C(old))
            /\ SetEntry(i, i, [me EXCEPT !.inc = I(old)])
    BY DEF Refute
  <1>2. old \in Nat /\ incarnation[i] \in Nat /\ old <= incarnation[i]
    BY DEF HandlerTyped
  <1>3. nodeMap[i][i].inc \in Nat
    BY DEF HandlerTyped, Entry
  <1>4. /\ C(old) \in Nat /\ I(old) \in Nat
        /\ C(old) >= incarnation[i] /\ I(old) <= C(old)
        /\ \/ I(old) = C(old)
           \/ C(old) = incarnation[i] /\ accused < I(old)
    BY <1>2
  <1> DEFINE f == [me EXCEPT !.inc = I(old)]
  <1>5. f.inc = I(old) /\ f.st = me.st
    BY DEF Entry
  <1> HIDE DEF f
  <1>6. /\ nodeMap'[i][i].inc = I(old) /\ nodeMap'[i][i].st = me.st
        /\ \A k \in Members \ {i} : nodeMap'[k][k] = nodeMap[k][k]
    <2>1. SetEntry(i, i, f)
      BY <1>1 DEF f
    <2> QED
      BY <1>5, <2>1, OneEntry
  <1>7. incarnation'[i] = C(old) /\ \A k \in Members \ {i} : incarnation'[k] = incarnation[k]
    BY <1>1 DEF Advance, HandlerTyped
  <1> HIDE DEF C, I
  <1>8. OwnOutbid(i)
    BY <1>2, <1>3, <1>4, <1>6, <1>7 DEF OwnOutbid
  <1> QED
    BY <1>6, <1>7, <1>8 DEF OwnStep, OthersOwnKept

\* aliveNode for a message about ourselves that did not come from setAlive.
LEMMA OwnAliveSelf ==
    ASSUME HandlerTyped, NEW i \in Members, NEW a \in AliveMsgs,
           NEW loads \in SUBSET (0..incarnation[i]), AliveSelf(i, a, loads)
    PROVE  OwnStep(i)
  <1>1. /\ Lookup(i, a) \in Entry /\ a.inc \in Nat \ {0} /\ a.node = i
        /\ nodeMap[i][i] \in Entry
    BY LookupType DEF AliveMsgs, AliveSelf, HandlerTyped
  <1>2. /\ Known(i, i) => Lookup(i, a) = nodeMap[i][i]
        /\ ~Known(i, i) => Lookup(i, a).inc = 0 /\ Lookup(i, a).st = "dead"
    BY <1>1 DEF Lookup
  <1>3. ~(a.inc < Lookup(i, a).inc)
    BY <1>1 DEF AliveSelf, AliveAccepted, OldAlive
  <1>4. CASE a.inc = Lookup(i, a).inc
    BY <1>1, <1>2, <1>4, OwnKept DEF AliveSelf
  <1>5. CASE a.inc # Lookup(i, a).inc
    <2>1. Refute(i, Lookup(i, a), a.inc, loads)
      BY <1>5 DEF AliveSelf
    <2>2. /\ Lookup(i, a).st # "unknown"
          /\ Lookup(i, a).st = "alive" <=> nodeMap[i][i].st = "alive"
      BY <1>2 DEF Known
    <2>3. Known(i, i) => nodeMap[i][i].inc <= a.inc
      BY <1>1, <1>2, <1>3 DEF Entry
    <2> QED
      BY <1>1, <2>1, <2>2, <2>3, OwnRefute
  <1> QED
    BY <1>4, <1>5

\* The handlers, run for messages and for failed probes.
LEMMA OwnHandler ==
    ASSUME TInv, NEW i \in Members,
           \/ \E a \in AliveMsgs : aliveNode(i, a)
           \/ \E s \in SuspectMsgs : suspectNode(i, s)
           \/ \E d \in DeadMsgs : deadNode(i, d)
    PROVE  OwnStep(i)
  <1>0. /\ HandlerTyped /\ Loaded(i) \in SUBSET (0..incarnation[i])
        /\ nodeMap[i][i] \in Entry
    BY HandlerPre DEF LoadsTyped, HandlerTyped
  <1>1. ASSUME NEW a \in AliveMsgs, aliveNode(i, a)
        PROVE  OwnStep(i)
    <2>1. CASE a.node = i
      BY <1>0, <1>1, <2>1, OwnAliveSelf DEF aliveNode
    <2>2. CASE a.node # i
      <3>1. a.node \in Members \ {i}
        BY <2>2 DEF AliveMsgs
      <3> QED
        BY <1>0, <1>1, <2>2, <3>1, OwnKept DEF aliveNode, AliveUpdate
    <2> QED
      BY <2>1, <2>2
  <1>2. ASSUME NEW s \in SuspectMsgs, suspectNode(i, s)
        PROVE  OwnStep(i)
    <2>0. s.node \in Members /\ s.inc \in Nat
      BY DEF SuspectMsgs
    <2>1. CASE SuspectConfirm(i, s)
      BY <1>0, <2>1, OwnKept DEF SuspectConfirm
    <2>2. CASE SuspectSelf(i, s)
      <3>1. /\ Refute(i, nodeMap[i][i], s.inc, Loaded(i))
            /\ nodeMap[i][i].st = "alive" /\ s.inc >= nodeMap[i][i].inc
        BY <2>2 DEF SuspectSelf, Fresh
      <3>2. nodeMap[i][i].inc <= s.inc
        BY <1>0, <2>0, <3>1 DEF Entry
      <3> QED
        BY <1>0, <2>0, <3>1, <3>2, OwnRefute
    <2>3. CASE SuspectStart(i, s)
      <3>1. s.node \in Members \ {i}
        BY <2>0, <2>3 DEF SuspectStart
      <3> QED
        BY <1>0, <2>3, <3>1, OwnKept DEF SuspectStart
    <2> QED
      BY <1>2, <2>1, <2>2, <2>3 DEF suspectNode
  <1>3. ASSUME NEW d \in DeadMsgs, deadNode(i, d)
        PROVE  OwnStep(i)
    <2>0. d.node \in Members /\ d.inc \in Nat
      BY DEF DeadMsgs
    <2>1. CASE DeadSelfRefute(i, d)
      <3>1. /\ Refute(i, nodeMap[i][i], d.inc, Loaded(i))
            /\ Known(i, i) /\ d.inc >= nodeMap[i][i].inc
        BY <2>1 DEF DeadSelfRefute, Fresh
      <3>2. nodeMap[i][i].inc <= d.inc
        BY <1>0, <2>0, <3>1 DEF Entry
      <3> QED
        BY <1>0, <2>0, <3>1, <3>2, OwnRefute DEF Known
    <2>2. CASE DeadUpdate(i, d)
      <3> DEFINE st == IF d.node = d.from THEN "left" ELSE "dead"
                 e == [nodeMap[i][d.node] EXCEPT !.inc = d.inc, !.st = st]
      <3>1. SetEntry(i, d.node, e) /\ CounterUnchanged
        BY <2>2 DEF DeadUpdate
      <3>2. CASE d.node = i
        <4>1. leave[i]
          BY <2>2, <3>2 DEF DeadUpdate
        <4>2. e.st = st
          BY <1>0, <3>2 DEF Entry
        <4>3. nodeMap'[i][i] = e /\ \A k \in Members \ {i} : nodeMap'[k][k] = nodeMap[k][k]
          BY <1>0, <3>1, <3>2, OneEntry
        <4> HIDE DEF e
        <4> QED
          BY <3>1, <4>1, <4>2, <4>3 DEF OwnStep, OwnGone, OthersOwnKept, CounterUnchanged
      <3>3. CASE d.node # i
        <4>1. d.node \in Members \ {i}
          BY <2>0, <3>3
        <4> QED
          BY <1>0, <3>1, <4>1, OwnKept
      <3> QED
        BY <3>2, <3>3
    <2>3. CASE DeadRepeat(i, d)
      BY <1>0, <2>3, OwnKept DEF DeadRepeat
    <2> QED
      BY <1>3, <2>1, <2>2, <2>3 DEF deadNode
  <1> QED
    BY <1>1, <1>2, <1>3

\* A handler step on i keeps CInv: main and the flags do not change.
LEMMA OwnStepKeeps ==
    ASSUME CInv, TInv', NEW i \in Members, OwnStep(i),
           UNCHANGED <<status, leave, main>>, status[i] = "running"
    PROVE  CInv'
  <1> SUFFICES ASSUME NEW k \in Members
               PROVE  (CallShape(k) /\ EntryBehind(k) /\ CallCurrent(k))'
    BY DEF CInv
  <1>1. CallShape(k) /\ EntryBehind(k) /\ CallCurrent(k)
    BY DEF CInv
  <1>2. /\ nodeMap[k][k].inc \in Nat /\ nodeMap'[k][k].inc \in Nat
        /\ incarnation[k] \in Nat /\ incarnation'[k] \in Nat
        /\ main[k].inc \in Nat
    BY DEF CInv, TInv, TypeOK, Entry, Calls
  <1>3. CASE nodeMap'[k][k] = nodeMap[k][k] /\ incarnation'[k] = incarnation[k]
    BY <1>1, <1>3 DEF CallShape, EntryBehind, CallCurrent, Known
  <1>4. CASE k = i /\ OwnOutbid(i)
    <2>1. CallShape(k)'
      BY <1>1, <1>4 DEF CallShape, OwnOutbid
    <2>2. EntryBehind(k)'
      BY <1>1, <1>2, <1>4 DEF EntryBehind, OwnOutbid, Known
    <2>3. CallCurrent(k)'
      BY <1>1, <1>2, <1>4 DEF CallCurrent, OwnOutbid, Known
    <2> QED
      BY <2>1, <2>2, <2>3
  <1>5. CASE k = i /\ OwnGone(i)
    BY <1>1, <1>5 DEF CallShape, EntryBehind, CallCurrent, OwnGone
  <1> QED
    BY <1>3, <1>4, <1>5 DEF OwnStep, OthersOwnKept, OwnSame

\* It suffices to look at the member that takes the step.
LEMMA OthersStay ==
    ASSUME CInv, TInv', NEW i \in Members,
           \A k \in Members \ {i} :
               /\ status'[k] = status[k] /\ leave'[k] = leave[k] /\ main'[k] = main[k]
               /\ nodeMap'[k][k] = nodeMap[k][k] /\ incarnation'[k] = incarnation[k],
           CallShape(i)' /\ EntryBehind(i)' /\ CallCurrent(i)'
    PROVE  CInv'
  <1> SUFFICES ASSUME NEW k \in Members \ {i}
               PROVE  (CallShape(k) /\ EntryBehind(k) /\ CallCurrent(k))'
    BY DEF CInv
  <1>1. CallShape(k) /\ EntryBehind(k) /\ CallCurrent(k)
    BY DEF CInv
  <1> QED
    BY <1>1 DEF CallShape, EntryBehind, CallCurrent, Known

\* The steps of the main thread outside nodeMutex.
LEMMA OwnMain ==
    ASSUME CInv, TInv', NEW i \in Members,
           \/ \E a \in Addrs : Start(i, a)
           \/ NextIncAdd(i) \/ NextIncLoad(i) \/ UpdateNodeBegin(i) \/ LeaveBegin(i)
    PROVE  CInv'
  <1>a. CallShape(i) /\ EntryBehind(i) /\ CallCurrent(i)
    BY DEF CInv
  <1>b. /\ main[i] \in Calls /\ incarnation[i] \in Nat /\ nodeMap[i][i].inc \in Nat
        /\ nodeMap[i][i].st = "alive" => nodeMap[i][i].inc # 0
    BY DEF CInv, TInv, TypeOK, Entry, Positive
  <1>1. ASSUME NEW a \in Addrs, Start(i, a) PROVE CInv'
    <2>1. /\ status[i] = "off" /\ main'[i] = [op |-> "setAlive", pc |-> "add", inc |-> 0]
          /\ status'[i] = "running"
          /\ UNCHANGED <<leave, nodeMap, incarnation>>
          /\ \A k \in Members \ {i} : main'[k] = main[k] /\ status'[k] = status[k]
      BY <1>1 DEF Start, HandlerUnchanged, CInv, TInv, TypeOK
    <2>2. CallShape(i)' /\ EntryBehind(i)' /\ CallCurrent(i)'
      BY <1>a, <2>1 DEF CallShape, EntryBehind, CallCurrent
    <2> QED
      BY <2>1, <2>2, OthersStay
  <1>2. ASSUME NextIncAdd(i) PROVE CInv'
    <2>1. /\ status[i] = "running" /\ main[i].pc = "add"
          /\ main' = [main EXCEPT ![i].pc = "load"]
          /\ incarnation' = [incarnation EXCEPT ![i] = incarnation[i] + 1]
          /\ UNCHANGED <<status, leave, nodeMap>>
      BY <1>2 DEF NextIncAdd, Advance
    <2>2. /\ main'[i].pc = "load" /\ main'[i].op = main[i].op
          /\ incarnation'[i] = incarnation[i] + 1
          /\ \A k \in Members \ {i} :
                main'[k] = main[k] /\ incarnation'[k] = incarnation[k]
      BY <1>b, <2>1 DEF CInv, TInv, TypeOK, Calls
    <2>3. main[i].op \in {"setAlive", "UpdateNode"}
      BY <1>a, <1>b, <2>1 DEF CallShape, Calls
    <2>4. CallShape(i)' /\ CallCurrent(i)'
      BY <1>a, <2>1, <2>2, <2>3 DEF CallShape, CallCurrent
    <2>5. EntryBehind(i)'
      BY <1>a, <1>b, <2>1, <2>2, <2>3 DEF CallShape, EntryBehind
    <2> QED
      BY <2>1, <2>2, <2>4, <2>5, OthersStay
  <1>3. ASSUME NextIncLoad(i) PROVE CInv'
    <2>1. /\ status[i] = "running" /\ main[i].pc = "load"
          /\ main'[i] = [op |-> main[i].op, pc |-> "call", inc |-> incarnation[i]]
          /\ UNCHANGED <<status, leave, nodeMap, incarnation>>
          /\ \A k \in Members \ {i} : main'[k] = main[k]
      BY <1>3 DEF NextIncLoad, HandlerUnchanged, CInv, TInv, TypeOK
    <2>2. main[i].op \in {"setAlive", "UpdateNode"}
      BY <1>a, <1>b, <2>1 DEF CallShape, Calls
    <2>3. CallShape(i)' /\ EntryBehind(i)' /\ CallCurrent(i)'
      BY <1>a, <1>b, <2>1, <2>2 DEF CallShape, EntryBehind, CallCurrent
    <2> QED
      BY <2>1, <2>3, OthersStay
  <1>4. ASSUME UpdateNodeBegin(i) PROVE CInv'
    <2>1. /\ status[i] = "running" /\ main[i].op = "none"
          /\ main'[i] = [op |-> "UpdateNode", pc |-> "add", inc |-> 0]
          /\ UNCHANGED <<status, leave, nodeMap, incarnation>>
          /\ \A k \in Members \ {i} : main'[k] = main[k]
      BY <1>4 DEF UpdateNodeBegin, HandlerUnchanged, CInv, TInv, TypeOK
    <2>2. CallShape(i)' /\ EntryBehind(i)' /\ CallCurrent(i)'
      BY <1>a, <2>1 DEF CallShape, EntryBehind, CallCurrent
    <2> QED
      BY <2>1, <2>2, OthersStay
  <1>5. ASSUME LeaveBegin(i) PROVE CInv'
    <2>1. /\ status[i] = "running" /\ main[i].op = "none" /\ leave'[i] = TRUE
          /\ main'[i] = [op |-> "Leave", pc |-> "call", inc |-> nodeMap[i][i].inc]
          /\ UNCHANGED <<status, nodeMap, incarnation>>
          /\ \A k \in Members \ {i} : main'[k] = main[k] /\ leave'[k] = leave[k]
      BY <1>5 DEF LeaveBegin, HandlerUnchanged, CInv, TInv, TypeOK
    <2>2. CallShape(i)' /\ EntryBehind(i)' /\ CallCurrent(i)'
      BY <1>a, <2>1 DEF CallShape, EntryBehind, CallCurrent
    <2> QED
      BY <2>1, <2>2, OthersStay
  <1> QED
    BY <1>1, <1>2, <1>3, <1>4, <1>5

\* setAlive, UpdateNode and Leave call their handler: the two numbers meet.
LEMMA OwnCalls ==
    ASSUME CInv, TInv', NEW i \in Members, SetAlive(i) \/ UpdateNode(i) \/ Leave(i)
    PROVE  CInv'
  <1>a. CallShape(i) /\ EntryBehind(i) /\ CallCurrent(i) /\ HandlerTyped /\ TInv
    BY HandlerPre DEF CInv
  <1>b. /\ main[i] \in Calls /\ incarnation[i] \in Nat /\ nodeMap[i][i].inc \in Nat
        /\ incarnation'[i] \in Nat /\ nodeMap'[i][i].inc \in Nat
        /\ nodeMap[i][i] \in Entry
    BY DEF CInv, TInv, TypeOK, Entry
  <1>c. /\ status[i] = "running" /\ main[i].pc = "call" /\ main'[i] = Idle
        /\ UNCHANGED <<status, leave>> /\ \A k \in Members \ {i} : main'[k] = main[k]
    BY DEF SetAlive, UpdateNode, Leave, Calling, Return, CInv, TInv, TypeOK
  <1>d. CallShape(i)' /\ CallCurrent(i)'
    BY <1>c DEF CallShape, CallCurrent, Idle
  <1>1. CASE SetAlive(i)
    <2> DEFINE a == AliveMsg(i, main[i].inc, addr[i])
    <2>1. a \in AliveMsgs /\ a.node = i /\ a.inc = main[i].inc
      BY <1>1 DEF SetAlive, Calling, AliveMsg, AliveMsgs, CInv, TInv, TypeOK, Positive, Calls
    <2>2. /\ AliveUpdate(i, a) \/ HandlerUnchanged
          /\ main[i].op = "setAlive"
      BY <1>1 DEF SetAlive, Calling
    <2>3. ~leave[i] /\ nodeMap[i][i].st # "alive"
      BY <1>a, <2>2 DEF CallShape
    <2> HIDE DEF a
    <2>4. CASE HandlerUnchanged
      <3>1. UNCHANGED <<nodeMap, incarnation>>
        BY <2>4 DEF HandlerUnchanged
      <3>2. EntryBehind(i)'
        BY <2>3, <3>1 DEF EntryBehind
      <3> QED
        BY <1>c, <1>d, <3>1, <3>2, OthersStay
    <2>5. CASE AliveUpdate(i, a)
      <3> DEFINE e == [inc |-> a.inc, st |-> "alive", addr |-> a.addr]
      <3>1. SetEntry(i, i, e) /\ incarnation' = incarnation /\ ~(a.inc < Lookup(i, a).inc)
        BY <2>1, <2>5 DEF AliveUpdate, AliveAccepted, OldAlive, CounterUnchanged
      <3>2. nodeMap'[i][i] = e /\ \A k \in Members \ {i} : nodeMap'[k][k] = nodeMap[k][k]
        BY <1>a, <3>1, OneEntry
      <3>3. Known(i, i) => ~(a.inc < nodeMap[i][i].inc)
        BY <2>1, <3>1 DEF Lookup
      <3>4. main[i].inc = incarnation[i]
        BY <1>a, <1>b, <1>c, <2>1, <2>3, <3>3 DEF CallCurrent, Calls
      <3>5. EntryBehind(i)'
        BY <1>b, <2>1, <3>1, <3>2, <3>4 DEF EntryBehind
      <3> QED
        BY <1>c, <1>d, <3>1, <3>2, <3>5, OthersStay
    <2> QED
      BY <2>2, <2>4, <2>5
  <1>2. CASE UpdateNode(i)
    <2> DEFINE a == AliveMsg(i, main[i].inc, nodeMap[i][i].addr)
    <2>1. a \in AliveMsgs /\ a.node = i /\ a.inc = main[i].inc
          /\ a.addr = nodeMap[i][i].addr
      BY <1>2, <1>b DEF UpdateNode, Calling, AliveMsg, AliveMsgs, CInv, TInv, TypeOK,
          Positive, Calls, Entry
    <2>2. \/ AliveSelf(i, a, {incarnation[i]})
          \/ AliveIgnored(i, a) /\ HandlerUnchanged
      BY <1>2 DEF UpdateNode
    <2> HIDE DEF a
    <2>3. ASSUME nodeMap[i][i].st = "alive"
          PROVE  Lookup(i, a) = nodeMap[i][i] /\ ~Moved(i, a)
      BY <2>1, <2>3 DEF Lookup, Known, Moved
    <2>4. CASE AliveIgnored(i, a) /\ HandlerUnchanged
      <3>1. UNCHANGED <<nodeMap, incarnation>>
        BY <2>4 DEF HandlerUnchanged
      <3>2. ASSUME nodeMap[i][i].st = "alive", ~leave[i]
            PROVE  nodeMap[i][i].inc = incarnation[i]
        <4>1. main[i].inc < nodeMap[i][i].inc
          BY <2>1, <2>3, <2>4, <3>2 DEF AliveIgnored, OldAlive
        <4> QED
          BY <1>a, <1>b, <1>c, <3>2, <4>1 DEF CallCurrent, EntryBehind, Calls
      <3>3. EntryBehind(i)'
        BY <1>a, <1>c, <3>1, <3>2 DEF EntryBehind
      <3> QED
        BY <1>c, <1>d, <3>1, <3>3, OthersStay
    <2>5. CASE AliveSelf(i, a, {incarnation[i]})
      <3>1. OwnStep(i)
        <4>1. {incarnation[i]} \in SUBSET (0..incarnation[i])
          BY <1>b
        <4> QED
          BY <1>a, <2>1, <2>5, <4>1, OwnAliveSelf
      <3>2. ~leave[i]
        BY <2>1, <2>5 DEF AliveSelf, AliveAccepted
      <3>3. CASE OwnOutbid(i)
        <4>1. EntryBehind(i)'
          BY <1>a, <1>b, <1>c, <3>3 DEF EntryBehind, OwnOutbid, Known
        <4> QED
          BY <1>c, <1>d, <3>1, <4>1, OthersStay DEF OwnStep, OthersOwnKept
      <3>4. CASE OwnSame(i)
        <4>1. ASSUME nodeMap[i][i].st = "alive", a.inc # nodeMap[i][i].inc
              PROVE  FALSE
          <5>1. Refute(i, nodeMap[i][i], a.inc, {incarnation[i]})
            BY <2>3, <2>5, <4>1 DEF AliveSelf
          <5>2. ~(a.inc < nodeMap[i][i].inc)
            BY <2>1, <2>3, <2>5, <4>1 DEF AliveSelf, AliveAccepted, OldAlive
          <5>3. a.inc >= incarnation[i]
            BY <1>a, <1>b, <1>c, <2>1, <3>2, <4>1, <5>2 DEF CallCurrent, EntryBehind, Calls
          <5>4. Advance(i, incarnation[i] + (a.inc - incarnation[i] + 1))
            BY <5>1, <5>3 DEF Refute
          <5>5. incarnation'[i] = a.inc + 1
            BY <1>b, <2>1, <5>4 DEF Advance, CInv, TInv, TypeOK, AliveMsgs
          <5> QED
            BY <1>b, <2>1, <3>4, <5>3, <5>5 DEF OwnSame, AliveMsgs
        <4>2. EntryBehind(i)'
          BY <1>a, <1>b, <1>c, <2>1, <3>2, <3>4, <4>1
          DEF EntryBehind, CallCurrent, OwnSame, Calls
        <4> QED
          BY <1>c, <1>d, <3>1, <4>2, OthersStay DEF OwnStep, OthersOwnKept
      <3> QED
        BY <3>1, <3>2, <3>3, <3>4 DEF OwnStep, OwnGone
    <2> QED
      BY <2>2, <2>4, <2>5
  <1>3. CASE Leave(i)
    <2> DEFINE d == DeadMsg(i, main[i].inc, i)
    <2>1. d \in DeadMsgs
      BY <1>b DEF DeadMsg, DeadMsgs, Calls
    <2>2. (deadNode(i, d) \/ HandlerUnchanged) /\ main[i].op = "Leave"
      BY <1>3 DEF Leave, Calling
    <2> HIDE DEF d
    <2>3. OwnStep(i)
      BY <1>a, <2>1, <2>2, OwnHandler, OwnKept DEF HandlerUnchanged, CounterUnchanged
    <2>4. leave[i]
      BY <1>a, <2>2 DEF CallShape
    <2>5. EntryBehind(i)'
      BY <1>a, <1>b, <1>c, <2>3, <2>4
      DEF EntryBehind, OwnStep, OwnSame, OwnOutbid, OwnGone
    <2> QED
      BY <1>c, <1>d, <2>3, <2>5, OthersStay DEF OwnStep, OthersOwnKept
  <1> QED
    BY <1>1, <1>2, <1>3

\* SelfIncarnationCurrent is inductive with where the main thread is.
LEMMA CInvInductive == CInv /\ [Next]_vars => CInv'
  <1> SUFFICES ASSUME CInv, [Next]_vars PROVE CInv'
    OBVIOUS
  <1>a. TInv /\ TInv' /\ HandlerTyped
    BY TInvInductive, HandlerPre DEF CInv
  <1>0. CASE UNCHANGED vars
    BY <1>0, <1>a DEF vars, CInv, CallShape, EntryBehind, CallCurrent, Known
  <1>1. ASSUME NEW i \in Members,
               \/ \E a \in Addrs : Start(i, a)
               \/ NextIncAdd(i) \/ NextIncLoad(i) \/ UpdateNodeBegin(i) \/ LeaveBegin(i)
        PROVE  CInv'
    BY <1>1, <1>a, OwnMain
  <1>2. ASSUME NEW i \in Members, SetAlive(i) \/ UpdateNode(i) \/ Leave(i)
        PROVE  CInv'
    BY <1>2, <1>a, OwnCalls
  <1>3. ASSUME NEW i \in Members, NEW k \in Members,
               HandleAlive(i, k) \/ HandleSuspect(i, k) \/ HandleDead(i, k)
        PROVE  CInv'
    <2>1. /\ Alives(k) \subseteq AliveMsgs
          /\ Suspicions(i, k) \subseteq SuspectMsgs
          /\ Deads(k) \subseteq DeadMsgs
      BY <1>a, ReceivedTypes DEF TInv, TypeOK
    <2>2. OwnStep(i)
      BY <1>3, <1>a, <2>1, OwnHandler DEF HandleAlive, HandleSuspect, HandleDead
    <2> QED
      BY <1>3, <1>a, <2>2, OwnStepKeeps
      DEF HandleAlive, HandleSuspect, HandleDead, NetUnchanged
  <1>4. ASSUME NEW i \in Members, ProbeFail(i) PROVE CInv'
    <2>1. PICK p \in probing[i] : suspectNode(i, SuspectMsg(p.node, p.inc, i))
                                  \/ HandlerUnchanged
      BY <1>4 DEF ProbeFail
    <2>2. SuspectMsg(p.node, p.inc, i) \in SuspectMsgs
      BY <1>a, <2>1 DEF SuspectMsg, SuspectMsgs, TInv, TypeOK
    <2>3. OwnStep(i)
      BY <1>a, <2>1, <2>2, OwnHandler, OwnKept DEF HandlerUnchanged, CounterUnchanged
    <2> QED
      BY <1>4, <1>a, <2>3, OwnStepKeeps DEF ProbeFail, ProbeUnchanged
  <1>5. ASSUME NEW i \in Members,
               ProbeAck(i) \/ SendLocalState(i) \/ \E j \in Members : ProbeStart(i, j)
        PROVE  CInv'
    <2>1. OwnStep(i)
      BY <1>5, <1>a, OwnKept
      DEF ProbeAck, SendLocalState, ProbeStart, HandlerUnchanged, CounterUnchanged
    <2> QED
      BY <1>5, <1>a, <2>1, OwnStepKeeps
      DEF ProbeAck, SendLocalState, ProbeStart, NetUnchanged, ProbeUnchanged
  <1>6. ASSUME NEW i \in Members, Exit(i) PROVE CInv'
    <2>1. /\ status'[i] = "off" /\ ~leave'[i] /\ main'[i] = Idle
          /\ nodeMap'[i][i] = NoEntry
          /\ \A k \in Members \ {i} :
                /\ status'[k] = status[k] /\ leave'[k] = leave[k] /\ main'[k] = main[k]
                /\ nodeMap'[k][k] = nodeMap[k][k] /\ incarnation'[k] = incarnation[k]
      BY <1>6, <1>a DEF Exit, TInv, TypeOK
    <2>2. CallShape(i)' /\ EntryBehind(i)' /\ CallCurrent(i)'
      BY <2>1 DEF CallShape, EntryBehind, CallCurrent, Idle, NoEntry
    <2> QED
      BY <1>a, <2>1, <2>2, OthersStay
  <1> QED
    BY <1>0, <1>1, <1>2, <1>3, <1>4, <1>5, <1>6 DEF Next, SuspicionTimeout, Crash

\* Outside a pending UpdateNode the number of our own entry is the counter's:
\* an accusation that refute outbids by the counter is outbid by the entry too,
\* whichever handler runs between the fetch_add and the load of
\* nextIncarnation, or between that load and the call that uses it.
THEOREM OwnEntryIsCurrent == Spec => []SelfIncarnationCurrent
  <1>1. Init => CInv
    <2> SUFFICES ASSUME Init PROVE CInv
      OBVIOUS
    <2>1. TInv
      BY ConstantTypes, AddrsNonempty
      DEF Init, TInv, TypeOK, Positive, NoEntry, NoTimer, Idle, Entry, Calls
    <2> QED
      BY <2>1 DEF Init, CInv, CallShape, EntryBehind, CallCurrent, NoEntry, Idle
  <1>2. CInv => SelfIncarnationCurrent
    BY DEF CInv, EntryBehind, SelfIncarnationCurrent
  <1> QED
    BY <1>1, <1>2, CInvInductive, PTL DEF Spec
=============================================================================
