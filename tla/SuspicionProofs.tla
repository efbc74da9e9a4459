--------------------------- MODULE SuspicionProofs ---------------------------
(***************************************************************************)
(* Proofs about Suspicion, for any number of nodes and confirmers and any  *)
(* choice of the timeouts: a timer that has fired belongs to the suspicion *)
(* in force (SInv), and it has not fired too early (TInv).                 *)
(***************************************************************************)
EXTENDS Suspicion, FiniteSetTheorems, TLAPS

\* The shape of the state: nothing is needed about the times.
Shape ==
    /\ DOMAIN state = Nodes /\ state = [x \in Nodes |-> state[x]]
    /\ DOMAIN stateChange = Nodes /\ stateChange = [x \in Nodes |-> stateChange[x]]
    /\ DOMAIN thread = Nodes /\ thread = [x \in Nodes |-> thread[x]]
    /\ DOMAIN nodeTimers = Nodes /\ nodeTimers = [x \in Nodes |-> nodeTimers[x]]
    /\ \A x \in Nodes :
          /\ DOMAIN thread[x] = {"pc", "left", "cancelled", "now"}
          /\ DOMAIN nodeTimers[x] = {"conf", "k", "elapsed", "running"}
    /\ nodeMutex.node \in Nodes

\* A thread lives only as long as its suspicion; a suspicion exists only while
\* its node is suspected since the moment the thread captured; the handler that
\* restarts a timer has not let anybody erase the suspicion.
ThreadHasSuspicion == \A x \in Nodes : thread[x].pc # "ended" => Exists(x)
SuspicionInForce ==
    \A x \in Nodes : Exists(x) => state[x] = "suspect" /\ stateChange[x] = thread[x].now
RestartHasSuspicion == nodeMutex.at = "restart" => Exists(nodeMutex.node)

SInv == Shape /\ ThreadHasSuspicion /\ SuspicionInForce /\ RestartHasSuspicion

\* An entry of an array of records, after one of its fields was set.
LEMMA ThreadSet ==
    ASSUME Shape, NEW x \in Nodes, NEW v,
           thread' = [thread EXCEPT ![x].pc = v]
    PROVE  /\ thread'[x].pc = v
           /\ \A y \in Nodes :
                 /\ DOMAIN thread'[y] = DOMAIN thread[y]
                 /\ thread'[y].now = thread[y].now
                 /\ y # x => thread'[y] = thread[y]
           /\ DOMAIN thread' = Nodes /\ thread' = [y \in Nodes |-> thread'[y]]
  BY DEF Shape

\* Stopping the timer of x changes no thread's place or epoch.
LEMMA ThreadCancelled ==
    ASSUME Shape, NEW x \in Nodes, Cancel(x)
    PROVE  /\ \A y \in Nodes :
                 /\ DOMAIN thread'[y] = DOMAIN thread[y]
                 /\ thread'[y].now = thread[y].now
                 /\ thread'[y].pc = thread[y].pc
           /\ DOMAIN thread' = Nodes /\ thread' = [y \in Nodes |-> thread'[y]]
  BY DEF Shape, Cancel

\* Whether a timer runs does not change who has confirmed the suspicion.
LEMMA TimerStopped ==
    ASSUME Shape, NEW x \in Nodes, NEW v,
           nodeTimers' = [nodeTimers EXCEPT ![x].running = v]
    PROVE  /\ \A y \in Nodes :
                 /\ DOMAIN nodeTimers'[y] = DOMAIN nodeTimers[y]
                 /\ nodeTimers'[y].conf = nodeTimers[y].conf
           /\ DOMAIN nodeTimers' = Nodes /\ nodeTimers' = [y \in Nodes |-> nodeTimers'[y]]
  BY DEF Shape

\* A step that changes neither who is suspected nor which threads live.
LEMMA SInvSame ==
    ASSUME SInv, Shape',
           \A x \in Nodes : /\ nodeTimers'[x].conf = nodeTimers[x].conf
                            /\ thread'[x].now = thread[x].now
                            /\ thread'[x].pc # "ended" => thread[x].pc # "ended",
           UNCHANGED <<state, stateChange>>,
           nodeMutex'.at = "restart" => Exists(nodeMutex'.node)
    PROVE  SInv'
  BY DEF SInv, Shape, ThreadHasSuspicion, SuspicionInForce, RestartHasSuspicion, Exists

\* The handlers.
LEMMA SuspectNewKeeps ==
    ASSUME SInv, NEW x \in Nodes, NEW from, SuspectNew(x, from)
    PROVE  SInv'
  <1>1. PICK k \in Expected :
            /\ nodeTimers' = [nodeTimers EXCEPT ![x] =
                  [conf |-> {from}, k |-> k, elapsed |-> 0, running |-> TRUE]]
            /\ thread' = [thread EXCEPT ![x] = Asleep(IF k < 1 THEN Min ELSE Max, epoch + 1)]
    BY DEF SuspectNew
  <1>2. /\ state' = [state EXCEPT ![x] = "suspect"]
        /\ stateChange' = [stateChange EXCEPT ![x] = epoch + 1]
        /\ nodeMutex' = nodeMutex /\ nodeMutex.at = "free"
    BY DEF SuspectNew, MutexFree
  <1>3. Shape'
    BY <1>1, <1>2 DEF SInv, Shape, Asleep
  <1>4. nodeTimers'[x].conf # {} /\ thread'[x].now = epoch + 1
    BY <1>1 DEF SInv, Shape, Asleep
  <1>5. \A y \in Nodes \ {x} : /\ nodeTimers'[y] = nodeTimers[y] /\ thread'[y] = thread[y]
                               /\ state'[y] = state[y] /\ stateChange'[y] = stateChange[y]
    BY <1>1, <1>2 DEF SInv, Shape
  <1>6. state'[x] = "suspect" /\ stateChange'[x] = epoch + 1
    BY <1>2 DEF SInv, Shape
  <1> QED
    BY <1>2, <1>3, <1>4, <1>5, <1>6
    DEF SInv, ThreadHasSuspicion, SuspicionInForce, RestartHasSuspicion, Exists

\* Confirm, up to the restart of the timer.
LEMMA ConfirmKeeps ==
    ASSUME SInv, NEW x \in Nodes, NEW from, Confirm(x, from)
    PROVE  SInv'
  <1>1. /\ nodeTimers' = [nodeTimers EXCEPT ![x].conf = @ \cup {from}, ![x].running = FALSE]
        /\ UNCHANGED <<state, stateChange>> /\ Exists(x)
    BY DEF Confirm
  <1>2. /\ DOMAIN nodeTimers' = Nodes /\ nodeTimers' = [y \in Nodes |-> nodeTimers'[y]]
        /\ nodeTimers'[x].conf = nodeTimers[x].conf \cup {from}
        /\ DOMAIN nodeTimers'[x] = DOMAIN nodeTimers[x]
        /\ \A y \in Nodes \ {x} : nodeTimers'[y] = nodeTimers[y]
    BY <1>1 DEF SInv, Shape
  <1>3. /\ \A y \in Nodes : /\ DOMAIN thread'[y] = DOMAIN thread[y]
                            /\ thread'[y].now = thread[y].now
                            /\ thread'[y].pc = thread[y].pc
        /\ DOMAIN thread' = Nodes /\ thread' = [y \in Nodes |-> thread'[y]]
    BY ThreadCancelled DEF Confirm, SInv, Shape
  <1>4. nodeMutex' = nodeMutex \/ nodeMutex'.node = x
    BY DEF Confirm, Holding
  <1>5. Shape'
    BY <1>1, <1>2, <1>3, <1>4 DEF SInv, Shape
  <1>6. \A y \in Nodes : nodeTimers'[y].conf = {} <=> nodeTimers[y].conf = {}
    BY <1>1, <1>2 DEF Exists
  <1>7. ThreadHasSuspicion' /\ SuspicionInForce'
    <2>1. state' = state /\ stateChange' = stateChange
      BY <1>1
    <2>2. \A y \in Nodes : thread'[y].now = thread[y].now /\ thread'[y].pc = thread[y].pc
      BY <1>3
    <2>3. ThreadHasSuspicion'
      BY <1>6, <2>2 DEF SInv, ThreadHasSuspicion, Exists
    <2>4. SuspicionInForce'
      BY <1>6, <2>1, <2>2 DEF SInv, SuspicionInForce, Exists
    <2> QED
      BY <2>3, <2>4
  <1>8. RestartHasSuspicion'
    BY <1>1, <1>4, <1>6 DEF SInv, Shape, RestartHasSuspicion, Exists
  <1> QED
    BY <1>5, <1>7, <1>8 DEF SInv

\* The timer is started again with the shorter time.
LEMMA RestartedKeeps ==
    ASSUME SInv, Restarted
    PROVE  SInv'
  <1> DEFINE x == nodeMutex.node
  <1>1. /\ x \in Nodes /\ Exists(x)
        /\ thread' = [thread EXCEPT ![x] = Asleep(nodeMutex.remain, thread[x].now)]
        /\ nodeTimers' = [nodeTimers EXCEPT ![x].running = TRUE]
        /\ nodeMutex' = Free /\ UNCHANGED <<state, stateChange>>
    BY DEF Restarted, SInv, Shape, RestartHasSuspicion
  <1>2. /\ \A y \in Nodes : /\ DOMAIN nodeTimers'[y] = DOMAIN nodeTimers[y]
                            /\ nodeTimers'[y].conf = nodeTimers[y].conf
        /\ DOMAIN nodeTimers' = Nodes /\ nodeTimers' = [y \in Nodes |-> nodeTimers'[y]]
    BY <1>1, TimerStopped DEF SInv
  <1>3. /\ DOMAIN thread' = Nodes /\ thread' = [y \in Nodes |-> thread'[y]]
        /\ DOMAIN thread'[x] = {"pc", "left", "cancelled", "now"}
        /\ thread'[x].now = thread[x].now
        /\ \A y \in Nodes \ {x} : thread'[y] = thread[y]
    BY <1>1 DEF SInv, Shape, Asleep
  <1>4. nodeMutex'.node \in Nodes /\ nodeMutex'.at = "free"
    BY <1>1, NodesNonempty DEF Free
  <1>5. Shape'
    BY <1>1, <1>2, <1>3, <1>4 DEF SInv, Shape
  <1> QED
    BY <1>1, <1>2, <1>3, <1>4, <1>5
    DEF SInv, ThreadHasSuspicion, SuspicionInForce, RestartHasSuspicion, Exists

\* The thread of a suspicion is joined before the suspicion goes.
LEMMA EraseKeeps ==
    ASSUME SInv, NEW x \in Nodes, NEW st \in {"alive", "dead"}, Erase(x, st)
    PROVE  SInv'
  <1>1. CASE Exists(x)
    <2>1. /\ Cancel(x) /\ nodeTimers' = [nodeTimers EXCEPT ![x].running = FALSE]
          /\ nodeMutex' = Holding(st, x, 0) /\ UNCHANGED <<state, stateChange>>
      BY <1>1 DEF Erase
    <2>2. nodeMutex'.node = x /\ nodeMutex'.at = st
      BY <2>1 DEF Holding
    <2>3. Shape'
      BY <2>1, <2>2, ThreadCancelled, TimerStopped DEF SInv, Shape
    <2> QED
      BY <2>1, <2>2, <2>3, ThreadCancelled, TimerStopped, SInvSame DEF SInv
  <1>2. CASE ~Exists(x)
    <2>1. /\ state' = [state EXCEPT ![x] = st]
          /\ stateChange' = [stateChange EXCEPT ![x] = 0]
          /\ UNCHANGED <<thread, nodeTimers, nodeMutex>>
      BY <1>2 DEF Erase
    <2>2. Shape'
      BY <2>1 DEF SInv, Shape
    <2>3. \A y \in Nodes \ {x} : state'[y] = state[y] /\ stateChange'[y] = stateChange[y]
      BY <2>1 DEF SInv, Shape
    <2> QED
      BY <1>2, <2>1, <2>2, <2>3
      DEF SInv, ThreadHasSuspicion, SuspicionInForce, RestartHasSuspicion, Exists
  <1> QED
    BY <1>1, <1>2

\* aliveNode or deadNode has stopped the timer and goes on.
LEMMA ErasedKeeps ==
    ASSUME SInv, Erased
    PROVE  SInv'
  <1> DEFINE x == nodeMutex.node
  <1>1. /\ x \in Nodes /\ thread[x].pc = "ended" /\ thread' = thread
        /\ nodeTimers' = [nodeTimers EXCEPT ![x] = NoSuspicion]
        /\ state' = [state EXCEPT ![x] = nodeMutex.at]
        /\ stateChange' = [stateChange EXCEPT ![x] = 0]
        /\ nodeMutex' = Free
    BY DEF Erased, SInv, Shape
  <1>2. nodeMutex'.node \in Nodes /\ nodeMutex'.at = "free"
    BY <1>1, NodesNonempty DEF Free
  <1>3. Shape'
    BY <1>1, <1>2 DEF SInv, Shape, NoSuspicion
  <1>4. nodeTimers'[x].conf = {}
    BY <1>1 DEF SInv, Shape, NoSuspicion
  <1>5. \A y \in Nodes \ {x} : /\ nodeTimers'[y] = nodeTimers[y]
                               /\ state'[y] = state[y] /\ stateChange'[y] = stateChange[y]
    BY <1>1 DEF SInv, Shape
  <1> QED
    BY <1>1, <1>2, <1>3, <1>4, <1>5
    DEF SInv, ThreadHasSuspicion, SuspicionInForce, RestartHasSuspicion, Exists

\* The timer thread, which never starts anything but only goes on or ends.
LEMMA ThreadKeeps ==
    ASSUME SInv, NEW x \in Nodes, TimerThread(x)
    PROVE  SInv'
  <1>1. nodeMutex' = nodeMutex
    BY DEF TimerThread, Wake, CancelledAsleep, CheckTimeout, LogTimeout, DeclareDead
  <1>2. PICK v : thread' = [thread EXCEPT ![x].pc = v] /\ (v # "ended" => thread[x].pc # "ended")
    BY DEF TimerThread, Wake, CancelledAsleep, CheckTimeout, LogTimeout, DeclareDead
  <1>3. nodeTimers' = nodeTimers \/ nodeTimers' = [nodeTimers EXCEPT ![x].running = FALSE]
    BY DEF TimerThread, Wake, CancelledAsleep, CheckTimeout, LogTimeout, DeclareDead
  <1>4. UNCHANGED <<state, stateChange>>
    <2>1. CASE DeclareDead(x)
      BY <2>1 DEF DeclareDead, SInv, ThreadHasSuspicion
    <2> QED
      BY <2>1 DEF TimerThread, Wake, CancelledAsleep, CheckTimeout, LogTimeout, ThreadUnchanged
  <1>5. Shape'
    <2>1. /\ \A y \in Nodes : DOMAIN thread'[y] = DOMAIN thread[y]
          /\ DOMAIN thread' = Nodes /\ thread' = [y \in Nodes |-> thread'[y]]
      BY <1>2, ThreadSet DEF SInv
    <2>2. /\ \A y \in Nodes : DOMAIN nodeTimers'[y] = DOMAIN nodeTimers[y]
          /\ DOMAIN nodeTimers' = Nodes /\ nodeTimers' = [y \in Nodes |-> nodeTimers'[y]]
      <3>1. CASE nodeTimers' = nodeTimers
        BY <3>1 DEF SInv, Shape
      <3>2. CASE nodeTimers' = [nodeTimers EXCEPT ![x].running = FALSE]
        BY <3>2, TimerStopped DEF SInv
      <3> QED
        BY <1>3, <3>1, <3>2
    <2> QED
      BY <1>1, <1>4, <2>1, <2>2 DEF SInv, Shape
  <1>6. \A y \in Nodes : nodeTimers'[y].conf = nodeTimers[y].conf
    BY <1>3, TimerStopped DEF SInv
  <1>7. nodeMutex'.at = "restart" => Exists(nodeMutex'.node)
    BY <1>1 DEF SInv, RestartHasSuspicion
  <1>8. \A y \in Nodes : /\ thread'[y].now = thread[y].now
                         /\ thread'[y].pc # "ended" => thread[y].pc # "ended"
    BY <1>2, ThreadSet DEF SInv
  <1> QED
    BY <1>4, <1>5, <1>6, <1>7, <1>8, SInvSame

\* Time passes.
LEMMA TickKeeps ==
    ASSUME SInv, Tick
    PROVE  SInv'
  <1>1. /\ UNCHANGED <<state, stateChange, nodeMutex>>
        /\ nodeTimers' = [x \in Nodes |-> IF Exists(x) /\ nodeTimers[x].elapsed < Cap
                              THEN [nodeTimers[x] EXCEPT !.elapsed = @ + 1] ELSE nodeTimers[x]]
        /\ thread' = [x \in Nodes |-> IF thread[x].left \in 1..Max
                              THEN [thread[x] EXCEPT !.left = @ - 1] ELSE thread[x]]
    BY DEF Tick
  <1>2. \A x \in Nodes : /\ nodeTimers'[x].conf = nodeTimers[x].conf
                         /\ DOMAIN nodeTimers'[x] = DOMAIN nodeTimers[x]
    BY <1>1 DEF SInv, Shape
  <1>3. \A x \in Nodes : /\ thread'[x].now = thread[x].now /\ thread'[x].pc = thread[x].pc
                         /\ DOMAIN thread'[x] = DOMAIN thread[x]
    BY <1>1 DEF SInv, Shape
  <1>4. Shape'
    BY <1>1, <1>2, <1>3 DEF SInv, Shape
  <1> QED
    BY <1>1, <1>2, <1>3, <1>4, SInvSame DEF SInv, RestartHasSuspicion

\* Every step preserves the invariant.
LEMMA SInvInductive == SInv /\ [Next]_vars => SInv'
  <1> SUFFICES ASSUME SInv, [Next]_vars PROVE SInv'
    OBVIOUS
  <1>1. CASE UNCHANGED vars
    BY <1>1 DEF vars, SInv, Shape, ThreadHasSuspicion, SuspicionInForce,
        RestartHasSuspicion, Exists
  <1> QED
    BY <1>1, SuspectNewKeeps, ConfirmKeeps, EraseKeeps, ThreadKeeps, RestartedKeeps,
       ErasedKeeps, TickKeeps
    DEF Next

\* No node is suspected at first.
LEMMA SInvInit == Init => SInv
  BY NodesNonempty
  DEF Init, SInv, Shape, ThreadHasSuspicion, SuspicionInForce, RestartHasSuspicion,
      Exists, NoSuspicion, NoThread, Free

\* When f runs on a timer's thread the node is still suspected, and by the very
\* suspicion that started the timer: the check of StateChange in f never fails,
\* because whoever ends a suspicion joins its thread under nodeMutex first.
THEOREM FiredTimersAreCurrent == Spec => []FiredIsCurrent
  <1>2. SInv => FiredIsCurrent
    BY DEF SInv, ThreadHasSuspicion, SuspicionInForce, FiredIsCurrent
  <1> QED
    BY <1>2, SInvInit, SInvInductive, PTL DEF Spec

-----------------------------------------------------------------------------
(* Types and times. *)

MutexType == [at : {"free", "restart", "f", "alive", "dead"}, node : Nodes, remain : 0..Never]

\* Confirmations beyond the first accusation, of the suspicion s.
Count(s) == Cardinality(s.conf) - 1

\* The confirmations of a suspicion can be counted, and Confirm takes at most one
\* more than were expected.
Counted(s) == IsFiniteSet(s.conf) /\ (s.conf # {} => Count(s) \in 0..(s.k + 1))

\* A thread that sleeps for left does not wake before the timeout that goes with
\* the confirmations there are.
DueIn(left, s) ==
    IF s.k = 0 THEN left + s.elapsed >= Min \/ Count(s) > 0
    ELSE left + s.elapsed >= TimeoutAfter(Count(s), s.k) \/ s.elapsed = Cap

Late(s) == s.elapsed >= Min \/ Count(s) > s.k

Fired == {"lock", "log", "deadNode"}

\* Every thread sleeps long enough, and what has fired was late.
NodeInTime(x) ==
    /\ Counted(nodeTimers[x])
    /\ Exists(x) => DueIn(thread[x].left, nodeTimers[x])
    /\ thread[x].pc \in Fired => Late(nodeTimers[x])

\* So does every thread about to be restarted, and what f was called for was late.
HandlerInTime ==
    /\ nodeMutex.at = "restart" =>
          nodeMutex.remain > 0 /\ DueIn(nodeMutex.remain, nodeTimers[nodeMutex.node])
    /\ nodeMutex.at = "f" => Exists(nodeMutex.node) /\ Late(nodeTimers[nodeMutex.node])

Typed == TypeOK /\ nodeMutex \in MutexType

TInv == SInv /\ Typed /\ HandlerInTime /\ \A x \in Nodes : NodeInTime(x)

\* max_timeout is at least min_timeout, which is not zero.
LEMMA MaxType == Max \in Nat /\ Max >= Min /\ Min > 0
  <1>1. MaxMult * Min \in Nat /\ MaxMult * Min >= Min
    BY TimesAssumption
  <1> QED
    BY <1>1, TimesAssumption DEF Max

\* A quotient is what a division says it is.
LEMMA DivBounds ==
    ASSUME NEW x \in Nat, NEW b \in Nat, b > 0
    PROVE  x \div b \in Nat /\ b * (x \div b) <= x /\ x < b * (x \div b) + b
  OBVIOUS

\* Division keeps the order.
LEMMA DivMonotone ==
    ASSUME NEW x \in Nat, NEW y \in Nat, x <= y, NEW b \in Nat, b > 0
    PROVE  x \div b <= y \div b
  <1> DEFINE q == x \div b
             u == y \div b
  <1>1. q \in Nat /\ u \in Nat /\ b * q <= x /\ y < b * u + b
    BY DivBounds
  <1> HIDE DEF q, u
  <1>2. b * q < b * (u + 1)
    <2>1. b * u + b = b * (u + 1)
      BY <1>1
    <2> QED
      BY <1>1, <2>1
  <1>3. q >= u + 1 => b * q >= b * (u + 1)
    BY <1>1
  <1>4. q <= u
    BY <1>1, <1>2, <1>3
  <1> QED
    BY <1>4 DEF q, u

\* Division undoes multiplication.
LEMMA DivCancel ==
    ASSUME NEW d \in Nat, NEW b \in Nat, b > 0
    PROVE  (b * d) \div b = d /\ (0 * d) \div b = 0
  OBVIOUS

\* What a larger factor does to a product.
LEMMA TimesMonotone ==
    ASSUME NEW i \in Nat, NEW j \in Nat, i <= j, NEW d \in Nat
    PROVE  i * d \in Nat /\ j * d \in Nat /\ i * d <= j * d
  OBVIOUS

\* remainingSuspicionTime: the timeout starts at Max, shrinks with every
\* confirmation and is not below Min as long as no more come than were expected.
LEMMA TimeoutProperties ==
    ASSUME NEW k \in {K} \ {0}, NEW n \in 0..k
    PROVE  /\ TimeoutAfter(n, k) \in Int /\ TimeoutAfter(n + 1, k) \in Int
           /\ TimeoutAfter(0, k) = Max
           /\ Min <= TimeoutAfter(n, k) /\ TimeoutAfter(n, k) <= Max
           /\ TimeoutAfter(n + 1, k) <= TimeoutAfter(n, k)
  <1> DEFINE d == Max - Min
             a == Log[n + 1]
             c == Log[n + 2]
             b == Log[k + 1]
  <1>0. d \in Nat /\ Max \in Nat /\ Min \in Nat /\ d = Max - Min
    BY MaxType, TimesAssumption
  <1>1. a \in Nat /\ b \in Nat /\ c \in Nat /\ 0 <= a /\ a <= b /\ a <= c /\ b > 0
    <2>1. k = K /\ K \in Nat /\ K > 0
      BY KAssumption
    <2>2. {1, n + 1, n + 2, k + 1} \subseteq 1..(K + 2) /\ n + 1 < n + 2 /\ 1 < k + 1
      BY <2>1
    <2>3. n + 1 = k + 1 \/ n + 1 < k + 1
      BY <2>1
    <2> QED
      BY <2>2, <2>3, LogAssumption
  <1>2. /\ TimeoutAfter(n, k) = Max - (a * d) \div b
        /\ TimeoutAfter(n + 1, k) = Max - (c * d) \div b
    <2>1. (n + 1) + 1 = n + 2
      BY KAssumption
    <2> QED
      BY <2>1 DEF TimeoutAfter
  <1>3. TimeoutAfter(0, k) = Max - (0 * d) \div b
    BY LogAssumption DEF TimeoutAfter
  <1> HIDE DEF a, b, c, d
  <1>4. /\ a * d \in Nat /\ b * d \in Nat /\ c * d \in Nat
        /\ a * d <= b * d /\ a * d <= c * d
    BY <1>0, <1>1, TimesMonotone
  <1>5. /\ (a * d) \div b \in Nat /\ (c * d) \div b \in Nat
        /\ (a * d) \div b <= (b * d) \div b /\ (a * d) \div b <= (c * d) \div b
    BY <1>1, <1>4, DivBounds, DivMonotone
  <1>6. (b * d) \div b = d /\ (0 * d) \div b = 0
    BY <1>0, <1>1, DivCancel
  <1> QED
    BY <1>0, <1>2, <1>3, <1>5, <1>6

\* The types of a suspicion's fields.
LEMMA SuspicionFields ==
    ASSUME NEW s \in SuspicionType
    PROVE  /\ s.conf \subseteq Peers /\ s.k \in {0, K} /\ s.k \in Nat /\ s.elapsed \in 0..Cap
           /\ s.elapsed \in Nat /\ s.running \in BOOLEAN
  <1>1. Cap \in Nat
    BY MaxType DEF Cap
  <1> QED
    BY <1>1, KAssumption DEF SuspicionType

\* Only what was confirmed, how many are expected and the age matter.
LEMMA DueSame ==
    ASSUME NEW s, NEW t, t.conf = s.conf, t.k = s.k, t.elapsed = s.elapsed
    PROVE  /\ Counted(t) <=> Counted(s)
           /\ Late(t) <=> Late(s)
           /\ \A l : DueIn(l, t) <=> DueIn(l, s)
  BY DEF Counted, Late, DueIn, Count

\* Time passes.
LEMMA DueTick ==
    ASSUME NEW s \in SuspicionType, NEW t \in SuspicionType, t.conf = s.conf, t.k = s.k,
           t.elapsed = (IF s.elapsed < Cap THEN s.elapsed + 1 ELSE s.elapsed),
           NEW l \in Nat, NEW m \in Nat, m = l \/ m = l - 1,
           Counted(s), s.conf # {}
    PROVE  /\ DueIn(l, s) => DueIn(m, t)
           /\ Late(s) => Late(t)
  <1>1. Count(t) = Count(s) /\ Count(s) \in Int
    BY DEF Count, Counted
  <1>2. s.elapsed \in Nat /\ Cap \in Nat /\ Min \in Nat /\ Cap > Min /\ t.elapsed \in Nat
        /\ s.elapsed <= Cap
    BY MaxType, TimesAssumption, SuspicionFields DEF Cap
  <1>3. Late(s) => Late(t)
    BY <1>1, <1>2 DEF Late
  <1>4. CASE s.k = 0
    BY <1>1, <1>2, <1>3, <1>4 DEF DueIn
  <1>5. CASE s.k # 0
    <2> DEFINE due == TimeoutAfter(Count(s), s.k)
    <2>1. TimeoutAfter(Count(t), t.k) = due
      BY <1>1
    <2>2. due \in Int
      <3>1. s.k \in {K} \ {0} /\ s.k \in Nat /\ Count(s) \in 0..(s.k + 1)
        BY <1>5, SuspicionFields DEF Counted
      <3>2. CASE Count(s) = s.k + 1
        BY <3>1, <3>2, TimeoutProperties
      <3>3. CASE Count(s) \in 0..s.k
        BY <3>1, <3>3, TimeoutProperties
      <3> QED
        BY <3>1, <3>2, <3>3
    <2> HIDE DEF due
    <2>3. DueIn(l, s) => l + s.elapsed >= due \/ s.elapsed = Cap
      BY <1>5 DEF DueIn, due
    <2>4. m + t.elapsed >= due \/ t.elapsed = Cap => DueIn(m, t)
      BY <1>5, <2>1 DEF DueIn
    <2>5. l + s.elapsed >= due \/ s.elapsed = Cap => m + t.elapsed >= due \/ t.elapsed = Cap
      BY <1>2, <2>2
    <2> QED
      BY <1>3, <2>3, <2>4, <2>5
  <1> QED
    BY <1>4, <1>5

\* One confirmation more: the old thread still sleeps long enough, the restarted
\* one too and not longer, and f is called only for what is late.
LEMMA DueConfirm ==
    ASSUME NEW s \in SuspicionType, NEW t, NEW from, from \notin s.conf,
           t.conf = s.conf \cup {from}, t.k = s.k, t.elapsed = s.elapsed,
           Counted(s), s.conf # {}, Count(s) <= s.k,
           NEW l \in Nat, DueIn(l, s)
    PROVE  /\ Counted(t) /\ Count(t) = Count(s) + 1
           /\ DueIn(l, t)
           /\ Late(s) => Late(t)
           /\ \A r \in Remaining(Count(s) + 1, s.k, s.elapsed) :
                 /\ r > 0 => r \in 0..Never /\ DueIn(r, t) /\ (s.k > 0 => r <= l)
                 /\ ~(r > 0) => Late(t)
  <1>0. /\ s.k \in {0, K} /\ s.k \in Nat /\ s.elapsed \in Nat /\ Count(s) \in 0..s.k /\ s.elapsed <= Cap
        /\ Max \in Nat /\ Never = Max + 1 /\ Cap = Max + 1 /\ Min \in Nat
    BY MaxType, TimesAssumption, SuspicionFields DEF Counted, Cap, Never
  <1>1. IsFiniteSet(t.conf) /\ Count(t) = Count(s) + 1
    <2>1. IsFiniteSet(s.conf) /\ Cardinality(s.conf) \in Nat
      BY FS_CardinalityType DEF Counted
    <2>2. IsFiniteSet(t.conf) /\ Cardinality(t.conf) = Cardinality(s.conf) + 1
      BY <2>1, FS_AddElement
    <2> QED
      BY <2>1, <2>2 DEF Count
  <1>2. Counted(t)
    BY <1>0, <1>1 DEF Counted
  <1>3. Late(s) => Late(t)
    BY <1>0, <1>1 DEF Late
  <1>4. CASE s.k = 0
    <2>1. Count(t) > 0 /\ t.k = 0
      BY <1>0, <1>1, <1>4
    <2>2. Remaining(Count(s) + 1, s.k, s.elapsed) = {0, Never}
      BY <1>4 DEF Remaining
    <2> QED
      BY <1>0, <1>1, <1>2, <1>4, <2>1, <2>2 DEF DueIn, Late
  <1>5. CASE s.k > 0
    <2> DEFINE old == TimeoutAfter(Count(s), s.k)
               new == TimeoutAfter(Count(s) + 1, s.k)
               r == new - s.elapsed
    <2>1. old \in Int /\ new \in Int /\ new <= old /\ old <= Max
      BY <1>0, <1>5, TimeoutProperties
    <2>2. Count(s) + 1 <= s.k => Min <= new
      <3> SUFFICES ASSUME Count(s) + 1 <= s.k PROVE Min <= new
        OBVIOUS
      <3>1. Count(s) + 1 \in 0..s.k
        BY <1>0
      <3>2. s.k \in {K} \ {0}
        BY <1>0, <1>5
      <3> QED
        BY <3>1, <3>2, TimeoutProperties
    <2>3. Remaining(Count(s) + 1, s.k, s.elapsed) = {r}
      BY <1>0, <1>5 DEF Remaining
    <2>4. l + s.elapsed >= old \/ s.elapsed = Cap
      BY <1>0, <1>5 DEF DueIn
    <2>5. \A m : DueIn(m, t) <=> m + s.elapsed >= new \/ s.elapsed = Cap
      BY <1>0, <1>1, <1>5 DEF DueIn
    <2>6. Late(t) <=> s.elapsed >= Min \/ Count(s) + 1 > s.k
      BY <1>1 DEF Late
    <2> HIDE DEF old, new
    <2>7. DueIn(l, t)
      BY <1>0, <2>1, <2>4, <2>5
    <2>8. r > 0 => r \in 0..Never /\ r + s.elapsed >= new /\ r <= l
      BY <1>0, <2>1, <2>4
    <2>9. ~(r > 0) => Late(t)
      BY <1>0, <2>1, <2>2, <2>6
    <2> QED
      BY <1>1, <1>2, <1>3, <2>3, <2>5, <2>7, <2>8, <2>9
  <1> QED
    BY <1>0, <1>4, <1>5

\* A thread that has slept out is late.
LEMMA DueNow ==
    ASSUME NEW s \in SuspicionType, Counted(s), s.conf # {}, DueIn(0, s)
    PROVE  Late(s)
  <1>0. /\ s.k \in {0, K} /\ s.k \in Nat /\ s.elapsed \in Nat /\ Count(s) \in 0..(s.k + 1)
        /\ Max \in Nat /\ Cap = Max + 1 /\ Min \in Nat /\ Min <= Max
    BY MaxType, TimesAssumption, SuspicionFields DEF Counted, Cap
  <1>1. CASE s.k = 0
    BY <1>0, <1>1 DEF DueIn, Late
  <1>2. CASE s.k > 0 /\ Count(s) \in 0..s.k
    <2>1. TimeoutAfter(Count(s), s.k) \in Int /\ Min <= TimeoutAfter(Count(s), s.k)
      BY <1>0, <1>2, TimeoutProperties
    <2>2. s.elapsed >= TimeoutAfter(Count(s), s.k) \/ s.elapsed = Cap
      BY <1>0, <1>2 DEF DueIn
    <2> QED
      BY <1>0, <2>1, <2>2 DEF Late
  <1>3. CASE Count(s) > s.k
    BY <1>3 DEF Late
  <1> QED
    BY <1>0, <1>1, <1>2, <1>3

-----------------------------------------------------------------------------
(* The steps. *)

\* Cancel sets a flag and leaves the thread where it is, with the time it has left.
LEMMA CancelTyped ==
    ASSUME thread \in [Nodes -> ThreadType], NEW x \in Nodes, Cancel(x)
    PROVE  /\ thread' \in [Nodes -> ThreadType]
           /\ \A y \in Nodes : thread'[y].pc = thread[y].pc /\ thread'[y].left = thread[y].left
  <1> DEFINE t == thread[x]
             c == (t.cancelled \/ t.pc # "ended")
             u == [t EXCEPT !.cancelled = c]
  <1>1. t \in ThreadType
    OBVIOUS
  <1>2. thread' = [thread EXCEPT ![x] = u]
    BY DEF Cancel
  <1>3. c \in BOOLEAN
    BY <1>1, Zenon DEF ThreadType
  <1> HIDE DEF c, t
  <1>4. u \in ThreadType /\ u.pc = t.pc /\ u.left = t.left
    BY <1>1, <1>3 DEF ThreadType
  <1> HIDE DEF u
  <1> QED
    BY <1>2, <1>4 DEF t

\* The types that the invariant gives to threads, timers and the lock.
LEMMA TInvTypes ==
    ASSUME TInv
    PROVE  /\ thread \in [Nodes -> ThreadType] /\ nodeTimers \in [Nodes -> SuspicionType]
           /\ nodeMutex \in MutexType /\ nodeMutex.node \in Nodes /\ nodeMutex.remain \in Nat
           /\ Never \in Nat /\ Cap \in Nat /\ Max \in Nat /\ Min \in Nat
           /\ \A x \in Nodes : thread[x].left \in Nat /\ thread[x].now \in 0..MaxEpoch
  <1>1. Never \in Nat /\ Cap \in Nat /\ Max \in Nat /\ Min \in Nat
    BY MaxType, TimesAssumption DEF Never, Cap
  <1>2. thread \in [Nodes -> ThreadType] /\ nodeTimers \in [Nodes -> SuspicionType]
        /\ nodeMutex \in MutexType
    BY DEF TInv, Typed, TypeOK
  <1>3. nodeMutex.node \in Nodes /\ nodeMutex.remain \in Nat
    BY <1>1, <1>2 DEF MutexType
  <1>4. \A x \in Nodes : thread[x].left \in Nat /\ thread[x].now \in 0..MaxEpoch
    BY <1>1, <1>2 DEF ThreadType
  <1> QED
    BY <1>1, <1>2, <1>3, <1>4

\* A step in which nothing is confirmed, no time passes and no thread starts.
LEMMA TInvSame ==
    ASSUME TInv, SInv', Typed',
           \A y \in Nodes :
              /\ nodeTimers'[y].conf = nodeTimers[y].conf /\ nodeTimers'[y].k = nodeTimers[y].k
              /\ nodeTimers'[y].elapsed = nodeTimers[y].elapsed
              /\ thread'[y].left = thread[y].left
              /\ thread'[y].pc \in Fired => thread[y].pc \in Fired \/ Late(nodeTimers[y]),
           nodeMutex' = nodeMutex \/ nodeMutex'.at \notin {"restart", "f"}
    PROVE  TInv'
  <1>1. ASSUME NEW y \in Nodes PROVE NodeInTime(y)'
    <2>1. NodeInTime(y)
      BY DEF TInv
    <2>2. /\ Counted(nodeTimers'[y]) <=> Counted(nodeTimers[y])
          /\ Late(nodeTimers'[y]) <=> Late(nodeTimers[y])
          /\ DueIn(thread[y].left, nodeTimers'[y]) <=> DueIn(thread[y].left, nodeTimers[y])
      BY DueSame
    <2> QED
      BY <2>1, <2>2 DEF NodeInTime, Exists
  <1>2. HandlerInTime'
    <2>1. CASE nodeMutex' = nodeMutex
      <3> DEFINE x == nodeMutex.node
      <3>1. x \in Nodes
        BY TInvTypes
      <3>2. /\ Late(nodeTimers'[x]) <=> Late(nodeTimers[x])
            /\ DueIn(nodeMutex.remain, nodeTimers'[x]) <=> DueIn(nodeMutex.remain, nodeTimers[x])
            /\ nodeTimers'[x].conf = nodeTimers[x].conf
        BY <3>1, DueSame
      <3> QED
        BY <2>1, <3>2 DEF TInv, HandlerInTime, Exists
    <2>2. CASE nodeMutex'.at \notin {"restart", "f"}
      BY <2>2 DEF HandlerInTime
    <2> QED
      BY <2>1, <2>2
  <1> QED
    BY <1>1, <1>2 DEF TInv

\* A new suspicion starts with the whole of its timeout left.
LEMMA SuspectNewInTime ==
    ASSUME TInv, NEW x \in Nodes, NEW from \in Peers, SuspectNew(x, from)
    PROVE  TInv'
  <1>1. PICK k \in Expected :
            /\ nodeTimers' = [nodeTimers EXCEPT ![x] =
                  [conf |-> {from}, k |-> k, elapsed |-> 0, running |-> TRUE]]
            /\ thread' = [thread EXCEPT ![x] = Asleep(IF k < 1 THEN Min ELSE Max, epoch + 1)]
    BY DEF SuspectNew
  <1> DEFINE s == [conf |-> {from}, k |-> k, elapsed |-> 0, running |-> TRUE]
             left == IF k < 1 THEN Min ELSE Max
             t == Asleep(left, epoch + 1)
  <1>2. SInv'
    BY SuspectNewKeeps DEF TInv
  <1>3. s \in SuspicionType /\ s.conf = {from} /\ s.k = k /\ s.elapsed = 0
    BY TInvTypes DEF SuspicionType, Expected
  <1>4. left \in 0..Never /\ epoch + 1 \in 0..MaxEpoch
    <2>1. Min <= Max
      BY MaxType
    <2> QED
      BY <2>1, TInvTypes, EpochAssumption DEF Never, SuspectNew, TInv, Typed, TypeOK
  <1> HIDE DEF left
  <1>5. t \in ThreadType /\ t.left = left /\ t.pc = "asleep"
    BY <1>4 DEF ThreadType, Asleep
  <1> HIDE DEF s, t
  <1>6. /\ nodeTimers' = [nodeTimers EXCEPT ![x] = s] /\ thread' = [thread EXCEPT ![x] = t]
    BY <1>1 DEF s, t, left
  <1>7. /\ nodeTimers' \in [Nodes -> SuspicionType] /\ thread' \in [Nodes -> ThreadType]
        /\ nodeTimers'[x] = s /\ thread'[x] = t
        /\ \A y \in Nodes \ {x} : nodeTimers'[y] = nodeTimers[y] /\ thread'[y] = thread[y]
    BY <1>3, <1>5, <1>6, TInvTypes
  <1>8. Typed'
    BY <1>4, <1>7 DEF TInv, Typed, TypeOK, SuspectNew
  <1>9. HandlerInTime'
    BY DEF HandlerInTime, SuspectNew, MutexFree
  <1>10. Counted(s) /\ Count(s) = 0
    <2>1. IsFiniteSet({from}) /\ Cardinality({from}) = 1
      BY FS_Singleton
    <2>2. Count(s) = 0
      BY <1>3, <2>1 DEF Count
    <2>3. 0 \in 0..(s.k + 1)
      BY <1>3, SuspicionFields
    <2> QED
      BY <1>3, <2>1, <2>2, <2>3 DEF Counted
  <1>11. DueIn(left, s)
    <2>1. CASE k = 0
      BY <1>3, <2>1, TInvTypes DEF DueIn, left
    <2>2. CASE k # 0
      <3>1. k \in {K} \ {0} /\ 0 \in 0..k
        BY <2>2, KAssumption DEF Expected
      <3>2. TimeoutAfter(0, k) = Max
        BY <3>1, TimeoutProperties
      <3>3. left = Max
        BY <3>1, KAssumption DEF left
      <3> QED
        BY <1>3, <1>10, <2>2, <3>2, <3>3, TInvTypes DEF DueIn
    <2> QED
      BY <2>1, <2>2
  <1>12. ASSUME NEW y \in Nodes PROVE NodeInTime(y)'
    <2>1. CASE y = x
      BY <1>5, <1>7, <1>10, <1>11, <2>1 DEF NodeInTime, Fired
    <2>2. CASE y # x
      BY <1>7, <2>2 DEF TInv, NodeInTime, Exists
    <2> QED
      BY <2>1, <2>2
  <1> QED
    BY <1>2, <1>8, <1>9, <1>12 DEF TInv

\* What Confirm does: the record of the suspicion, the thread, the handler.
LEMMA ConfirmSteps ==
    ASSUME TInv, NEW x \in Nodes, NEW from \in Peers, Confirm(x, from)
    PROVE  LET s == nodeTimers[x]
               t == nodeTimers'[x]
           IN  /\ nodeTimers' \in [Nodes -> SuspicionType]
               /\ t.conf = s.conf \cup {from} /\ t.k = s.k /\ t.elapsed = s.elapsed
               /\ \A y \in Nodes \ {x} : nodeTimers'[y] = nodeTimers[y]
               /\ thread' \in [Nodes -> ThreadType]
               /\ \A y \in Nodes : thread'[y].pc = thread[y].pc /\ thread'[y].left = thread[y].left
               /\ from \notin s.conf /\ s.conf # {} /\ Count(s) <= s.k
               /\ \/ nodeMutex' = nodeMutex
                  \/ \E r \in Remaining(Count(s) + 1, s.k, s.elapsed) :
                        nodeMutex' = IF r > 0 THEN Holding("restart", x, r) ELSE Holding("f", x, 0)
  <1> DEFINE s == nodeTimers[x]
             a == [s EXCEPT !.conf = s.conf \cup {from}]
             b == [a EXCEPT !.running = FALSE]
  <1>1. s \in SuspicionType
    BY TInvTypes
  <1>2. a \in SuspicionType /\ a.conf = s.conf \cup {from} /\ a.k = s.k /\ a.elapsed = s.elapsed
    BY <1>1 DEF SuspicionType
  <1>3. nodeTimers' = [nodeTimers EXCEPT ![x] = b]
    BY TInvTypes DEF Confirm
  <1> HIDE DEF a
  <1>4. b \in SuspicionType /\ b.conf = s.conf \cup {from} /\ b.k = s.k /\ b.elapsed = s.elapsed
    BY <1>2 DEF SuspicionType
  <1> HIDE DEF b
  <1>5. /\ nodeTimers' \in [Nodes -> SuspicionType] /\ nodeTimers'[x] = b
        /\ \A y \in Nodes \ {x} : nodeTimers'[y] = nodeTimers[y]
    BY <1>3, <1>4, TInvTypes
  <1>6. /\ thread' \in [Nodes -> ThreadType]
        /\ \A y \in Nodes : thread'[y].pc = thread[y].pc /\ thread'[y].left = thread[y].left
    <2>1. CASE Cancel(x)
      BY <2>1, TInvTypes, CancelTyped
    <2>2. CASE thread' = thread
      BY <2>2, TInvTypes
    <2> QED
      BY <2>1, <2>2 DEF Confirm
  <1>7. from \notin s.conf /\ s.conf # {} /\ Count(s) <= s.k
    BY DEF Confirm, Exists, Confirmations, Count
  <1>8. \/ nodeMutex' = nodeMutex
        \/ \E r \in Remaining(Count(s) + 1, s.k, s.elapsed) :
              nodeMutex' = IF r > 0 THEN Holding("restart", x, r) ELSE Holding("f", x, 0)
    BY DEF Confirm, Confirmations, Count
  <1> QED
    BY <1>4, <1>5, <1>6, <1>7, <1>8

\* A confirmation computes a remaining time that respects Min and is no longer
\* than what was left.
LEMMA ConfirmInTime ==
    ASSUME TInv, NEW x \in Nodes, NEW from \in Peers, Confirm(x, from)
    PROVE  /\ TInv'
           /\ nodeMutex'.at = "restart" =>
                 nodeMutex'.node = x
                 /\ (nodeTimers[x].k > 0 => nodeMutex'.remain <= thread[x].left)
  <1> DEFINE s == nodeTimers[x]
             t == nodeTimers'[x]
             l == thread[x].left
  <1>1. SInv'
    BY ConfirmKeeps DEF TInv
  <1>2. s \in SuspicionType /\ l \in Nat /\ nodeMutex.at = "free"
    BY TInvTypes DEF Confirm, MutexFree
  <1>3. s.conf # {} /\ Counted(s) /\ DueIn(l, s) /\ NodeInTime(x)
    BY ConfirmSteps DEF TInv, NodeInTime, Exists
  <1>4. /\ Counted(t) /\ DueIn(l, t) /\ (Late(s) => Late(t))
        /\ \A r \in Remaining(Count(s) + 1, s.k, s.elapsed) :
              /\ r > 0 => r \in 0..Never /\ DueIn(r, t) /\ (s.k > 0 => r <= l)
              /\ ~(r > 0) => Late(t)
    <2>1. /\ t.conf = s.conf \cup {from} /\ t.k = s.k /\ t.elapsed = s.elapsed
          /\ from \notin s.conf /\ Count(s) <= s.k
      BY ConfirmSteps
    <2> HIDE DEF s, t, l
    <2> QED
      BY <1>2, <1>3, <2>1, DueConfirm
  <1>5. t.conf # {}
    BY ConfirmSteps
  <1>6. CASE nodeMutex' = nodeMutex
    <2>1. Typed'
      BY <1>6, ConfirmSteps DEF TInv, Typed, TypeOK, Confirm, HandlerUnchanged
    <2>2. HandlerInTime' /\ nodeMutex'.at # "restart"
      BY <1>2, <1>6 DEF HandlerInTime
    <2>3. ASSUME NEW y \in Nodes PROVE NodeInTime(y)'
      <3>1. CASE y = x
        BY <1>3, <1>4, <3>1, ConfirmSteps DEF NodeInTime
      <3>2. CASE y # x
        BY <3>2, ConfirmSteps DEF TInv, NodeInTime, Exists
      <3> QED
        BY <3>1, <3>2
    <2> QED
      BY <1>1, <2>1, <2>2, <2>3 DEF TInv
  <1>7. ASSUME NEW r \in Remaining(Count(s) + 1, s.k, s.elapsed),
               nodeMutex' = IF r > 0 THEN Holding("restart", x, r) ELSE Holding("f", x, 0)
        PROVE  /\ TInv'
               /\ nodeMutex'.at = "restart" =>
                     nodeMutex'.node = x
                     /\ (nodeTimers[x].k > 0 => nodeMutex'.remain <= thread[x].left)
    <2>1. /\ nodeMutex' \in MutexType /\ nodeMutex'.node = x
          /\ nodeMutex'.at = (IF r > 0 THEN "restart" ELSE "f")
          /\ r > 0 => nodeMutex'.remain = r
      <3>1. CASE r > 0
        BY <1>4, <1>7, <3>1 DEF Holding, MutexType
      <3>2. CASE ~(r > 0)
        <4>1. 0 \in 0..Never
          BY TInvTypes
        <4> QED
          BY <1>7, <3>2, <4>1 DEF Holding, MutexType
      <3> QED
        BY <3>1, <3>2
    <2>2. Typed'
      BY <2>1, ConfirmSteps DEF TInv, Typed, TypeOK, Confirm, HandlerUnchanged, MutexType
    <2>3. HandlerInTime'
      BY <1>4, <1>5, <1>7, <2>1 DEF HandlerInTime, Exists
    <2>4. ASSUME NEW y \in Nodes PROVE NodeInTime(y)'
      <3>1. CASE y = x
        BY <1>3, <1>4, <3>1, ConfirmSteps DEF NodeInTime
      <3>2. CASE y # x
        BY <3>2, ConfirmSteps DEF TInv, NodeInTime, Exists
      <3> QED
        BY <3>1, <3>2
    <2> QED
      BY <1>1, <1>4, <1>7, <2>1, <2>2, <2>3, <2>4 DEF TInv
  <1> QED
    BY <1>6, <1>7, ConfirmSteps

\* The restarted thread sleeps for that remaining time.
LEMMA RestartedInTime ==
    ASSUME TInv, Restarted
    PROVE  TInv'
  <1> DEFINE x == nodeMutex.node
             t == Asleep(nodeMutex.remain, thread[x].now)
  <1>1. SInv'
    BY RestartedKeeps DEF TInv
  <1>2. /\ x \in Nodes /\ thread' = [thread EXCEPT ![x] = t]
        /\ nodeTimers' = [nodeTimers EXCEPT ![x].running = TRUE]
        /\ nodeMutex' = Free /\ DueIn(nodeMutex.remain, nodeTimers[x])
    BY TInvTypes DEF Restarted, TInv, HandlerInTime
  <1>3. t \in ThreadType /\ t.left = nodeMutex.remain /\ t.pc = "asleep"
    <2>1. nodeMutex.remain \in 0..Never /\ thread[x].now \in 0..MaxEpoch
      BY <1>2, TInvTypes DEF MutexType
    <2> QED
      BY <2>1 DEF Asleep, ThreadType
  <1> HIDE DEF t
  <1>4. /\ thread' \in [Nodes -> ThreadType] /\ thread'[x] = t
        /\ \A y \in Nodes \ {x} : thread'[y] = thread[y]
    BY <1>2, <1>3, TInvTypes
  <1>5. /\ nodeTimers' \in [Nodes -> SuspicionType]
        /\ \A y \in Nodes : /\ nodeTimers'[y].conf = nodeTimers[y].conf
                            /\ nodeTimers'[y].k = nodeTimers[y].k
                            /\ nodeTimers'[y].elapsed = nodeTimers[y].elapsed
    BY <1>2, TInvTypes DEF SuspicionType
  <1>6. nodeMutex' \in MutexType /\ nodeMutex'.at = "free" /\ nodeMutex'.node \in Nodes
    <2>1. 0 \in 0..Never
      BY TInvTypes
    <2> QED
      BY <1>2, <2>1, NodesNonempty DEF Free, MutexType
  <1>7. Typed'
    BY <1>4, <1>5, <1>6 DEF TInv, Typed, TypeOK, Restarted, HandlerUnchanged
  <1>8. HandlerInTime'
    BY <1>6 DEF HandlerInTime
  <1>9. ASSUME NEW y \in Nodes PROVE NodeInTime(y)'
    <2>1. /\ Counted(nodeTimers'[y]) <=> Counted(nodeTimers[y])
          /\ Late(nodeTimers'[y]) <=> Late(nodeTimers[y])
          /\ \A l : DueIn(l, nodeTimers'[y]) <=> DueIn(l, nodeTimers[y])
      BY <1>5, DueSame
    <2>2. NodeInTime(y)
      BY DEF TInv
    <2>3. CASE y = x
      BY <1>2, <1>3, <1>4, <2>1, <2>2, <2>3 DEF NodeInTime, Fired
    <2>4. CASE y # x
      BY <1>4, <1>5, <2>1, <2>2, <2>4 DEF NodeInTime, Exists
    <2> QED
      BY <2>3, <2>4
  <1> QED
    BY <1>1, <1>7, <1>8, <1>9 DEF TInv

\* aliveNode or deadNode stops the timer of x.
LEMMA EraseInTime ==
    ASSUME TInv, NEW x \in Nodes, NEW st \in {"alive", "dead"}, Erase(x, st)
    PROVE  TInv'
  <1>1. SInv'
    BY EraseKeeps DEF TInv
  <1>2. CASE Exists(x)
    <2>1. /\ Cancel(x) /\ nodeTimers' = [nodeTimers EXCEPT ![x].running = FALSE]
          /\ nodeMutex' = Holding(st, x, 0) /\ UNCHANGED <<state, stateChange, epoch, terminated>>
      BY <1>2 DEF Erase, HandlerUnchanged
    <2>2. /\ thread' \in [Nodes -> ThreadType]
          /\ \A y \in Nodes : thread'[y].pc = thread[y].pc /\ thread'[y].left = thread[y].left
      BY <2>1, TInvTypes, CancelTyped
    <2>3. /\ nodeTimers' \in [Nodes -> SuspicionType]
          /\ \A y \in Nodes : /\ nodeTimers'[y].conf = nodeTimers[y].conf
                              /\ nodeTimers'[y].k = nodeTimers[y].k
                              /\ nodeTimers'[y].elapsed = nodeTimers[y].elapsed
      BY <2>1, TInvTypes DEF SuspicionType
    <2>4. nodeMutex' \in MutexType /\ nodeMutex'.at = st /\ nodeMutex'.node = x
      <3>1. 0 \in 0..Never
        BY TInvTypes
      <3> QED
        BY <2>1, <3>1 DEF Holding, MutexType
    <2>5. Typed'
      BY <2>1, <2>2, <2>3, <2>4 DEF TInv, Typed, TypeOK
    <2> QED
      BY <1>1, <2>2, <2>3, <2>4, <2>5, TInvSame
  <1>3. CASE ~Exists(x)
    <2>1. /\ state' = [state EXCEPT ![x] = st] /\ stateChange' = [stateChange EXCEPT ![x] = 0]
          /\ UNCHANGED <<thread, nodeTimers, nodeMutex, epoch, terminated>>
      BY <1>3 DEF Erase, HandlerUnchanged
    <2>2. Typed'
      BY <2>1, EpochAssumption DEF TInv, Typed, TypeOK
    <2> QED
      BY <1>1, <2>1, <2>2, TInvSame
  <1> QED
    BY <1>2, <1>3

\* The suspicion is gone and so is its deadline.
LEMMA ErasedInTime ==
    ASSUME TInv, Erased
    PROVE  TInv'
  <1> DEFINE x == nodeMutex.node
  <1>1. SInv'
    BY ErasedKeeps DEF TInv
  <1>2. /\ x \in Nodes /\ thread[x].pc = "ended" /\ thread' = thread
        /\ nodeTimers' = [nodeTimers EXCEPT ![x] = NoSuspicion]
        /\ state' = [state EXCEPT ![x] = nodeMutex.at] /\ nodeMutex.at \in {"alive", "dead"}
        /\ stateChange' = [stateChange EXCEPT ![x] = 0]
        /\ nodeMutex' = Free /\ UNCHANGED <<epoch, terminated>>
    BY TInvTypes DEF Erased, HandlerUnchanged
  <1>3. NoSuspicion \in SuspicionType /\ NoSuspicion.conf = {}
    BY TInvTypes DEF NoSuspicion, SuspicionType
  <1> HIDE DEF x
  <1>4. /\ nodeTimers' \in [Nodes -> SuspicionType] /\ nodeTimers'[x] = NoSuspicion
        /\ \A y \in Nodes \ {x} : nodeTimers'[y] = nodeTimers[y]
    BY <1>2, <1>3, TInvTypes
  <1>5. nodeMutex' \in MutexType /\ nodeMutex'.at = "free" /\ nodeMutex'.node \in Nodes
    <2>1. 0 \in 0..Never
      BY TInvTypes
    <2> QED
      BY <1>2, <2>1, NodesNonempty DEF Free, MutexType
  <1>6. Typed'
    BY <1>2, <1>4, <1>5, EpochAssumption DEF TInv, Typed, TypeOK
  <1>7. HandlerInTime'
    BY <1>5 DEF HandlerInTime
  <1>8. ASSUME NEW y \in Nodes PROVE NodeInTime(y)'
    <2>1. CASE y = x
      BY <1>2, <1>3, <1>4, <2>1, FS_EmptySet DEF NodeInTime, Counted, Exists, Fired
    <2>2. CASE y # x
      BY <1>2, <1>4, <2>2 DEF TInv, NodeInTime, Exists
    <2> QED
      BY <2>1, <2>2
  <1> QED
    BY <1>1, <1>6, <1>7, <1>8 DEF TInv

\* The timer thread wakes up, declares the node dead or ends.
LEMMA ThreadInTime ==
    ASSUME TInv, NEW x \in Nodes, TimerThread(x)
    PROVE  TInv'
  <1>1. SInv'
    BY ThreadKeeps DEF TInv
  <1>2. UNCHANGED <<nodeMutex, state, stateChange, epoch>>
    <2>1. CASE DeclareDead(x)
      BY <2>1 DEF DeclareDead, TInv, SInv, ThreadHasSuspicion
    <2> QED
      BY <2>1 DEF TimerThread, Wake, CancelledAsleep, CheckTimeout, LogTimeout, ThreadUnchanged
  <1>3. PICK v \in {"ended", "lock", "log", "deadNode"} :
            /\ thread' = [thread EXCEPT ![x].pc = v]
            /\ v \in Fired => thread[x].pc \in Fired \/ Late(nodeTimers[x])
    <2>1. CASE Wake(x)
      <3>1. thread[x].pc = "asleep" /\ thread[x].left = 0
            /\ thread' = [thread EXCEPT ![x].pc = "lock"]
        BY <2>1 DEF Wake
      <3>2. Exists(x) /\ Counted(nodeTimers[x]) /\ DueIn(0, nodeTimers[x])
        BY <3>1 DEF TInv, SInv, ThreadHasSuspicion, NodeInTime
      <3>3. Late(nodeTimers[x])
        BY <3>2, DueNow, TInvTypes DEF Exists
      <3> QED
        BY <3>1, <3>3
    <2>2. CASE CancelledAsleep(x)
      BY <2>2 DEF CancelledAsleep, Fired
    <2>3. CASE CheckTimeout(x)
      BY <2>3 DEF CheckTimeout, Fired
    <2>4. CASE LogTimeout(x)
      BY <2>4 DEF LogTimeout, Fired
    <2>5. CASE DeclareDead(x)
      BY <2>5 DEF DeclareDead, Fired
    <2> QED
      BY <2>1, <2>2, <2>3, <2>4, <2>5 DEF TimerThread
  <1>4. /\ thread' \in [Nodes -> ThreadType] /\ thread'[x].pc = v
        /\ \A y \in Nodes : thread'[y].left = thread[y].left
        /\ \A y \in Nodes \ {x} : thread'[y] = thread[y]
    BY <1>3, TInvTypes DEF ThreadType
  <1>5. nodeTimers' = nodeTimers \/ nodeTimers' = [nodeTimers EXCEPT ![x].running = FALSE]
    BY DEF TimerThread, Wake, CancelledAsleep, CheckTimeout, LogTimeout, DeclareDead
  <1>6. /\ nodeTimers' \in [Nodes -> SuspicionType]
        /\ \A y \in Nodes : /\ nodeTimers'[y].conf = nodeTimers[y].conf
                            /\ nodeTimers'[y].k = nodeTimers[y].k
                            /\ nodeTimers'[y].elapsed = nodeTimers[y].elapsed
    <2>1. CASE nodeTimers' = nodeTimers
      BY <2>1, TInvTypes
    <2>2. CASE nodeTimers' = [nodeTimers EXCEPT ![x].running = FALSE]
      BY <2>2, TInvTypes DEF SuspicionType
    <2> QED
      BY <1>5, <2>1, <2>2
  <1>7. terminated' \in BOOLEAN
    BY DEF TimerThread, Wake, CancelledAsleep, CheckTimeout, LogTimeout, DeclareDead, Exists,
           TInv, Typed, TypeOK
  <1>8. Typed'
    BY <1>2, <1>4, <1>6, <1>7 DEF TInv, Typed, TypeOK
  <1>9. \A y \in Nodes : thread'[y].pc \in Fired => thread[y].pc \in Fired \/ Late(nodeTimers[y])
    BY <1>3, <1>4
  <1> QED
    BY <1>1, <1>2, <1>4, <1>6, <1>8, <1>9, TInvSame

\* A tick takes one unit from what is left and adds one to what has elapsed.
LEMMA TickInTime ==
    ASSUME TInv, Tick
    PROVE  TInv'
  <1>1. SInv'
    BY TickKeeps DEF TInv
  <1>2. UNCHANGED <<nodeMutex, state, stateChange, epoch, terminated>>
    BY DEF Tick
  <1>3. ASSUME NEW y \in Nodes
        PROVE  /\ nodeTimers'[y] \in SuspicionType
               /\ nodeTimers'[y].conf = nodeTimers[y].conf
               /\ nodeTimers'[y].k = nodeTimers[y].k
               /\ Exists(y) => nodeTimers'[y].elapsed =
                     (IF nodeTimers[y].elapsed < Cap THEN nodeTimers[y].elapsed + 1
                                                     ELSE nodeTimers[y].elapsed)
    <2> DEFINE s == nodeTimers[y]
    <2>1. s \in SuspicionType /\ s.elapsed \in 0..Cap /\ Cap \in Nat
      BY TInvTypes, SuspicionFields
    <2>2. nodeTimers'[y] = IF Exists(y) /\ s.elapsed < Cap
                           THEN [s EXCEPT !.elapsed = s.elapsed + 1] ELSE s
      BY DEF Tick
    <2> HIDE DEF s
    <2>3. CASE Exists(y) /\ s.elapsed < Cap
      <3>1. s.elapsed + 1 \in 0..Cap
        BY <2>1, <2>3
      <3>2. nodeTimers'[y] = [s EXCEPT !.elapsed = s.elapsed + 1]
        BY <2>2, <2>3
      <3>3. /\ nodeTimers'[y] \in SuspicionType /\ nodeTimers'[y].conf = s.conf
            /\ nodeTimers'[y].k = s.k /\ nodeTimers'[y].elapsed = s.elapsed + 1
        BY <2>1, <3>1, <3>2 DEF SuspicionType
      <3> QED
        BY <2>3, <3>3 DEF s
    <2>4. CASE ~(Exists(y) /\ s.elapsed < Cap)
      BY <2>1, <2>2, <2>4 DEF s
    <2> QED
      BY <2>3, <2>4
  <1>4. ASSUME NEW y \in Nodes
        PROVE  /\ thread'[y] \in ThreadType /\ thread'[y].pc = thread[y].pc
               /\ thread'[y].left = thread[y].left \/ thread'[y].left = thread[y].left - 1
               /\ thread'[y].left \in Nat
    <2> DEFINE t == thread[y]
    <2>1. t \in ThreadType /\ t.left \in 0..Never /\ Never \in Nat /\ Max \in Nat /\ Never = Max + 1
      BY TInvTypes DEF ThreadType, Never
    <2>2. thread'[y] = IF t.left \in 1..Max THEN [t EXCEPT !.left = t.left - 1] ELSE t
      BY DEF Tick
    <2> HIDE DEF t
    <2>3. CASE t.left \in 1..Max
      <3>1. t.left - 1 \in 0..Never /\ t.left - 1 \in Nat
        BY <2>1, <2>3
      <3>2. thread'[y] = [t EXCEPT !.left = t.left - 1]
        BY <2>2, <2>3
      <3>3. thread'[y] \in ThreadType /\ thread'[y].pc = t.pc /\ thread'[y].left = t.left - 1
        BY <2>1, <3>1, <3>2 DEF ThreadType
      <3> QED
        BY <3>1, <3>3 DEF t
    <2>4. CASE t.left \notin 1..Max
      BY <2>1, <2>2, <2>4 DEF t
    <2> QED
      BY <2>3, <2>4
  <1>5. Typed'
    <2>1. nodeTimers' \in [Nodes -> SuspicionType]
      BY <1>3 DEF Tick
    <2>2. thread' \in [Nodes -> ThreadType]
      BY <1>4 DEF Tick
    <2> QED
      BY <1>2, <2>1, <2>2 DEF TInv, Typed, TypeOK
  <1>6. ASSUME NEW y \in Nodes, Exists(y)
        PROVE  /\ Late(nodeTimers[y]) => Late(nodeTimers'[y])
               /\ \A l, m \in Nat : m = l \/ m = l - 1 =>
                     (DueIn(l, nodeTimers[y]) => DueIn(m, nodeTimers'[y]))
    <2>1. nodeTimers[y] \in SuspicionType /\ Counted(nodeTimers[y]) /\ nodeTimers[y].conf # {}
      BY <1>6, TInvTypes DEF TInv, NodeInTime, Exists
    <2>2. /\ nodeTimers'[y] \in SuspicionType
          /\ nodeTimers'[y].conf = nodeTimers[y].conf /\ nodeTimers'[y].k = nodeTimers[y].k
          /\ nodeTimers'[y].elapsed =
                (IF nodeTimers[y].elapsed < Cap THEN nodeTimers[y].elapsed + 1
                                                ELSE nodeTimers[y].elapsed)
      BY <1>3, <1>6
    <2>3. ASSUME NEW l \in Nat, NEW m \in Nat, m = l \/ m = l - 1
          PROVE  /\ Late(nodeTimers[y]) => Late(nodeTimers'[y])
                 /\ DueIn(l, nodeTimers[y]) => DueIn(m, nodeTimers'[y])
      BY <2>1, <2>2, <2>3, DueTick
    <2>4. 0 \in Nat
      OBVIOUS
    <2> QED
      BY <2>3, <2>4
  <1>7. ASSUME NEW y \in Nodes PROVE NodeInTime(y)'
    <2>1. NodeInTime(y) /\ (thread[y].pc \in Fired => Exists(y))
      BY DEF TInv, SInv, ThreadHasSuspicion, Fired
    <2>2. Counted(nodeTimers'[y])
      BY <1>3, <2>1 DEF NodeInTime, Counted, Count
    <2>3. ASSUME Exists(y) PROVE DueIn(thread'[y].left, nodeTimers'[y])
      BY <1>4, <1>6, <2>1, <2>3, TInvTypes DEF NodeInTime
    <2>4. ASSUME thread'[y].pc \in Fired PROVE Late(nodeTimers'[y])
      BY <1>4, <1>6, <2>1, <2>4 DEF NodeInTime
    <2>5. Exists(y)' <=> Exists(y)
      BY <1>3 DEF Exists
    <2> QED
      BY <2>2, <2>3, <2>4, <2>5 DEF NodeInTime
  <1>8. HandlerInTime'
    <2> DEFINE x == nodeMutex.node
    <2>1. x \in Nodes /\ nodeMutex.remain \in Nat /\ (Exists(x)' <=> Exists(x))
      BY <1>2, <1>3, TInvTypes DEF Exists
    <2>2. nodeMutex.at = "restart" => Exists(x)
      BY DEF TInv, SInv, RestartHasSuspicion
    <2>3. ASSUME nodeMutex.at = "restart"
          PROVE  nodeMutex.remain > 0 /\ DueIn(nodeMutex.remain, nodeTimers'[x])
      BY <1>6, <2>1, <2>2, <2>3 DEF TInv, HandlerInTime
    <2>4. ASSUME nodeMutex.at = "f" PROVE Exists(x)' /\ Late(nodeTimers'[x])
      BY <1>6, <2>1, <2>4 DEF TInv, HandlerInTime
    <2> QED
      BY <1>2, <2>3, <2>4 DEF HandlerInTime, Exists
  <1> QED
    BY <1>1, <1>5, <1>7, <1>8 DEF TInv

\* Every step preserves the invariant.
LEMMA TInvInductive == TInv /\ [Next]_vars => TInv'
  <1> SUFFICES ASSUME TInv, [Next]_vars PROVE TInv'
    OBVIOUS
  <1>1. CASE UNCHANGED vars
    <2>1. SInv'
      BY <1>1, SInvInductive DEF TInv
    <2>2. Typed'
      BY <1>1 DEF vars, TInv, Typed, TypeOK
    <2> QED
      BY <1>1, <2>1, <2>2, TInvSame DEF vars
  <1> QED
    BY <1>1, SuspectNewInTime, ConfirmInTime, EraseInTime, ThreadInTime, RestartedInTime,
       ErasedInTime, TickInTime
    DEF Next

\* No deadline runs at first.
LEMMA TInvInit == Init => TInv
  <1> SUFFICES ASSUME Init PROVE TInv
    OBVIOUS
  <1>1. SInv
    BY SInvInit
  <1>2. 0 \in 0..Never /\ 0 \in 0..Cap /\ 0 \in 0..MaxEpoch
    BY MaxType, EpochAssumption DEF Never, Cap
  <1>3. NoSuspicion \in SuspicionType /\ NoSuspicion.conf = {}
    BY <1>2 DEF NoSuspicion, SuspicionType
  <1>4. NoThread \in ThreadType /\ NoThread.pc = "ended"
    BY <1>2 DEF NoThread, ThreadType
  <1>5. Free \in MutexType /\ Free.at = "free" /\ Free.node \in Nodes
    BY <1>2, NodesNonempty DEF Free, MutexType
  <1>6. Typed
    BY <1>2, <1>3, <1>4, <1>5 DEF Init, Typed, TypeOK
  <1>7. HandlerInTime
    BY <1>5 DEF Init, HandlerInTime
  <1>8. ASSUME NEW y \in Nodes PROVE NodeInTime(y)
    BY <1>3, <1>4, FS_EmptySet DEF Init, NodeInTime, Counted, Exists, Fired
  <1> QED
    BY <1>1, <1>6, <1>7, <1>8 DEF TInv

\* The invariant holds in every reachable state.
LEMMA TInvAlways == Spec => []TInv
  BY TInvInit, TInvInductive, PTL DEF Spec

\* Suspicions, timer threads and the handler that holds nodeMutex keep their types
\* whatever confirmations come in: the time a thread still sleeps never gets
\* negative and never exceeds the maximum timeout, or is forever.
THEOREM SuspicionTypeCorrect == Spec => []TypeOK
  <1>1. TInv => TypeOK
    BY DEF TInv, Typed
  <1> QED
    BY <1>1, TInvAlways, PTL

\* No timer fires, and Confirm does not call f, before a suspicion is Min old,
\* except for the confirmation beyond the last one that was expected.
THEOREM MinIsRespected == Spec => []NoExpiryBeforeMin
  <1>1. ASSUME TInv, NEW x \in Nodes,
               \/ thread[x].pc \in {"lock", "log", "deadNode"}
               \/ Blocked /\ nodeMutex.node = x
        PROVE  nodeTimers[x].elapsed >= Min \/ Confirmations(x) > nodeTimers[x].k
    <2>1. Late(nodeTimers[x])
      BY <1>1 DEF TInv, NodeInTime, HandlerInTime, Blocked, Fired
    <2> QED
      BY <2>1 DEF Late, Count, Confirmations
  <1>2. TInv => NoExpiryBeforeMin
    BY <1>1 DEF NoExpiryBeforeMin
  <1> QED
    BY <1>2, TInvAlways, PTL

\* Confirm restarts a timer for no longer than the cancelled thread had left.
THEOREM ConfirmationsShorten == Spec => ConfirmationShortens
  <1> DEFINE P == \A x \in Nodes :
                     MutexFree /\ nodeMutex'.at = "restart" /\ nodeMutex'.node = x
                         /\ nodeTimers[x].k > 0
                     => nodeMutex'.remain <= thread[x].left
  <1>1. ASSUME TInv, [Next]_vars PROVE [P]_vars
    <2> SUFFICES ASSUME NEW x \in Nodes, MutexFree, nodeMutex'.at = "restart",
                        nodeMutex'.node = x, nodeTimers[x].k > 0, Next
                 PROVE  nodeMutex'.remain <= thread[x].left
      BY <1>1
    <2>1. nodeMutex' # nodeMutex /\ nodeMutex.at = "free"
      BY DEF MutexFree
    <2>2. PICK y \in Nodes, from \in Peers : Confirm(y, from)
      <3>1. ASSUME NEW y \in Nodes, NEW from \in Peers, SuspectNew(y, from) PROVE FALSE
        BY <2>1, <3>1 DEF SuspectNew
      <3>2. ASSUME NEW y \in Nodes, NEW st \in {"alive", "dead"}, Erase(y, st) PROVE FALSE
        BY <2>1, <3>2 DEF Erase, Holding
      <3>3. ASSUME NEW y \in Nodes, TimerThread(y) PROVE FALSE
        BY <2>1, <3>3
           DEF TimerThread, Wake, CancelledAsleep, CheckTimeout, LogTimeout, DeclareDead
      <3>4. ~Restarted /\ ~Erased /\ ~Tick
        BY <2>1 DEF Restarted, Erased, Tick
      <3> QED
        BY <3>1, <3>2, <3>3, <3>4 DEF Next
    <2> QED
      BY <1>1, <2>2, ConfirmInTime
  <1> HIDE DEF P
  <1>2. []TInv /\ [][Next]_vars => [][P]_vars
    BY <1>1, PTL
  <1> QED
    BY <1>2, TInvAlways, PTL DEF Spec, ConfirmationShortens, P
=============================================================================
