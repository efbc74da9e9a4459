------------------------------ MODULE Suspicion ------------------------------
(***************************************************************************)
(* The suspicions of one member: their timer threads, the deadlines that   *)
(* confirmations bring forward, and the lock they share with the handlers. *)
(*                                                                         *)
(* suspectNode, aliveNode and deadNode run under nodeMutex.  As long as    *)
(* they do not block they are one step; when they stop a timer they join   *)
(* its thread with the lock held, and that wait is a state of its own.     *)
(* The timer thread needs the same lock to declare the node dead, and the  *)
(* pthread_cancel of onceTimer::Stop does not reach a thread that waits    *)
(* for a mutex.                                                            *)
(***************************************************************************)
EXTENDS Integers, FiniteSets, Sequences

CONSTANTS
    Nodes,      \* the other members, any of which may be suspected
    Peers,      \* who may suspect or confirm
    K,          \* config->SuspicionMult - 2, as a uint8_t
    Log,        \* Log[i]: the logarithm of i, in whatever unit
    Min,        \* suspicionTimeout(...), in ticks
    MaxMult,    \* config->SuspicionMaxTimeoutMult
    MaxEpoch    \* bound: how many suspicions are started

ASSUME NodesNonempty == Nodes # {}
ASSUME TimesAssumption == Min \in Nat \ {0} /\ MaxMult \in Nat \ {0}
ASSUME KAssumption == K \in Nat
\* Of the logarithm only this is used: it is 0 at 1 and grows.
ASSUME LogAssumption ==
    /\ 1..(K + 2) \subseteq DOMAIN Log
    /\ Log[1] = 0
    /\ \A i \in 1..(K + 2) : Log[i] \in Nat
    /\ \A i, j \in 1..(K + 2) : i < j => Log[i] < Log[j]
ASSUME EpochAssumption == MaxEpoch \in Nat

VARIABLES
    state,       \* nodeState::State of every node
    stateChange, \* nodeState::StateChange: which suspicion it is from, 0 if from none
    nodeTimers,  \* the suspicion of every node, or NoSuspicion
    thread,      \* the thread of the suspicion's onceTimer
    nodeMutex,   \* what the handler that holds nodeMutex waits for
    epoch,       \* how many suspicions have been started
    terminated   \* std::terminate has been called

vars == <<state, stateChange, nodeTimers, thread, nodeMutex, epoch, terminated>>

-----------------------------------------------------------------------------
(* Data. *)

Max == MaxMult * Min

\* A remaining time that does not pass: the thread sleeps for ever.
Never == Max + 1

\* The age of a suspicion counts no further: any timeout has passed.
Cap == Max + 1

\* suspicion; elapsed is now - start.
NoSuspicion == [conf |-> {}, k |-> 0, elapsed |-> 0, running |-> FALSE]
SuspicionType == [conf : SUBSET Peers, k : {0, K}, elapsed : 0..Cap, running : BOOLEAN]
Exists(x) == nodeTimers[x].conf # {}

\* n: the confirmations beyond the first accusation.
Confirmations(x) == Cardinality(nodeTimers[x].conf) - 1

\* The thread of a onceTimer; left is how long it will still sleep.  One that has
\* ended, or was never started, can be joined at once.
NoThread == [pc |-> "ended", left |-> 0, cancelled |-> FALSE, now |-> 0]
ThreadType == [pc : {"ended", "asleep", "lock", "log", "deadNode"},
               left : 0..Never, cancelled : BOOLEAN, now : 0..MaxEpoch]
Asleep(time, now) == [pc |-> "asleep", left |-> time, cancelled |-> FALSE, now |-> now]

Free == [at |-> "free", node |-> CHOOSE x \in Nodes : TRUE, remain |-> 0]
Holding(at, x, remain) == [at |-> at, node |-> x, remain |-> remain]
MutexFree == nodeMutex.at = "free"

Init ==
    /\ state = [x \in Nodes |-> "alive"]
    /\ stateChange = [x \in Nodes |-> 0]
    /\ nodeTimers = [x \in Nodes |-> NoSuspicion]
    /\ thread = [x \in Nodes |-> NoThread]
    /\ nodeMutex = Free
    /\ epoch = 0
    /\ terminated = FALSE

-----------------------------------------------------------------------------
(* remainingSuspicionTime. *)

\* Mutant of TimeoutAfter: the first accusation counts as a confirmation.
TimeoutAfterAccuser(n, k) == Max - (Log[n + 2] * (Max - Min)) \div Log[k + 1]

TimeoutAfter(n, k) == Max - (Log[n + 1] * (Max - Min)) \div Log[k + 1]

\* Mutant of Remaining: the time that has passed is not taken off.
RemainingFromNow(n, k, elapsed) ==
    IF k = 0 THEN {0, Never} ELSE {TimeoutAfter(n, k)}

\* With k = 0 the code divides by log(1) and converts an infinity to int64_t:
\* the difference is either not positive or as large as can be.
Remaining(n, k, elapsed) ==
    IF k = 0 THEN {0, Never} ELSE {TimeoutAfter(n, k) - elapsed}

-----------------------------------------------------------------------------
(* onceTimer: Stop and the thread that Run starts. *)

\* Mutant of Cancel: the flag is cleared but the thread is not cancelled.
CancelNot(x) == thread' = thread

\* pthread_cancel: the request stays pending until the thread gets to a
\* cancellation point.
Cancel(x) == thread' = [thread EXCEPT ![x].cancelled = (@ \/ thread[x].pc # "ended")]

HandlerUnchanged == UNCHANGED <<epoch, terminated>>
ThreadUnchanged == UNCHANGED <<state, stateChange, epoch>>

-----------------------------------------------------------------------------
(* The handlers. *)

\* Mutant of Expected: k is the multiplier itself.
ExpectedMult == {0, K + 2}
\* What k may be: 0 in a cluster that is too small.
Expected == {0, K}

\* suspectNode, of a node that is alive.
SuspectNew(x, from) ==
    /\ ~terminated /\ MutexFree
    /\ ~Exists(x) /\ state[x] = "alive"
    /\ epoch < MaxEpoch
    /\ epoch' = epoch + 1
    /\ state' = [state EXCEPT ![x] = "suspect"]
    /\ stateChange' = [stateChange EXCEPT ![x] = epoch + 1]
    /\ \E k \in Expected :
          /\ nodeTimers' = [nodeTimers EXCEPT ![x] =
                [conf |-> {from}, k |-> k, elapsed |-> 0, running |-> TRUE]]
          /\ thread' = [thread EXCEPT ![x] =
                Asleep(IF k < 1 THEN Min ELSE Max, epoch + 1)]
    /\ UNCHANGED <<nodeMutex, terminated>>

\* suspectNode, of a node whose suspicion takes one more confirmation.  Confirm
\* stops the timer and restarts it for what remains, or calls f() itself, which
\* locks the nodeMutex that suspectNode holds.
Confirm(x, from) ==
    /\ ~terminated /\ MutexFree
    /\ Exists(x)
    /\ Confirmations(x) <= nodeTimers[x].k
    /\ from \notin nodeTimers[x].conf
    /\ nodeTimers' = [nodeTimers EXCEPT ![x].conf = @ \cup {from}, ![x].running = FALSE]
    /\ IF nodeTimers[x].running
       THEN /\ Cancel(x)
            /\ \E r \in Remaining(Confirmations(x) + 1, nodeTimers[x].k, nodeTimers[x].elapsed) :
                  nodeMutex' = IF r > 0 THEN Holding("restart", x, r) ELSE Holding("f", x, 0)
       ELSE UNCHANGED <<thread, nodeMutex>>
    /\ UNCHANGED <<state, stateChange>>
    /\ HandlerUnchanged

\* Mutant of Restarted: the timer is stopped and never started again.
NotRestarted ==
    /\ ~terminated
    /\ nodeMutex.at = "restart"
    /\ thread[nodeMutex.node].pc = "ended"
    /\ nodeMutex' = Free
    /\ UNCHANGED <<state, stateChange, thread, nodeTimers>>
    /\ HandlerUnchanged

\* Restart, once Run has joined the old thread.
Restarted ==
    LET x == nodeMutex.node
    IN  /\ ~terminated
        /\ nodeMutex.at = "restart"
        /\ thread[x].pc = "ended"
        /\ thread' = [thread EXCEPT ![x] = Asleep(nodeMutex.remain, @.now)]
        /\ nodeTimers' = [nodeTimers EXCEPT ![x].running = TRUE]
        /\ nodeMutex' = Free
        /\ UNCHANGED <<state, stateChange>>
        /\ HandlerUnchanged

\* Mutant of Erase: the thread is left to itself, nobody waits for it.
EraseDetached(x, st) ==
    /\ ~terminated /\ MutexFree
    /\ state[x] # st
    /\ state' = [state EXCEPT ![x] = st]
    /\ stateChange' = [stateChange EXCEPT ![x] = 0]
    /\ nodeTimers' = [nodeTimers EXCEPT ![x] = NoSuspicion]
    /\ UNCHANGED <<nodeMutex, thread>>
    /\ HandlerUnchanged

\* aliveNode and deadNode with news: nodeTimers.erase destroys the onceTimer,
\* which stops its thread and joins it, before the state is overwritten.
Erase(x, st) ==
    /\ ~terminated /\ MutexFree
    /\ state[x] # st
    /\ IF Exists(x)
       THEN /\ Cancel(x)
            /\ nodeTimers' = [nodeTimers EXCEPT ![x].running = FALSE]
            /\ nodeMutex' = Holding(st, x, 0)
            /\ UNCHANGED <<state, stateChange>>
       ELSE /\ state' = [state EXCEPT ![x] = st]
            /\ stateChange' = [stateChange EXCEPT ![x] = 0]
            /\ UNCHANGED <<thread, nodeTimers, nodeMutex>>
    /\ HandlerUnchanged

Erased ==
    LET x == nodeMutex.node
    IN  /\ ~terminated
        /\ nodeMutex.at \in {"alive", "dead"}
        /\ thread[x].pc = "ended"
        /\ nodeTimers' = [nodeTimers EXCEPT ![x] = NoSuspicion]
        /\ state' = [state EXCEPT ![x] = nodeMutex.at]
        /\ stateChange' = [stateChange EXCEPT ![x] = 0]
        /\ nodeMutex' = Free
        /\ UNCHANGED thread
        /\ HandlerUnchanged

-----------------------------------------------------------------------------
(* The timer thread. *)

\* sleep_for is over and f asks for nodeMutex.
Wake(x) ==
    /\ ~terminated
    /\ thread[x].pc = "asleep" /\ ~thread[x].cancelled
    /\ thread[x].left = 0
    /\ thread' = [thread EXCEPT ![x].pc = "lock"]
    /\ UNCHANGED <<nodeTimers, nodeMutex, terminated>>
    /\ ThreadUnchanged

\* sleep_for is a cancellation point.
CancelledAsleep(x) ==
    /\ ~terminated
    /\ thread[x].pc = "asleep" /\ thread[x].cancelled
    /\ thread' = [thread EXCEPT ![x].pc = "ended"]
    /\ UNCHANGED <<nodeTimers, nodeMutex, terminated>>
    /\ ThreadUnchanged

\* f: is the suspicion this timer was started for still in force?
CheckTimeout(x) ==
    /\ ~terminated /\ MutexFree
    /\ thread[x].pc = "lock"
    /\ IF state[x] = "suspect" /\ stateChange[x] = thread[x].now
       THEN thread' = [thread EXCEPT ![x].pc = "log"] /\ UNCHANGED nodeTimers
       ELSE /\ thread' = [thread EXCEPT ![x].pc = "ended"]
            /\ nodeTimers' = [nodeTimers EXCEPT ![x].running = FALSE]
    /\ UNCHANGED <<nodeMutex, terminated>>
    /\ ThreadUnchanged

\* f logs between its two critical sections.  A pending cancellation may take
\* effect there, and then it may or may not get out of the destructor of the
\* log message (external: glog).
LogTimeout(x) ==
    /\ ~terminated
    /\ thread[x].pc = "log"
    /\ \/ thread' = [thread EXCEPT ![x].pc = "deadNode"] /\ UNCHANGED terminated
       \/ /\ thread[x].cancelled
          /\ thread' = [thread EXCEPT ![x].pc = "ended"]
          /\ terminated' \in BOOLEAN
    /\ UNCHANGED <<nodeTimers, nodeMutex>>
    /\ ThreadUnchanged

\* deadNode on the timer's own thread erases the suspicion, whose destructor
\* joins the thread it runs on: that throws and terminates the process.
DeclareDead(x) ==
    /\ ~terminated /\ MutexFree
    /\ thread[x].pc = "deadNode"
    /\ thread' = [thread EXCEPT ![x].pc = "ended"]
    /\ terminated' = Exists(x)
    /\ state' = IF Exists(x) THEN state ELSE [state EXCEPT ![x] = "dead"]
    /\ UNCHANGED <<stateChange, epoch, nodeTimers, nodeMutex>>

\* Time passes, for every suspicion and for every thread that sleeps.
Tick ==
    /\ ~terminated
    /\ nodeTimers' = [x \in Nodes |-> IF Exists(x) /\ nodeTimers[x].elapsed < Cap
                          THEN [nodeTimers[x] EXCEPT !.elapsed = @ + 1] ELSE nodeTimers[x]]
    /\ thread' = [x \in Nodes |-> IF thread[x].left \in 1..Max
                          THEN [thread[x] EXCEPT !.left = @ - 1] ELSE thread[x]]
    /\ UNCHANGED <<state, stateChange, nodeMutex, epoch, terminated>>

-----------------------------------------------------------------------------
TimerThread(x) ==
    \/ Wake(x) \/ CancelledAsleep(x) \/ CheckTimeout(x) \/ LogTimeout(x) \/ DeclareDead(x)

Next ==
    \/ \E x \in Nodes :
          \/ \E from \in Peers : SuspectNew(x, from) \/ Confirm(x, from)
          \/ \E st \in {"alive", "dead"} : Erase(x, st)
          \/ TimerThread(x)
    \/ Restarted \/ Erased
    \/ Tick

\* Threads run and time passes.  A handler that holds nodeMutex goes on as soon
\* as what it waits for is there; nothing makes a message arrive.
Fairness ==
    /\ WF_vars(Tick)
    /\ WF_vars(Restarted) /\ WF_vars(Erased)
    /\ \A x \in Nodes : WF_vars(TimerThread(x))

Spec == Init /\ [][Next]_vars /\ Fairness

-----------------------------------------------------------------------------
(* Properties. *)

\* Type invariant of the state above.
TypeOK ==
    /\ state \in [Nodes -> {"alive", "suspect", "dead"}]
    /\ stateChange \in [Nodes -> 0..MaxEpoch]
    /\ nodeTimers \in [Nodes -> SuspicionType]
    /\ thread \in [Nodes -> ThreadType]
    /\ nodeMutex.at \in {"free", "restart", "f", "alive", "dead"}
    /\ nodeMutex.node \in Nodes
    /\ epoch \in 0..MaxEpoch
    /\ terminated \in BOOLEAN

\* The member is blocked for good: a handler waits, with nodeMutex held, for a
\* thread that waits for nodeMutex, or for nodeMutex itself.
Blocked ==
    \/ nodeMutex.at = "f"
    \/ nodeMutex.at # "free" /\ thread[nodeMutex.node].pc \in {"lock", "deadNode"}

\* A timer that has fired belongs to the suspicion in force, until the process
\* ends: since every handler joins the thread before it lets go of nodeMutex, f
\* never finds that its node was refuted, buried or suspected anew meanwhile.
FiredIsCurrent ==
    \A x \in Nodes :
        thread[x].pc \in {"lock", "log", "deadNode"} =>
            /\ Exists(x)
            /\ state[x] = "suspect"
            /\ stateChange[x] = thread[x].now

\* "min is the minimum timer value" (suspicion.h:42): no timer fires, and no
\* handler blocks the member, before a suspicion is Min old.  The one exception
\* is the confirmation after the last expected one, which Confirm takes too and
\* which brings the timeout below Min, or below zero.
NoExpiryBeforeMin ==
    \A x \in Nodes :
        \/ thread[x].pc \in {"lock", "log", "deadNode"}
        \/ Blocked /\ nodeMutex.node = x
        => \/ nodeTimers[x].elapsed >= Min
           \/ Confirmations(x) > nodeTimers[x].k

\* A confirmation only ever brings the end of a suspicion forward: the thread is
\* restarted for less time than the cancelled one had left, however late it was.
\* With k = 0 no confirmation is expected, and one that comes in may put the end
\* off for ever.
ConfirmationShortens ==
    [][\A x \in Nodes :
          MutexFree /\ nodeMutex'.at = "restart" /\ nodeMutex'.node = x
              /\ nodeTimers[x].k > 0
          => nodeMutex'.remain <= thread[x].left]_vars

\* The suspicion of x sleeps for ever.
Overslept(x) == nodeTimers[x].k = 0 /\ Confirmations(x) = 1

\* Every suspicion comes to an end: the node is heard of again, or the timer
\* fires and takes the process with it, or the member is blocked, or a
\* confirmation of a suspicion with k = 0 has put the end off for ever.
SuspicionsEnd ==
    \A x \in Nodes :
        Exists(x) ~> ~Exists(x) \/ terminated \/ Blocked \/ Overslept(x)

\* A refutation in time always gets through: a handler that stops a timer which
\* is still asleep gives nodeMutex back.
StopAsleepReturns ==
    \A x \in Nodes :
        nodeMutex.at \in {"restart", "alive", "dead"} /\ nodeMutex.node = x
            /\ thread[x].pc = "asleep"
        ~> MutexFree \/ terminated
=============================================================================
