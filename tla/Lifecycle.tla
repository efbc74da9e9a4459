------------------------------ MODULE Lifecycle ------------------------------
(***************************************************************************)
(* One memberlist object from its constructor to its destructor: the calls *)
(* of the application, the periodic timers, the listener threads, and what *)
(* ShutDown and the destructor have to wait for.                           *)
(*                                                                         *)
(* The application calls Join, Leave, UpdateNode, ShutDown and at last the *)
(* destructor, one after the other, from one thread.  Two threads hold     *)
(* nodeMutex across steps: ShutDown, which joins the timer threads with    *)
(* the lock held, and a handler that joins the timer of a suspicion, which *)
(* may last for ever.  Every other critical section of nodeMutex is one    *)
(* step, and a call that cannot enter one stays where it is.               *)
(*                                                                         *)
(* The wrappers of mynet/wrapped.cpp throw on every error (TRACE is        *)
(* defined), and a thread that does not catch ends the process.            *)
(***************************************************************************)
EXTENDS Naturals, Sequences

CONSTANTS
    Tickers,   \* the timers schedule() starts, those with an interval > 0
    JoinTries  \* how often Join tries (10)

Listeners == {"streamListen", "packetListen", "packetHandler"}
AllTickers == <<"probe", "pushPull", "gossip">>

ASSUME TickersAssumption == Tickers \subseteq {AllTickers[n] : n \in 1..3}
ASSUME TriesAssumption == JoinTries \in Nat \ {0}

VARIABLES
    main,      \* the call in progress on the application's thread
    shutdown,  \* the atomic flag memberlist::shutdown
    leave,     \* the atomic flag memberlist::leave
    eof,       \* shutdownFd[1] is closed: select reports shutdownFd[0]
    tcpOpen,   \* tcpFd is open
    cleared,   \* clearmemberlist has closed handoffFd and reset udpFd
    holder,    \* who holds nodeMutex from one step to the next, or "none"
    ticker,    \* the thread of every periodic timer
    listener,  \* where every listener thread is
    queued,    \* the leave message waits in the broadcast queue
    notified,  \* leaveFd has been written to
    peers,     \* anyAlive(): some other member is alive or suspect
    ended      \* how the process ended, or "no"

vars == <<main, shutdown, leave, eof, tcpOpen, cleared, holder, ticker, listener,
          queued, notified, peers, ended>>

-----------------------------------------------------------------------------
(* Data. *)

\* op is what the application called, pc where that call is.  limit says how a
\* call that waits for its broadcast may end without it, n counts the attempts
\* of Join and the timers deschedule has dealt with.
Idle == [op |-> "none", pc |-> "idle", limit |-> "none", n |-> 0]
Call(op, pc) == [op |-> op, pc |-> pc, limit |-> "none", n |-> 0]
Waiting(op, limit) == [op |-> op, pc |-> "wait", limit |-> limit, n |-> 0]

\* The process is up and the object exists.
Up == ended = "no" /\ main.pc # "freed"
Ready == Up /\ main.pc = "idle"

Init ==
    /\ main = Idle
    /\ shutdown = FALSE /\ leave = FALSE /\ eof = FALSE
    /\ tcpOpen = TRUE /\ cleared = FALSE /\ holder = "none"
    /\ ticker = [t \in Tickers |-> [pc |-> "asleep", cancelled |-> FALSE]]
    /\ listener = [l \in Listeners |-> "select"]
    /\ queued = FALSE /\ notified = FALSE
    /\ peers \in BOOLEAN
    /\ ended = "no"

Flags == <<shutdown, leave>>
Files == <<eof, tcpOpen, cleared>>
Threads == <<ticker, listener>>
Queue == <<queued, notified>>

\* packetListen waits in Write for room in the hand-off pipe, with msgQueueMutex.
FullPipe == listener["packetListen"] = "blocked"

\* A step of the application's thread that touches neither flags nor files.
Same == UNCHANGED <<shutdown, leave, eof, tcpOpen, cleared, ticker, listener,
                    queued, notified, peers>>

\* The call has done its part: what the application's call goes on with.
After(step) ==
    CASE main.op = "destructor" -> Call("destructor", step)
      [] main.op = "Join" -> Call("Join", "fatal")
      [] OTHER -> Idle

-----------------------------------------------------------------------------
(* Leave and UpdateNode. *)

\* How a select with a limit of the caller may end: tv_sec is not initialised,
\* so that the limit may be the one asked for, far off, or negative.
Limits(timed) == IF timed THEN {"time", "never", "negative"} ELSE {"never"}

\* Select with a negative limit throws.
EnterSelect(op, timed) ==
    \E limit \in Limits(timed) :
        /\ main' = Waiting(op, limit)
        /\ ended' = IF limit = "negative" THEN "select" ELSE ended

\* deadNode may drop the leave message (see Membership!LeaveTakesEffect).
LeaveBody(op, timed) ==
    /\ holder = "none"
    /\ leave' = TRUE
    /\ queued' \in BOOLEAN
    /\ IF peers THEN EnterSelect(op, timed)
       ELSE main' = (IF op = "destructor" THEN Call(op, "ShutDown") ELSE Idle) /\ UNCHANGED ended
    /\ UNCHANGED <<shutdown, notified, holder, peers>>
    /\ UNCHANGED Files /\ UNCHANGED Threads

Leave(timed) ==
    /\ Ready /\ ~leave /\ ~shutdown
    /\ LeaveBody("Leave", timed)

\* LOG(FATAL): "Leave after Shutdown".
LeaveAfterShutDown ==
    /\ Ready /\ shutdown
    /\ ended' = "fatal"
    /\ UNCHANGED <<main, holder>>
    /\ Same

\* aliveNode refutes and does not hand on the pipe it is given.
UpdateNode(timed) ==
    /\ Ready /\ peers /\ holder = "none"
    /\ EnterSelect("UpdateNode", timed)
    /\ UNCHANGED holder
    /\ Same

\* The call reads its pipe, or its time is up.
WaitOver ==
    /\ Up /\ main.pc = "wait"
    /\ \/ main.op # "UpdateNode" /\ notified
       \/ main.limit = "time"
    /\ main' = After("ShutDown")
    /\ UNCHANGED <<holder, ended>>
    /\ Same

-----------------------------------------------------------------------------
(* Join. *)

Join ==
    /\ Ready
    /\ main' = Call("Join", "try")
    /\ UNCHANGED <<holder, ended>>
    /\ Same

\* Mutant of LastTry: one attempt more.
LastTryLate == main.n = JoinTries
LastTry == main.n + 1 = JoinTries

\* pushPullNode returns, having merged the answer under nodeMutex, or throws; the
\* last exception ends the process.
JoinTry ==
    /\ Up /\ main.op = "Join" /\ main.pc = "try"
    /\ \/ holder = "none" /\ main' = Idle
       \/ main' = IF LastTry THEN Call("Join", "ShutDown") ELSE [main EXCEPT !.n = @ + 1]
    /\ UNCHANGED <<holder, ended>>
    /\ Same

JoinFatal ==
    /\ Up /\ main.op = "Join" /\ main.pc = "fatal"
    /\ ended' = "fatal"
    /\ UNCHANGED <<main, holder>>
    /\ Same

-----------------------------------------------------------------------------
(* ShutDown and deschedule. *)

ShutDown ==
    /\ Ready
    /\ main' = Call("ShutDown", "ShutDown")
    /\ UNCHANGED <<holder, ended>>
    /\ Same

\* Mutant of ShutDownLock: a second call is not told from the first.
ShutDownAgain ==
    /\ Up /\ main.pc = "ShutDown" /\ holder = "none"
    /\ main' = [main EXCEPT !.pc = "closeTcp"] /\ holder' = "ShutDown"
    /\ UNCHANGED ended
    /\ Same

\* Take nodeMutex; a second call returns at once.
ShutDownLock ==
    /\ Up /\ main.pc = "ShutDown" /\ holder = "none"
    /\ IF shutdown THEN main' = After("clear") /\ UNCHANGED holder
       ELSE main' = [main EXCEPT !.pc = "closeTcp"] /\ holder' = "ShutDown"
    /\ UNCHANGED ended
    /\ Same

\* Close(tcpFd); closing it twice would throw.
CloseTcp ==
    /\ Up /\ main.pc = "closeTcp"
    /\ tcpOpen' = FALSE
    /\ ended' = IF tcpOpen THEN ended ELSE "close"
    /\ main' = [main EXCEPT !.pc = "signal"]
    /\ UNCHANGED <<eof, cleared, holder, peers>>
    /\ UNCHANGED Flags /\ UNCHANGED Threads /\ UNCHANGED Queue

\* Mutant of Signal: the flag is set but the pipe stays open.
SignalFlagOnly ==
    /\ Up /\ main.pc = "signal"
    /\ shutdown' = TRUE
    /\ main' = [main EXCEPT !.pc = "stop", !.n = 1]
    /\ UNCHANGED <<leave, tcpOpen, eof, cleared, holder, peers, ended>>
    /\ UNCHANGED Threads /\ UNCHANGED Queue

Signal ==
    /\ Up /\ main.pc = "signal"
    /\ shutdown' = TRUE
    /\ eof' = TRUE
    /\ main' = [main EXCEPT !.pc = "stop", !.n = 1]
    /\ UNCHANGED <<leave, tcpOpen, cleared, holder, peers, ended>>
    /\ UNCHANGED Threads /\ UNCHANGED Queue

\* Mutant of Cancelled: running is cleared but the thread not cancelled.
CancelledNot(t) == ticker
\* repeatTimer::Stop.
Cancelled(t) == [ticker EXCEPT ![t].cancelled = TRUE]

\* schedule_timer[n].reset(): ~repeatTimer cancels the thread ...
StopTicker ==
    LET t == AllTickers[main.n]
    IN  /\ Up /\ main.pc = "stop" /\ main.n <= 3
        /\ IF t \in Tickers
           THEN /\ main' = [main EXCEPT !.pc = "join"]
                /\ ticker' = Cancelled(t)
           ELSE main' = [main EXCEPT !.n = @ + 1] /\ UNCHANGED ticker
        /\ UNCHANGED <<listener, holder, peers, ended>>
        /\ UNCHANGED Flags /\ UNCHANGED Files /\ UNCHANGED Queue

\* ... and joins it.
JoinTicker ==
    /\ Up /\ main.pc = "join"
    /\ ticker[AllTickers[main.n]].pc = "exited"
    /\ main' = [main EXCEPT !.pc = "stop", !.n = @ + 1]
    /\ UNCHANGED <<holder, ended>>
    /\ Same

ShutDownReturn ==
    /\ Up /\ main.pc = "stop" /\ main.n > 3
    /\ holder' = "none"
    /\ main' = After("clear")
    /\ UNCHANGED ended
    /\ Same

-----------------------------------------------------------------------------
(* The destructor. *)

\* Mutant of Destructor: without ShutDown.
DestructorWithoutShutDown ==
    /\ Ready
    /\ main' = Call("destructor", "clear")
    /\ UNCHANGED <<holder, ended>>
    /\ Same

\* ~memberlist calls Leave(1000000) and ShutDown unless that has been done.
Destructor ==
    /\ Ready
    /\ IF ~shutdown /\ ~leave THEN LeaveBody("destructor", TRUE)
       ELSE /\ main' = Call("destructor", IF shutdown THEN "clear" ELSE "ShutDown")
            /\ UNCHANGED <<holder, ended>>
            /\ Same

\* clearmemberlist, under msgQueueMutex and then nodeMutex; its nodeTimers.clear()
\* is the subject of Suspicion.
Clear ==
    /\ Up /\ main.pc = "clear"
    /\ ~FullPipe /\ holder = "none"
    /\ cleared' = TRUE
    /\ main' = [main EXCEPT !.pc = "joinListeners"]
    /\ UNCHANGED <<eof, tcpOpen, holder, peers, ended>>
    /\ UNCHANGED Flags /\ UNCHANGED Threads /\ UNCHANGED Queue

\* Mutant of ListenersJoined: nobody waits for them.
ListenersNotJoined == TRUE
ListenersJoined == \A l \in Listeners : listener[l] = "exited"

\* t1, t2 and t3 have been joined and the object is gone.
Freed ==
    /\ Up /\ main.pc = "joinListeners"
    /\ ListenersJoined
    /\ main' = [main EXCEPT !.pc = "freed"]
    /\ UNCHANGED <<holder, ended>>
    /\ Same

-----------------------------------------------------------------------------
(* The threads of the periodic timers. *)

TickerSame == UNCHANGED <<main, shutdown, leave, eof, tcpOpen, cleared, holder, listener, peers>>
Goto(t, pc) == ticker' = [ticker EXCEPT ![t].pc = pc]

\* sleep_for is over, or was cancelled.
TickerSleep(t) ==
    /\ ended = "no" /\ ticker[t].pc = "asleep"
    /\ Goto(t, IF ticker[t].cancelled THEN "exited" ELSE "log")
    /\ UNCHANGED <<queued, notified, ended>>
    /\ TickerSame

\* Every task begins with a log message (DEBUG is defined).  A pending
\* cancellation may take effect there and may then end the process (external:
\* glog); else the task goes on and asks for nodeMutex.
TickerLog(t) ==
    /\ ended = "no" /\ ticker[t].pc = "log"
    /\ \/ Goto(t, "lock") /\ UNCHANGED ended
       \/ ticker[t].cancelled /\ Goto(t, "exited") /\ ended' \in {"no", "cancel"}
    /\ UNCHANGED <<queued, notified>>
    /\ TickerSame

TickerLock(t) ==
    /\ ended = "no" /\ ticker[t].pc = "lock" /\ holder = "none"
    /\ Goto(t, "work")
    /\ UNCHANGED <<queued, notified, ended>>
    /\ TickerSame

\* Mutant of Finished: what is taken from the queue is not reported.
FinishedNot(t) == notified
\* gossip takes what is queued and writes to the pipe that goes with it.
Finished(t) == notified \/ (t = "gossip" /\ queued /\ peers)

\* The task sends and waits (all cancellation points), asks for nodeMutex again
\* (probe, pushPull) or is done.
TickerWork(t) ==
    /\ ended = "no" /\ ticker[t].pc = "work"
    /\ \/ ticker[t].cancelled /\ Goto(t, "exited") /\ UNCHANGED notified
       \/ t # "gossip" /\ Goto(t, "lock") /\ UNCHANGED notified
       \/ Goto(t, "asleep") /\ notified' = Finished(t)
    /\ UNCHANGED <<queued, ended>>
    /\ TickerSame

Ticker(t) == TickerSleep(t) \/ TickerLog(t) \/ TickerLock(t) \/ TickerWork(t)

-----------------------------------------------------------------------------
(* The listener threads. *)

ListenerSame == UNCHANGED <<main, shutdown, leave, eof, tcpOpen, cleared, holder,
                            ticker, queued, notified, peers>>

\* Who goes on when l returns from select: l itself, and packetListen when
\* packetHandler takes a wake-up out of the full pipe.
Released(l) ==
    {l} \cup (IF l = "packetHandler" /\ FullPipe THEN {"packetListen"} ELSE {})

\* select reports a connection, a packet or a hand-off; shutdownFd comes first.
ListenerEvent(l) ==
    /\ ended = "no" /\ listener[l] = "select" /\ ~eof
    /\ listener' = [m \in Listeners |-> IF m \in Released(l) THEN "busy" ELSE listener[m]]
    /\ UNCHANGED ended
    /\ ListenerSame

ListenerExit(l) ==
    /\ ended = "no" /\ listener[l] = "select" /\ eof
    /\ listener' = [listener EXCEPT ![l] = "exited"]
    /\ UNCHANGED ended
    /\ ListenerSame

\* packetListen finds the hand-off pipe full and waits in Write, with
\* msgQueueMutex, for packetHandler to read (see Handoff!QueueTakesItsDepth).
PacketListenBlocks ==
    /\ ended = "no" /\ listener["packetListen"] = "busy" /\ ~cleared
    /\ listener' = [listener EXCEPT !["packetListen"] = "blocked"]
    /\ UNCHANGED ended
    /\ ListenerSame

\* The descriptor a listener is about to use or to select on is gone.
Gone(l) == IF l = "streamListen" THEN ~tcpOpen ELSE cleared

\* Back to select.  On a closed descriptor accept, write or select throws, unless
\* the number has been given out again.  The handlers of packetHandler need
\* nodeMutex, and getNextMessage needs msgQueueMutex.
ListenerDone(l) ==
    /\ ended = "no" /\ listener[l] = "busy"
    /\ l = "packetHandler" => holder = "none" /\ ~FullPipe
    /\ listener' = [listener EXCEPT ![l] = "select"]
    /\ ended' \in IF Gone(l) THEN {"no", l} ELSE {"no"}
    /\ ListenerSame

Listener(l) == ListenerEvent(l) \/ ListenerExit(l) \/ ListenerDone(l)

\* A handler of packetHandler, of a connection or of a periodic task joins, with
\* nodeMutex, the timer thread of a suspicion that waits for nodeMutex.  Neither
\* goes on (see Suspicion!Blocked).
HandlerJoinsTimer ==
    /\ Up /\ holder = "none"
    /\ holder' = "suspicion"
    /\ UNCHANGED <<main, ended>>
    /\ Same

\* Other members come and go.
PeersChange ==
    /\ ended = "no"
    /\ peers' = ~peers
    /\ UNCHANGED <<main, holder, ended, queued, notified>>
    /\ UNCHANGED Flags /\ UNCHANGED Files /\ UNCHANGED Threads

-----------------------------------------------------------------------------
\* What the application's thread does inside a call.
Main ==
    \/ WaitOver \/ JoinFatal
    \/ ShutDownLock \/ CloseTcp \/ Signal \/ StopTicker \/ JoinTicker \/ ShutDownReturn
    \/ Clear \/ Freed

Next ==
    \/ \E timed \in BOOLEAN : Leave(timed) \/ UpdateNode(timed)
    \/ LeaveAfterShutDown \/ Join \/ JoinTry \/ ShutDown \/ Destructor
    \/ Main
    \/ \E t \in Tickers : Ticker(t)
    \/ \E l \in Listeners : Listener(l)
    \/ PacketListenBlocks \/ HandlerJoinsTimer
    \/ PeersChange

\* Threads run.  The application need not call anything, nothing need arrive, and
\* an attempt of Join need not come to an end: ConnectTimeout does not initialise
\* tv_sec.
Fairness ==
    /\ WF_vars(Main)
    /\ \A t \in Tickers : WF_vars(Ticker(t))
    /\ \A l \in Listeners : WF_vars(ListenerExit(l)) /\ WF_vars(ListenerDone(l))

Spec == Init /\ [][Next]_vars /\ Fairness

-----------------------------------------------------------------------------
(* Properties. *)

\* Type invariant of the state above.
TypeOK ==
    /\ main.op \in {"none", "Leave", "UpdateNode", "Join", "ShutDown", "destructor"}
    /\ main.pc \in {"idle", "wait", "try", "fatal", "ShutDown", "closeTcp", "signal", "stop",
                    "join", "clear", "joinListeners", "freed"}
    /\ main.limit \in {"none", "time", "never", "negative"} /\ main.n \in 0..(JoinTries + 3)
    /\ main.pc = "try" => main.n < JoinTries
    /\ {shutdown, leave, eof, tcpOpen, cleared, queued, notified, peers} \subseteq BOOLEAN
    /\ holder \in {"none", "ShutDown", "suspicion"}
    /\ ticker \in [Tickers -> [pc : {"asleep", "log", "lock", "work", "exited"}, cancelled : BOOLEAN]]
    /\ listener \in [Listeners -> {"select", "busy", "blocked", "exited"}]
    /\ ended \in {"no", "fatal", "select", "close", "cancel"} \cup Listeners

\* When the destructor returns, no listener and no periodic timer of the object
\* is left that could still use it.
QuietWhenFreed ==
    main.pc = "freed" =>
        /\ \A l \in Listeners : listener[l] = "exited"
        /\ \A t \in Tickers : ticker[t].pc = "exited"

\* "This method is safe to call multiple times" (memberlist.cpp:275): neither a
\* second ShutDown, nor one by Join or the destructor, closes tcpFd again.
ClosedOnce == ended # "close"

\* A descriptor is taken away from packetListen and packetHandler only when they
\* have been told to stop; they can still die of it, but only then.
ToldToStopFirst == cleared => eof

\* A timer thread that the cancellation came too late for: it waits for the
\* nodeMutex of the ShutDown that waits for it.
LateTicker ==
    holder = "ShutDown" /\ \E t \in Tickers : ticker[t].pc = "lock" /\ ticker[t].cancelled

\* ShutDown, once it has nodeMutex, gives it back, wherever the timers are when it
\* comes, unless one of them is already waiting for nodeMutex when it is cancelled.
ShutDownReturns ==
    holder = "ShutDown" ~> holder = "none" \/ ended # "no" \/ LateTicker

\* What may keep a listener from ever looking at shutdownFd again: packetListen
\* waits in Write for a packetHandler that no longer reads, and packetHandler for
\* the msgQueueMutex of that packetListen or for a nodeMutex that stays taken.
\* Nothing can keep streamListen.
Kept(l) ==
    \/ l = "packetListen" /\ FullPipe
    \/ l = "packetHandler" /\ (FullPipe \/ LateTicker \/ holder = "suspicion")

\* After ShutDown every listener thread comes to its end, whatever it was busy
\* with, so that the destructor can join it, but for the deadlocks of Kept.
ListenersStop ==
    \A l \in Listeners :
        shutdown ~> listener[l] = "exited" \/ ended # "no" \/ Kept(l)

\* Leave, with or without a limit, returns if its message got into the queue,
\* gossip runs, can take nodeMutex and has peers to gossip to.
LeaveReturns ==
    "gossip" \in Tickers =>
        (main.op \in {"Leave", "destructor"} /\ main.pc = "wait" /\ queued
            ~> main.pc # "wait" \/ ended # "no" \/ ~peers \/ holder = "suspicion")
=============================================================================
