--------------------------- MODULE LifecycleProofs ---------------------------
(***************************************************************************)
(* Proofs about Lifecycle, for every choice of periodic timers and every   *)
(* number of attempts of Join.                                             *)
(***************************************************************************)
EXTENDS Lifecycle, TLAPS

Ops == {"none", "Leave", "UpdateNode", "Join", "ShutDown", "destructor"}
Points == {"idle", "wait", "try", "fatal", "ShutDown", "closeTcp", "signal", "stop",
           "join", "clear", "joinListeners", "freed"}
Calls == [op : Ops, pc : Points, limit : {"none", "time", "never", "negative"},
          n : 0..(JoinTries + 3)]
TickerThread == [pc : {"asleep", "log", "lock", "work", "exited"}, cancelled : BOOLEAN]
ListenerPoints == {"select", "busy", "blocked", "exited"}
Holders == {"none", "ShutDown", "suspicion"}
Ends == {"no", "fatal", "select", "close", "cancel"} \cup Listeners

\* The part of the type invariant that is about the application's thread.
MainTyped ==
    /\ main \in Calls
    /\ main.pc = "try" => main.n < JoinTries

\* The rest of the type invariant.
OthersTyped ==
    /\ shutdown \in BOOLEAN /\ leave \in BOOLEAN /\ eof \in BOOLEAN
    /\ tcpOpen \in BOOLEAN /\ cleared \in BOOLEAN /\ holder \in Holders
    /\ queued \in BOOLEAN /\ notified \in BOOLEAN /\ peers \in BOOLEAN
    /\ ticker \in [Tickers -> TickerThread]
    /\ listener \in [Listeners -> ListenerPoints]
    /\ ended \in Ends

\* While ShutDown is in progress it counts the timers it has dealt with.
CountsTimers ==
    /\ main.pc = "stop" => main.n \in 1..4
    /\ main.pc = "join" => main.n \in 1..3 /\ AllTickers[main.n] \in Tickers

\* The flag is set exactly when the listeners have been told to stop; before
\* that ShutDown has not gone further than tcpFd, after that it does not come
\* back to it.
ShutDownOrder ==
    /\ shutdown <=> eof
    /\ main.pc \in {"closeTcp", "signal"} => ~shutdown
    /\ main.pc \in {"stop", "join", "clear", "joinListeners", "freed"} => shutdown
    /\ ~tcpOpen => shutdown \/ main.pc = "signal"
    /\ cleared => shutdown

\* The timers that ShutDown has joined have ended: all of them once it is done.
TimersJoined ==
    shutdown =>
        \A n \in 1..3 :
            AllTickers[n] \in Tickers /\ (main.pc \in {"stop", "join"} => n < main.n)
                => ticker[AllTickers[n]].pc = "exited"

LInv ==
    /\ MainTyped /\ OthersTyped /\ CountsTimers /\ ShutDownOrder /\ TimersJoined
    /\ ClosedOnce /\ QuietWhenFreed

-----------------------------------------------------------------------------
\* What the application's thread does next is always a well-formed call.
LEMMA CallTyped ==
    ASSUME NEW op \in Ops, NEW pc \in Points
    PROVE  Call(op, pc) \in Calls /\ Call(op, pc).pc = pc /\ Call(op, pc).op = op
           /\ Call(op, pc).n = 0
  BY TriesAssumption DEF Call, Calls

\* A thread with no call is typed.
LEMMA IdleTyped == Idle \in Calls /\ Idle.pc = "idle"
  BY TriesAssumption DEF Idle, Calls, Ops, Points

\* deschedule goes on with timer k.
LEMMA ToStop ==
    ASSUME NEW c \in Calls, NEW k \in 0..(JoinTries + 3)
    PROVE  LET d == [c EXCEPT !.pc = "stop", !.n = k]
           IN  d \in Calls /\ d.pc = "stop" /\ d.n = k
  <1> DEFINE b == [c EXCEPT !.pc = "stop"]
             d == [b EXCEPT !.n = k]
  <1>1. b \in Calls /\ b.pc = "stop"
    BY DEF Calls, Points
  <1> HIDE DEF b
  <1>2. d \in Calls /\ d.pc = "stop" /\ d.n = k
    BY <1>1 DEF Calls
  <1>3. [c EXCEPT !.pc = "stop", !.n = k] = d
    BY DEF b
  <1> QED
    BY <1>2, <1>3

\* LInv speaks of the main thread, the flags and files, the timers and the end.
LEMMA LInvSame ==
    ASSUME LInv, OthersTyped',
           UNCHANGED <<main, shutdown, eof, tcpOpen, cleared>>, ended' # "close",
           \A t \in Tickers : ticker[t].pc = "exited" => ticker'[t].pc = "exited",
           \A l \in Listeners : listener[l] = "exited" => listener'[l] = "exited"
    PROVE  LInv'
  <1>1. MainTyped' /\ CountsTimers' /\ ShutDownOrder' /\ ClosedOnce'
    BY DEF LInv, MainTyped, CountsTimers, ShutDownOrder, ClosedOnce
  <1>2. TimersJoined'
    BY DEF LInv, TimersJoined
  <1>3. QuietWhenFreed'
    BY DEF LInv, QuietWhenFreed
  <1> QED
    BY <1>1, <1>2, <1>3 DEF LInv

\* A step of the main thread that leaves flags, files and threads alone, outside
\* ShutDown; the destructor goes on only when ShutDown has been done.
LEMMA LInvMain ==
    ASSUME LInv, MainTyped', Same, holder' \in Holders,
           ended' \in Ends, ended' # "close",
           main.pc \notin {"signal", "stop", "join", "freed"},
           main'.pc \notin {"closeTcp", "signal", "stop", "join", "joinListeners", "freed"},
           main'.pc = "clear" => shutdown
    PROVE  LInv'
  <1>1. OthersTyped'
    BY DEF LInv, OthersTyped, Same
  <1>2. CountsTimers' /\ ShutDownOrder' /\ ClosedOnce' /\ QuietWhenFreed'
    BY DEF LInv, CountsTimers, ShutDownOrder, ClosedOnce, QuietWhenFreed, Same
  <1>3. TimersJoined'
    BY DEF LInv, TimersJoined, Same
  <1> QED
    BY <1>1, <1>2, <1>3 DEF LInv

\* Where a call goes on when Leave or ShutDown returns to it.
LEMMA AfterTyped ==
    ASSUME main \in Calls, NEW step \in {"ShutDown", "clear"}
    PROVE  /\ After(step) \in Calls
           /\ After(step).pc \in {step, "fatal", "idle"}
  <1>1. CASE main.op = "destructor"
    BY <1>1, CallTyped DEF After, Ops, Points
  <1>2. CASE main.op = "Join"
    BY <1>2, CallTyped DEF After, Ops, Points
  <1>3. CASE main.op \notin {"destructor", "Join"}
    BY <1>3, IdleTyped DEF After
  <1> QED
    BY <1>1, <1>2, <1>3

\* The listener and timer threads are known by name.
LEMMA TickerNumber ==
    ASSUME NEW t \in Tickers
    PROVE  \E n \in 1..3 : t = AllTickers[n]
  BY TickersAssumption

\* The type invariant in the form TLC checks.
LEMMA LInvTyped == LInv => TypeOK
  BY DEF LInv, MainTyped, OthersTyped, TypeOK, Calls, Ops, Points, TickerThread, Ends,
         ListenerPoints, Holders

\* The invariant holds before the constructor runs.
LEMMA LInvInit == Init => LInv
  <1> SUFFICES ASSUME Init PROVE LInv
    OBVIOUS
  <1>1. MainTyped /\ main.pc = "idle"
    BY IdleTyped DEF Init, MainTyped
  <1>2. OthersTyped
    BY DEF Init, OthersTyped, TickerThread, Ends, ListenerPoints, Holders
  <1>3. CountsTimers /\ ShutDownOrder /\ TimersJoined /\ ClosedOnce /\ QuietWhenFreed
    BY <1>1 DEF Init, CountsTimers, ShutDownOrder, TimersJoined, ClosedOnce, QuietWhenFreed
  <1> QED
    BY <1>1, <1>2, <1>3 DEF LInv

\* Entering select, with whatever limit.
LEMMA EnterSelectTyped ==
    ASSUME NEW op \in Ops, NEW timed \in BOOLEAN, EnterSelect(op, timed),
           ended \in Ends, ended # "close"
    PROVE  MainTyped' /\ main'.pc = "wait" /\ ended' \in Ends /\ ended' # "close"
  <1>1. PICK limit \in {"time", "never", "negative"} :
            /\ main' = Waiting(op, limit)
            /\ ended' = IF limit = "negative" THEN "select" ELSE ended
    BY DEF EnterSelect, Limits
  <1> QED
    BY <1>1, TriesAssumption DEF Waiting, Calls, MainTyped, Points, Ends

\* Leave, called by the application or by the destructor.
LEMMA LeaveBodyKeeps ==
    ASSUME LInv, Ready, NEW op \in {"Leave", "destructor"}, NEW timed \in BOOLEAN,
           LeaveBody(op, timed)
    PROVE  LInv'
  <1> USE DEF LInv
  <1>1. MainTyped' /\ main'.pc \in {"wait", "ShutDown", "idle"} /\ ended' \in Ends
        /\ ended' # "close"
    <2>1. CASE peers
      BY <2>1, EnterSelectTyped DEF LeaveBody, Ops, OthersTyped, ClosedOnce
    <2>2. CASE ~peers
      BY <2>2, CallTyped, IdleTyped
         DEF LeaveBody, Ops, Points, OthersTyped, ClosedOnce, MainTyped
    <2> QED
      BY <2>1, <2>2
  <1>2. OthersTyped'
    BY <1>1 DEF OthersTyped, LeaveBody, Files, Threads
  <1>3. CountsTimers' /\ ShutDownOrder' /\ ClosedOnce' /\ QuietWhenFreed'
    BY <1>1 DEF CountsTimers, ShutDownOrder, ClosedOnce, QuietWhenFreed, LeaveBody,
                Files, Threads, Ready
  <1>4. TimersJoined'
    BY DEF TimersJoined, LeaveBody, Threads, Ready
  <1> QED
    BY <1>1, <1>2, <1>3, <1>4

-----------------------------------------------------------------------------
\* The calls of the application and the steps inside them that are not part of
\* ShutDown.
LEMMA CallsKeep ==
    ASSUME LInv,
           \/ \E timed \in BOOLEAN : Leave(timed) \/ UpdateNode(timed)
           \/ LeaveAfterShutDown \/ Join \/ ShutDown \/ Destructor
           \/ WaitOver \/ JoinTry \/ JoinFatal
    PROVE  LInv'
  <1> USE DEF LInv
  <1>0. MainTyped /\ OthersTyped /\ ended # "close"
    BY DEF ClosedOnce
  <1>1. ASSUME NEW timed \in BOOLEAN, Leave(timed) PROVE LInv'
    BY <1>1, LeaveBodyKeeps DEF Leave
  <1>2. ASSUME NEW timed \in BOOLEAN, UpdateNode(timed) PROVE LInv'
    BY <1>0, <1>2, EnterSelectTyped, LInvMain DEF UpdateNode, Ops, OthersTyped, Ready
  <1>3. CASE LeaveAfterShutDown
    BY <1>0, <1>3, LInvMain DEF LeaveAfterShutDown, OthersTyped, Ready, MainTyped, Ends
  <1>4. CASE Join
    <2>1. MainTyped' /\ main'.pc = "try"
      BY <1>4, CallTyped, TriesAssumption DEF Join, Ops, Points, MainTyped
    <2> QED
      BY <1>0, <1>4, <2>1, LInvMain DEF Join, OthersTyped, Ready
  <1>5. CASE ShutDown
    <2>1. MainTyped' /\ main'.pc = "ShutDown"
      BY <1>5, CallTyped DEF ShutDown, Ops, Points, MainTyped
    <2> QED
      BY <1>0, <1>5, <2>1, LInvMain DEF ShutDown, OthersTyped, Ready
  <1>6. CASE Destructor
    <2>1. CASE ~shutdown /\ ~leave
      BY <1>6, <2>1, LeaveBodyKeeps DEF Destructor
    <2>2. CASE ~(~shutdown /\ ~leave)
      <3>1. PICK pc \in {"clear", "ShutDown"} :
                main' = Call("destructor", pc) /\ (pc = "clear" => shutdown)
        BY <1>6, <2>2 DEF Destructor
      <3>2. MainTyped' /\ main'.pc = pc
        BY <3>1, CallTyped DEF Ops, Points, MainTyped
      <3> QED
        BY <1>0, <1>6, <2>2, <3>1, <3>2, LInvMain DEF Destructor, OthersTyped, Ready
    <2> QED
      BY <2>1, <2>2
  <1>7. CASE WaitOver
    <2>1. MainTyped' /\ main'.pc \in {"ShutDown", "fatal", "idle"}
      BY <1>0, <1>7, AfterTyped DEF WaitOver, MainTyped
    <2> QED
      BY <1>0, <1>7, <2>1, LInvMain DEF WaitOver, OthersTyped
  <1>8. CASE JoinTry
    <2>1. MainTyped' /\ main'.pc \in {"ShutDown", "try", "idle"}
      <3>1. CASE main' = Idle
        BY <3>1, IdleTyped DEF MainTyped
      <3>2. CASE main' = IF LastTry THEN Call("Join", "ShutDown") ELSE [main EXCEPT !.n = @ + 1]
        <4>1. CASE LastTry
          BY <3>2, <4>1, CallTyped DEF MainTyped, Ops, Points
        <4>2. CASE ~LastTry
          BY <1>0, <1>8, <3>2, <4>2, TriesAssumption DEF MainTyped, Calls, LastTry, JoinTry
        <4> QED
          BY <4>1, <4>2
      <3> QED
        BY <1>8, <3>1, <3>2 DEF JoinTry
    <2> QED
      BY <1>0, <1>8, <2>1, LInvMain DEF JoinTry, OthersTyped
  <1>9. CASE JoinFatal
    BY <1>0, <1>9, LInvMain DEF JoinFatal, OthersTyped, MainTyped, Ends
  <1> QED
    BY <1>1, <1>2, <1>3, <1>4, <1>5, <1>6, <1>7, <1>8, <1>9

-----------------------------------------------------------------------------
\* ShutDown, deschedule and the rest of the destructor.
LEMMA ShutDownKeeps ==
    ASSUME LInv,
           \/ ShutDownLock \/ CloseTcp \/ Signal \/ StopTicker \/ JoinTicker
           \/ ShutDownReturn \/ Clear \/ Freed
    PROVE  LInv'
  <1> USE DEF LInv
  <1>0. MainTyped /\ OthersTyped /\ ended # "close" /\ main \in Calls
    BY DEF ClosedOnce, MainTyped
  <1>1. CASE ShutDownLock
    <2>1. CASE shutdown
      <3>1. MainTyped' /\ main'.pc \in {"clear", "fatal", "idle"}
        BY <1>0, <1>1, <2>1, AfterTyped DEF ShutDownLock, MainTyped
      <3> QED
        BY <1>0, <1>1, <2>1, <3>1, LInvMain DEF ShutDownLock, OthersTyped
    <2>2. CASE ~shutdown
      <3>1. MainTyped' /\ main'.pc = "closeTcp"
        BY <1>0, <1>1, <2>2 DEF ShutDownLock, MainTyped, Calls, Points
      <3> QED
        BY <1>0, <1>1, <2>2, <3>1
           DEF ShutDownLock, Same, OthersTyped, CountsTimers, ShutDownOrder, TimersJoined,
               ClosedOnce, QuietWhenFreed, Holders
    <2> QED
      BY <2>1, <2>2
  <1>2. CASE CloseTcp
    <2>1. MainTyped' /\ main'.pc = "signal"
      BY <1>0, <1>2 DEF CloseTcp, MainTyped, Calls, Points
    <2>2. ~shutdown /\ tcpOpen
      BY <1>2 DEF CloseTcp, ShutDownOrder
    <2> QED
      BY <1>0, <1>2, <2>1, <2>2
         DEF CloseTcp, Flags, Threads, Queue, OthersTyped, CountsTimers, ShutDownOrder,
             TimersJoined, ClosedOnce, QuietWhenFreed
  <1>3. CASE Signal
    <2>1. MainTyped' /\ main'.pc = "stop" /\ main'.n = 1
      <3>1. 1 \in 0..(JoinTries + 3)
        BY TriesAssumption
      <3>2. main' = [main EXCEPT !.pc = "stop", !.n = 1]
        BY <1>3 DEF Signal
      <3>3. main' \in Calls /\ main'.pc = "stop" /\ main'.n = 1
        BY <1>0, <3>1, <3>2, ToStop
      <3> QED
        BY <3>3 DEF MainTyped
    <2>2. OthersTyped' /\ CountsTimers' /\ ShutDownOrder' /\ ClosedOnce' /\ QuietWhenFreed'
      BY <1>0, <1>3, <2>1
         DEF Signal, Threads, Queue, OthersTyped, CountsTimers, ShutDownOrder, ClosedOnce,
             QuietWhenFreed
    <2>3. TimersJoined'
      BY <2>1 DEF TimersJoined
    <2> QED
      BY <2>1, <2>2, <2>3
  <1>4. CASE StopTicker
    <2>0. main.n \in 1..3 /\ main.pc = "stop"
      BY <1>4 DEF StopTicker, CountsTimers
    <2>1. CASE AllTickers[main.n] \in Tickers
      <3>1. main' = [main EXCEPT !.pc = "join"] /\ ticker' = Cancelled(AllTickers[main.n])
        BY <1>4, <2>1 DEF StopTicker
      <3>2. MainTyped' /\ main'.pc = "join" /\ main'.n = main.n
        BY <1>0, <3>1 DEF MainTyped, Calls, Points
      <3>3. /\ ticker' \in [Tickers -> TickerThread]
            /\ \A t \in Tickers : ticker'[t].pc = ticker[t].pc
        BY <1>0, <3>1 DEF Cancelled, OthersTyped, TickerThread
      <3>4. OthersTyped' /\ CountsTimers' /\ ShutDownOrder' /\ ClosedOnce' /\ QuietWhenFreed'
        BY <1>0, <1>4, <2>0, <2>1, <3>2, <3>3
           DEF StopTicker, Flags, Files, Queue, OthersTyped, CountsTimers, ShutDownOrder,
               ClosedOnce, QuietWhenFreed
      <3>5. TimersJoined'
        BY <1>4, <2>0, <3>2, <3>3 DEF TimersJoined, StopTicker, Flags, ShutDownOrder
      <3> QED
        BY <3>2, <3>4, <3>5
    <2>2. CASE AllTickers[main.n] \notin Tickers
      <3>1. main' = [main EXCEPT !.n = main.n + 1] /\ ticker' = ticker
        BY <1>4, <2>2 DEF StopTicker
      <3>2. MainTyped' /\ main'.pc = "stop" /\ main'.n = main.n + 1
        BY <1>0, <2>0, <3>1, TriesAssumption DEF MainTyped, Calls, Points
      <3>4. OthersTyped' /\ CountsTimers' /\ ShutDownOrder' /\ ClosedOnce' /\ QuietWhenFreed'
        BY <1>0, <1>4, <2>0, <3>1, <3>2
           DEF StopTicker, Flags, Files, Queue, OthersTyped, CountsTimers, ShutDownOrder,
               ClosedOnce, QuietWhenFreed
      <3>5. TimersJoined'
        <4> SUFFICES ASSUME NEW n \in 1..3, AllTickers[n] \in Tickers, n < main.n + 1
                     PROVE  ticker[AllTickers[n]].pc = "exited"
          BY <3>1, <3>2 DEF TimersJoined
        <4>1. n # main.n /\ n < main.n
          BY <2>0, <2>2
        <4> QED
          BY <2>0, <4>1 DEF TimersJoined, ShutDownOrder
      <3> QED
        BY <3>2, <3>4, <3>5
    <2> QED
      BY <2>1, <2>2
  <1>5. CASE JoinTicker
    <2>0. main.n \in 1..3 /\ main.pc = "join" /\ shutdown
      BY <1>5 DEF JoinTicker, CountsTimers, ShutDownOrder
    <2>1. MainTyped' /\ main'.pc = "stop" /\ main'.n = main.n + 1
      <3>1. main.n + 1 \in 0..(JoinTries + 3)
        BY <2>0, TriesAssumption
      <3>2. main' = [main EXCEPT !.pc = "stop", !.n = main.n + 1]
        BY <1>0, <1>5 DEF JoinTicker, Calls
      <3>3. main' \in Calls /\ main'.pc = "stop" /\ main'.n = main.n + 1
        BY <1>0, <3>1, <3>2, ToStop
      <3> QED
        BY <3>3 DEF MainTyped
    <2>2. OthersTyped' /\ CountsTimers' /\ ShutDownOrder' /\ ClosedOnce' /\ QuietWhenFreed'
      BY <1>0, <1>5, <2>0, <2>1
         DEF JoinTicker, Same, OthersTyped, CountsTimers, ShutDownOrder, ClosedOnce, QuietWhenFreed
    <2>3. TimersJoined'
      <3> SUFFICES ASSUME NEW n \in 1..3, AllTickers[n] \in Tickers, n < main.n + 1
                   PROVE  ticker[AllTickers[n]].pc = "exited"
        BY <1>5, <2>1 DEF TimersJoined, JoinTicker, Same
      <3>1. CASE n = main.n
        BY <1>5, <3>1 DEF JoinTicker
      <3>2. CASE n < main.n
        BY <2>0, <3>2 DEF TimersJoined
      <3> QED
        BY <2>0, <3>1, <3>2
    <2> QED
      BY <2>1, <2>2, <2>3
  <1>6. CASE ShutDownReturn
    <2>0. main.n = 4 /\ main.pc = "stop" /\ shutdown
      BY <1>6 DEF ShutDownReturn, CountsTimers, ShutDownOrder
    <2>1. MainTyped' /\ main'.pc \in {"clear", "fatal", "idle"}
      BY <1>0, <1>6, AfterTyped DEF ShutDownReturn, MainTyped
    <2>2. OthersTyped' /\ CountsTimers' /\ ShutDownOrder' /\ ClosedOnce' /\ QuietWhenFreed'
      BY <1>0, <1>6, <2>0, <2>1
         DEF ShutDownReturn, Same, OthersTyped, CountsTimers, ShutDownOrder, ClosedOnce,
             QuietWhenFreed, Holders
    <2>3. TimersJoined'
      BY <1>6, <2>0 DEF TimersJoined, ShutDownReturn, Same
    <2> QED
      BY <2>1, <2>2, <2>3
  <1>7. CASE Clear
    <2>1. MainTyped' /\ main'.pc = "joinListeners"
      BY <1>0, <1>7 DEF Clear, MainTyped, Calls, Points
    <2>2. OthersTyped' /\ CountsTimers' /\ ShutDownOrder' /\ ClosedOnce' /\ QuietWhenFreed'
      BY <1>0, <1>7, <2>1
         DEF Clear, Flags, Threads, Queue, OthersTyped, CountsTimers, ShutDownOrder, ClosedOnce,
             QuietWhenFreed
    <2>3. TimersJoined'
      BY <1>7, <2>1 DEF TimersJoined, Clear, Flags, Threads
    <2> QED
      BY <2>1, <2>2, <2>3
  <1>8. CASE Freed
    <2>1. MainTyped' /\ main'.pc = "freed"
      BY <1>0, <1>8 DEF Freed, MainTyped, Calls, Points
    <2>2. OthersTyped' /\ CountsTimers' /\ ShutDownOrder' /\ ClosedOnce'
      BY <1>0, <1>8, <2>1 DEF Freed, Same, OthersTyped, CountsTimers, ShutDownOrder, ClosedOnce
    <2>3. TimersJoined'
      BY <1>8, <2>1 DEF TimersJoined, Freed, Same
    <2>4. \A t \in Tickers : ticker[t].pc = "exited"
      BY <1>8, TickerNumber DEF TimersJoined, Freed, ShutDownOrder
    <2>5. QuietWhenFreed'
      BY <1>8, <2>4 DEF QuietWhenFreed, Freed, Same, ListenersJoined
    <2> QED
      BY <2>1, <2>2, <2>3, <2>5
  <1> QED
    BY <1>1, <1>2, <1>3, <1>4, <1>5, <1>6, <1>7, <1>8

-----------------------------------------------------------------------------
\* The other threads: a timer thread or a listener that has ended stays so.
LEMMA ThreadsKeep ==
    ASSUME LInv,
           \/ \E t \in Tickers : Ticker(t)
           \/ \E l \in Listeners : Listener(l)
           \/ PacketListenBlocks \/ HandlerJoinsTimer \/ PeersChange
           \/ UNCHANGED vars
    PROVE  LInv'
  <1> USE DEF LInv
  <1>0. OthersTyped /\ ended # "close"
    BY DEF ClosedOnce
  <1>1. ASSUME NEW t \in Tickers, Ticker(t) PROVE LInv'
    <2>1. PICK pc \in {"asleep", "log", "lock", "work", "exited"} :
              ticker[t].pc # "exited" /\ Goto(t, pc)
      BY <1>1 DEF Ticker, TickerSleep, TickerLog, TickerLock, TickerWork
    <2>2. /\ ticker' \in [Tickers -> TickerThread]
          /\ \A u \in Tickers : ticker[u].pc = "exited" => ticker'[u].pc = "exited"
      BY <1>0, <2>1 DEF OthersTyped, TickerThread, Goto
    <2>3. /\ TickerSame /\ queued' = queued /\ notified' \in BOOLEAN
          /\ ended' \in {ended, "cancel"}
      BY <1>0, <1>1 DEF Ticker, TickerSleep, TickerLog, TickerLock, TickerWork, Finished,
                        OthersTyped
    <2> QED
      BY <1>0, <2>2, <2>3, LInvSame DEF OthersTyped, TickerSame, Ends
  <1>2. ASSUME NEW l \in Listeners, Listener(l) PROVE LInv'
    <2>1. /\ listener' \in [Listeners -> ListenerPoints]
          /\ \A m \in Listeners : listener[m] = "exited" => listener'[m] = "exited"
      <3>1. CASE ListenerEvent(l)
        BY <1>0, <3>1 DEF ListenerEvent, Released, FullPipe, OthersTyped, ListenerPoints
      <3>2. CASE ListenerExit(l)
        BY <1>0, <3>2 DEF ListenerExit, OthersTyped, ListenerPoints
      <3>3. CASE ListenerDone(l)
        BY <1>0, <3>3 DEF ListenerDone, OthersTyped, ListenerPoints
      <3> QED
        BY <1>2, <3>1, <3>2, <3>3 DEF Listener
    <2>3. ListenerSame /\ ended' \in {ended, "no", l}
      BY <1>2 DEF Listener, ListenerEvent, ListenerExit, ListenerDone
    <2>4. ended' \in Ends /\ ended' # "close"
      BY <1>0, <2>3 DEF OthersTyped, Ends, Listeners
    <2> QED
      BY <1>0, <2>1, <2>3, <2>4, LInvSame DEF OthersTyped, ListenerSame
  <1>3. CASE PeersChange
    BY <1>0, <1>3, LInvSame DEF PeersChange, Flags, Files, Threads, OthersTyped
  <1>4. CASE UNCHANGED vars
    BY <1>0, <1>4, LInvSame DEF vars, OthersTyped
  <1>5. CASE PacketListenBlocks
    <2>1. /\ listener' \in [Listeners -> ListenerPoints]
          /\ \A m \in Listeners : listener[m] = "exited" => listener'[m] = "exited"
      BY <1>0, <1>5 DEF PacketListenBlocks, OthersTyped, ListenerPoints
    <2> QED
      BY <1>0, <1>5, <2>1, LInvSame DEF PacketListenBlocks, OthersTyped, ListenerSame
  <1>6. CASE HandlerJoinsTimer
    BY <1>0, <1>6, LInvSame DEF HandlerJoinsTimer, Same, OthersTyped, Holders
  <1> QED
    BY <1>1, <1>2, <1>3, <1>4, <1>5, <1>6

\* Every step of the caller, of the timers and of the listeners preserves it.
LEMMA LInvInductive == LInv /\ [Next]_vars => LInv'
  BY CallsKeep, ShutDownKeeps, ThreadsKeep DEF Next, Main

\* The invariant holds in every reachable state.
LEMMA LInvAlways == Spec => []LInv
  BY LInvInit, LInvInductive, PTL DEF Spec

-----------------------------------------------------------------------------
\* Every variable of the object keeps its type, and Join never tries more often
\* than it says, whatever the other threads do meanwhile.
THEOREM LifecycleTypeCorrect == Spec => []TypeOK
  BY LInvAlways, LInvTyped, PTL

\* "This method is safe to call multiple times": no run of the program closes
\* tcpFd twice, be it by ShutDown, Join or the destructor.
THEOREM ShutDownIsSafeToRepeat == Spec => []ClosedOnce
  <1>1. LInv => ClosedOnce
    BY DEF LInv
  <1> QED
    BY <1>1, LInvAlways, PTL

\* clearmemberlist takes the descriptors away from packetListen and packetHandler
\* only when shutdownFd has told them to stop.
THEOREM DescriptorsOutliveTheSignal == Spec => []ToldToStopFirst
  <1>1. LInv => ToldToStopFirst
    BY DEF LInv, ShutDownOrder, ToldToStopFirst
  <1> QED
    BY <1>1, LInvAlways, PTL

\* When the destructor is done, every listener thread and every thread of a
\* periodic timer has ended.
THEOREM NoThreadOutlivesTheObject == Spec => []QuietWhenFreed
  <1>1. LInv => QuietWhenFreed
    BY DEF LInv
  <1> QED
    BY <1>1, LInvAlways, PTL
=============================================================================
