------------------------------ MODULE Handoff -------------------------------
(***************************************************************************)
(* How broadcasts that arrive in UDP packets get from packetListen to      *)
(* packetHandler: two stacks under msgQueueMutex and a pipe that carries   *)
(* one wake-up per message.                                                *)
(*                                                                         *)
(* packetListen holds msgQueueMutex for a whole packet and writes to the   *)
(* pipe while it holds it.  packetHandler reads one wake-up, then empties  *)
(* both stacks, taking the mutex for each message.  The pipe is opened     *)
(* with O_DIRECT: every one-byte write is a packet of its own, so a read   *)
(* takes exactly one wake-up and the pipe is full after PipeCapacity       *)
(* writes (16 on Linux), where Write blocks.                               *)
(***************************************************************************)
EXTENDS Naturals, Sequences, SequencesExt

CONSTANTS
    Types,              \* the types of a Broadcast other than "alive"
    HandoffQueueDepth,  \* config->HandoffQueueDepth
    PipeCapacity,       \* packets that an O_DIRECT pipe holds
    MaxBurst,           \* bound: broadcasts in one packet
    MaxReceived         \* bound: broadcasts received in total

ASSUME DepthAssumption == HandoffQueueDepth \in Nat /\ PipeCapacity \in Nat \ {0}
ASSUME BurstAssumption == MaxBurst \in Nat \ {0} /\ MaxReceived \in Nat
ASSUME TypesAssumption == "alive" \notin Types

VARIABLES
    high,      \* highPriorityMsgQueue
    low,       \* lowPriorityMsgQueue
    wakeups,   \* bytes in the pipe handoffFd
    listener,  \* where packetListen is
    batch,     \* the broadcasts of its packet that are still to be queued
    handler,   \* where packetHandler is
    shutdown,  \* shutdownFd[1] has been closed
    received   \* how many broadcasts have been received

vars == <<high, low, wakeups, listener, batch, handler, shutdown, received>>

Broadcasts == Types \cup {"alive"}

\* packetListen owns msgQueueMutex from its first to its last broadcast.
Unlocked == listener \notin {"queue", "write"}

Init ==
    /\ high = <<>> /\ low = <<>>
    /\ wakeups = 0
    /\ listener = "select"
    /\ batch = <<>>
    /\ handler = "select"
    /\ shutdown = FALSE
    /\ received = 0

-----------------------------------------------------------------------------
(* packetListen and handleComBroadcast. *)

\* A packet with the broadcasts b arrives.  One without broadcasts would only
\* take the mutex and release it.
Receive(b) ==
    /\ listener = "select" /\ ~shutdown
    /\ b # <<>>
    /\ received + Len(b) <= MaxReceived
    /\ received' = received + Len(b)
    /\ batch' = b
    /\ listener' = "lock"
    /\ UNCHANGED <<high, low, wakeups, handler, shutdown>>

Lock ==
    /\ listener = "lock"
    /\ listener' = "queue"
    /\ UNCHANGED <<high, low, wakeups, batch, handler, shutdown, received>>

HasRoom(stack) == Len(stack) < HandoffQueueDepth

\* Mutant of Wake: alive messages are queued without a wake-up.
WakeUnlessAlive(t) == IF t = "alive" THEN "queue" ELSE "write"

\* Every message that was queued is followed by a Write to the pipe.
Wake(t) == "write"

QueueHigh ==
    /\ listener = "queue" /\ batch # <<>> /\ Head(batch) = "alive"
    /\ HasRoom(high)
    /\ high' = Append(high, Head(batch))
    /\ batch' = Tail(batch)
    /\ listener' = Wake(Head(batch))
    /\ UNCHANGED <<low, wakeups, handler, shutdown, received>>

\* Mutant of QueueLow: an alive message overflows into the other stack.
QueueLowOverflow ==
    /\ listener = "queue" /\ batch # <<>>
    /\ Head(batch) # "alive" \/ ~HasRoom(high)
    /\ HasRoom(low)
    /\ low' = Append(low, Head(batch))
    /\ batch' = Tail(batch)
    /\ listener' = Wake(Head(batch))
    /\ UNCHANGED <<high, wakeups, handler, shutdown, received>>

QueueLow ==
    /\ listener = "queue" /\ batch # <<>> /\ Head(batch) # "alive"
    /\ HasRoom(low)
    /\ low' = Append(low, Head(batch))
    /\ batch' = Tail(batch)
    /\ listener' = Wake(Head(batch))
    /\ UNCHANGED <<high, wakeups, handler, shutdown, received>>

\* The stack is full: the broadcast is dropped with a warning.
DropFull ==
    /\ listener = "queue" /\ batch # <<>>
    /\ ~HasRoom(IF Head(batch) = "alive" THEN high ELSE low)
    /\ batch' = Tail(batch)
    /\ UNCHANGED <<high, low, wakeups, listener, handler, shutdown, received>>

\* Write(handoffFd[1], "", 1) blocks while the pipe is full.
WriteWakeup ==
    /\ listener = "write"
    /\ wakeups < PipeCapacity
    /\ wakeups' = wakeups + 1
    /\ listener' = "queue"
    /\ UNCHANGED <<high, low, batch, handler, shutdown, received>>

\* The lock_guard goes out of scope.
Unlock ==
    /\ listener = "queue" /\ batch = <<>>
    /\ listener' = "select"
    /\ UNCHANGED <<high, low, wakeups, batch, handler, shutdown, received>>

\* Mutant of ListenerExit: waits for the handler to empty the pipe.
ListenerExitDrained ==
    /\ listener = "select" /\ shutdown
    /\ wakeups = 0
    /\ listener' = "exited"
    /\ UNCHANGED <<high, low, wakeups, batch, handler, shutdown, received>>

\* Select found shutdownFd readable, which is tested first.
ListenerExit ==
    /\ listener = "select" /\ shutdown
    /\ listener' = "exited"
    /\ UNCHANGED <<high, low, wakeups, batch, handler, shutdown, received>>

-----------------------------------------------------------------------------
(* packetHandler and getNextMessage. *)

ReadWakeup ==
    /\ handler = "select" /\ ~shutdown
    /\ wakeups > 0
    /\ wakeups' = wakeups - 1
    /\ handler' = "next"
    /\ UNCHANGED <<high, low, listener, batch, shutdown, received>>

\* getNextMessage, which returns the newest message of the first nonempty stack.
NextMessage ==
    /\ handler = "next"
    /\ Unlocked
    /\ \/ /\ high # <<>>
          /\ high' = Front(high)
          /\ UNCHANGED low
       \/ /\ high = <<>> /\ low # <<>>
          /\ low' = Front(low)
          /\ UNCHANGED high
    /\ handler' = "handle"
    /\ UNCHANGED <<wakeups, listener, batch, shutdown, received>>

\* handleAlive, handleDead or handleSuspect returns.
Handled ==
    /\ handler = "handle"
    /\ handler' = "next"
    /\ UNCHANGED <<high, low, wakeups, listener, batch, shutdown, received>>

\* Mutant of NoMessage: only the first stack is looked at.
NoMessageHighOnly ==
    /\ handler = "next"
    /\ Unlocked
    /\ high = <<>>
    /\ handler' = "select"
    /\ UNCHANGED <<high, low, wakeups, listener, batch, shutdown, received>>

NoMessage ==
    /\ handler = "next"
    /\ Unlocked
    /\ high = <<>> /\ low = <<>>
    /\ handler' = "select"
    /\ UNCHANGED <<high, low, wakeups, listener, batch, shutdown, received>>

HandlerExit ==
    /\ handler = "select" /\ shutdown
    /\ handler' = "exited"
    /\ UNCHANGED <<high, low, wakeups, listener, batch, shutdown, received>>

\* ShutDown closes shutdownFd[1].
ShutDown ==
    /\ ~shutdown
    /\ shutdown' = TRUE
    /\ UNCHANGED <<high, low, wakeups, listener, batch, handler, received>>

-----------------------------------------------------------------------------
ListenerStep ==
    Lock \/ QueueHigh \/ QueueLow \/ DropFull \/ WriteWakeup \/ Unlock \/ ListenerExit

HandlerStep == ReadWakeup \/ NextMessage \/ Handled \/ NoMessage \/ HandlerExit

Next ==
    \/ \E b \in BoundedSeq(Broadcasts, MaxBurst) : Receive(b)
    \/ ListenerStep
    \/ HandlerStep
    \/ ShutDown

\* Both threads are scheduled; nothing is assumed of arrivals and of ShutDown.
\* That a handler returns (Handled) leaves aside that aliveNode, suspectNode and
\* deadNode may wait for ever for nodeMutex or for a suspicion timer: those
\* deadlocks are Suspicion!Blocked and Lifecycle!HandlerJoinsTimer.
Spec == Init /\ [][Next]_vars /\ WF_vars(ListenerStep) /\ WF_vars(HandlerStep)

-----------------------------------------------------------------------------
(* Properties. *)

\* Type invariant of the state above.
TypeOK ==
    /\ high \in Seq({"alive"})
    /\ low \in Seq(Types)
    /\ wakeups \in 0..PipeCapacity
    /\ listener \in {"select", "lock", "queue", "write", "exited"}
    /\ batch \in Seq(Broadcasts)
    /\ handler \in {"select", "next", "handle", "exited"}
    /\ shutdown \in BOOLEAN
    /\ received \in Nat

\* A wake-up is outstanding for every queued message, but for the one whose
\* wake-up the handler has read or the listener is about to write: however the
\* two interleave, no message is left in a stack that nobody will look at.
\* Neither stack outgrows its depth.
WakeupPerMessage ==
    /\ handler # "exited" =>
           Len(high) + Len(low) <= wakeups + (IF listener = "write" THEN 1 ELSE 0)
                                           + (IF handler = "select" THEN 0 ELSE 1)
    /\ Len(high) <= HandoffQueueDepth /\ Len(low) <= HandoffQueueDepth

\* What has been queued is handled, unless the member shuts down first, provided
\* that the handlers return and the pipe has room for every wake-up.
EverythingHandled == []<>(shutdown \/ high \o low = <<>>)

\* After ShutDown both threads return, so that the destructor can join them,
\* provided that the handlers return and the pipe has room for every wake-up.
ThreadsExit == shutdown ~> (listener = "exited" /\ handler = "exited")

\* "The size of this determines the size of the queue which Memberlist will keep
\* while UDP messages are handled" (config.h:131): packetListen is never stuck
\* behind a full pipe with room in the queue for more and the handler waiting
\* for the mutex it holds.
QueueTakesItsDepth ==
    ~(/\ listener = "write" /\ wakeups = PipeCapacity
      /\ handler = "next"
      /\ Len(high) + Len(low) < HandoffQueueDepth)
=============================================================================
