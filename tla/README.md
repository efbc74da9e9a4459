# A verification project for cpp-gossip

cpp-gossip is a C++ port of the SWIM-style membership library memberlist.
This directory models its protocol and its concurrency in TLA+, checks the models with TLC
on small instances and proves the safety properties among them with TLAPS for every instance that
meets the stated assumptions.
`PROJECT.json` maps every definition to the source lines it stands for.

## 1. The system

| Part | State | Operations | Talks to |
|---|---|---|---|
| membership state machine (`memberlist/state.cpp`) | `nodeMap`, `nodes`, `nodeTimers` under `nodeMutex`; `numNodes` | `aliveNode`, `suspectNode`, `deadNode`, `refute` | called by every other part; queues broadcasts |
| lifecycle (`memberlist/memberlist.cpp`) | atomics `incarnation`, `seqnum`, `leave`, `shutdown` | constructor, `setAlive`, `Join`, `Leave`, `UpdateNode`, `ShutDown` | starts and stops all threads |
| failure detector (`state.cpp`: `probe`, `probeNode`; `handlemsg.cpp`: ping, ack, nack) | `probeIndex`, the ack handlers and their pipes | one probe per interval: UDP ping, indirect pings, TCP fallback | calls `suspectNode` |
| suspicion timers (`misc/suspicion.cpp`) | confirmations, `k`, deadline, one thread each | `Confirm`, expiry | calls `deadNode` on its own thread |
| push/pull and Join (`state.cpp`, `handlemsg.cpp`) | none of its own | `pushPull`, `sendLocalState`, `mergeRemoteState` | calls the three handlers entry by entry |
| broadcast queue (`misc/broadcastQueue.cpp`) | `tq`, `tm`, `idGen` under `m` | `queueBroadcast`, `GetBroadcasts` | filled by the handlers, emptied by gossip; writes the pipe `Leave` waits on |
| gossip (`state.cpp: gossip`) | none | one round per interval | `GetBroadcasts`, UDP |
| packet path (`memberlist/handlemsg.cpp`) | two stacks under `msgQueueMutex`, the pipe `handoffFd` | `packetListen`, `packetHandler` | UDP socket on one side, the handlers on the other |
| stream listener | none | one detached thread per TCP connection | push/pull, user messages, TCP pings |
| helpers | none | socket wrappers, encoding, configuration | everybody |

### What is hard about it

* **Knowledge is delivered in any order.** Broadcasts are lost, duplicated, delayed, replayed
  by other members and merged from push/pull. The incarnation number is what keeps a member
  from believing something old, and a restarted process counts from 1 again.
* **Six threads and more.** Two listeners, the packet handler, the probe, gossip and push/pull
  timers, one thread per suspicion, and the application's own thread. Most of the state is
  under `nodeMutex`, but `incarnation` and `leave` are not, `Leave` reads its incarnation
  without the lock, and `probe` works on a copy.
* **The listeners start before the member is alive in its own map.**
* **Queues with limits**: packets of bounded size filled from a queue ordered by transmissions,
  a retransmit limit that depends on a cluster size that changes meanwhile, two bounded stacks,
  and a pipe that is much smaller than either.
* **Threads that join each other while holding a lock others wait for.**

`PROJECT.json` lists these as hazards, each at the line where it bites.

## 2. Modules

| Module | Models |
|---|---|
| `Membership` | any number of members, each with its map, suspicions, counter, main thread and probe; the network between them |
| `MCMembership` | the functions its runs use for `MaxInc` and `MaxStarts` |
| `MembershipProofs` | proofs about `Membership` |
| `MembershipSafety` | further proofs about `Membership`, built on the first |
| `Beliefs` | what the protocol promises, as an abstract specification: who may change a belief, and how |
| `MembershipRefinement` | the proof that `Membership` implements `Beliefs` |
| `Suspicion` | the timer threads of one member's suspicions, their deadlines and `nodeMutex` |
| `MCSuspicion` | the table of logarithms its run uses |
| `SuspicionProofs` | proofs about `Suspicion` |
| `Lifecycle` | one object from constructor to destructor: the application's calls, the periodic timers, the listeners |
| `LifecycleProofs` | proofs about `Lifecycle` |
| `Probe` | the failure detector of one member: probe, acks, timers, TCP fallback, relayed pings, and the descriptors they share |
| `ProbeProofs` | proofs about `Probe` |
| `BroadcastQueue`, `MCBroadcastQueue` | the transmit-limited queue and the gossip thread |
| `BroadcastQueueProofs` | proofs about `BroadcastQueue` |
| `Handoff` | `packetListen`, `packetHandler` and what is between them |
| `HandoffProofs` | proofs about `Handoff` |

### Membership

`nodeMap[i][j]` is the `nodeState` that `i` has for `j`: incarnation, state, address.
`nodeTimers[i][j]` is the suspicion of `j` (who confirmed it, and `k`). `aliveNode`,
`suspectNode` and `deadNode` hold `nodeMutex` throughout, so each is one step;
`HandleAlive`, `HandleSuspect` and `HandleDead` apply them to a message of another member,
and only the cases in which a handler changes something are steps. `mergeRemoteState` takes the lock for
every entry anew, so an entry of a push/pull is handled like a message: `SendLocalState`
puts into `sent[i]` what the receiver will make of each entry (`StateMsg`); a suspicion
made of a push/pull entry names the member that merges it, for which `Receiver` stands in.

What is not under the lock is a step of its own. `nextIncarnation` is a `fetch_add` (`NextIncAdd`)
and a `load` (`NextIncLoad`); `Leave` sets its flag and reads its incarnation (`LeaveBegin`) before
it calls `deadNode` (`Leave`); `ProbeStart` copies an entry that `ProbeFail` uses later.
`refute` loads the counter and then adds to it; the main thread's `fetch_add` may fall between the
two, and `Loaded` is the set of values that load may have returned (it admits the raced value for
as long as the call that did the `fetch_add` is pending, which is a little more than the code can do;
main's own `refute` in `UpdateNode` cannot race with itself and reads the counter).

`sent[k]` holds every broadcast `k` ever queued, and any other member may handle any of them at
any time and any number of times. This covers loss (never handled), duplication and reordering,
and it covers relaying: what a member re-broadcasts goes into its own set.

`SuspicionTimeout` ends the process: the timer's thread calls `deadNode`, which erases the
suspicion, whose destructor joins the thread it runs on (`state.cpp:505` carries a "Fixme").
For the same reason no dead message exists but the ones `Leave` produces, which is why
`LeftIsAnnounced` can say that of all of them.

`Membership` defines `ImplementsBeliefs == Abs!Spec`, where `Abs` is `Beliefs` with `nodeMap` for
`belief`; `issued` and `announced` are history variables that both have. `Beliefs` has no messages,
timers, probes or threads. In it a member numbers its own incarnations and says of itself what it
likes at a number that does not fall; about another member it may only move to a higher number, from
alive to suspect to left, or to a new address after the other has left; a crash forgets everything.
That a member may store itself as dead is the first finding below, and is part of the abstraction.

### Suspicion

The timers that `Membership` has as plain entries of a map are threads. `thread[x]` is the thread of
the suspicion of `x`: asleep for `left` ticks, waiting for `nodeMutex` in the callback `f`
(`CheckTimeout`), logging between its two critical sections, or about to call `deadNode`. A handler
that does not block is one step. One that stops a timer joins the thread with `nodeMutex` held:
`nodeMutex.at` says what it will do once the thread has ended (`Restarted`, `Erased`). `Cancel` is
`pthread_cancel`, which ends a thread that sleeps, may end one that logs, and does not reach one that
waits for a mutex. `Remaining` is `remainingSuspicionTime`, with the logarithms taken from a table `Log` of
integers (`LogAssumption`: it starts at 0 and increases; the run has hundredths). `K` is any natural number
(the shipped configurations have 2 and 4). With
`k = 0` the division by `log(1)` gives an infinity, and the conversion to `int64_t` makes the
remaining time either not positive or endless.

What the model says of the code, and the properties therefore except by name:

* A timer that fires always ends the process (`DeclareDead`), because `FiredIsCurrent` holds: the
  entry it erases is its own.
* A handler that stops a timer which has already woken up blocks the member for good (`Blocked`).
* `Confirm` takes one confirmation more than `k`; the timeout then drops below the minimum, and if
  that makes the remaining time negative, `f()` locks the `nodeMutex` its caller holds.
* With `k = 0` a confirmation either does the same or puts the end off for ever (`Overslept`).

### Lifecycle

`main` is the application's thread and the call it is in. `holder` says who holds `nodeMutex` across
steps: `ShutDown`, or a handler that has run into the deadlock of `Suspicion!Blocked`
(`HandlerJoinsTimer`) and never gives it back. `ShutDown` cancels and joins the periodic timers one after the other
(`StopTicker`, `JoinTicker`). A timer thread is asleep, logs, waits for `nodeMutex`, or works.
A listener is in `select`, busy, or has exited; `packetListen` may also be blocked in the `Write` to
the full hand-off pipe, with `msgQueueMutex` held (`PacketListenBlocks`, finding 5). `ended` says how the process ended: `LOG(FATAL)`,
or an exception of a wrapper in a thread that does not catch it. The uninitialised `tv_sec` of the
waits is a choice between the time asked for, an endless one, and a negative one (`Limits`).

The model reproduces the deadlock of `ShutDown` with a timer thread that waits for `nodeMutex` when it
is cancelled (`LateTicker`), the two deadlocks of the packet threads (`Kept` names what keeps each listener
from ending), and the death of a listener whose descriptor is closed under it. The properties except
these by name, and a process that has ended; they say that `ShutDown`, `Leave` and the listeners come to
their end in every other case. How the deadlocks come about is the subject of `Handoff` and `Suspicion`:
here they may happen whenever the threads involved are in a position for it. `UpdateNode` without a limit does not return while peers
exist, since `aliveNode` does not hand on the pipe it waits on.

### Probe

The probe thread, `packetListen`, the timer thread of each ack handler, the detached TCP threads and
the detached threads that send nacks. They share pipes by descriptor number, and a number that was
closed is given out again: `owner[f]` says whose write end has number `f` now, and a thread that uses
`f` states which pipe it takes it for (`WriteTo`, `CloseAll`). `misused` records that it was wrong,
`causes` the races that lead there. Sequence numbers are drawn in two steps, so that two threads can
draw the same one (`Collision`). The accesses to `ackHandlers` without `ackLock` are a data race and may
end the process (`UnlockedAccess`); so may an exception in a detached thread.

`MisuseHasCause` enumerates why a descriptor can get into wrong hands: a handler left behind by a probe
that was answered over TCP, a handler or a TCP thread that outlives its probe, and an ack that meets
the nack of its relay. Each of them does happen in the model. A collision of sequence numbers by itself
does not misuse a descriptor, but can leave a probe without its timer, which `ProbeEnds` therefore
excepts, with the other known cases: without `AllowTcpPing` nobody writes to `fallbackfd`; with it the TCP
thread may wait without a limit, since `tv_sec` is not initialised in `ConnectTimeout` nor for `SO_RCVTIMEO`
(`TcpLimits`); and the probe needs `nodeMutex` to choose whom to ask for indirect pings, which a deadlock
elsewhere may keep (`KeepNodeMutex`). A probe that ends in `suspectNode` has closed its pipes before it asks
for that mutex, so it counts as ended and no other probe starts. Nothing reads the nack pipe: how much is in it is
not counted, but the write of a nack need never return.

### BroadcastQueue

`tq` is a set of records ordered by `Before`, `tm` the names the map has. `QueueBroadcast` is
atomic under `m`; the nested loops of `GetBroadcasts` are unrolled (`GetBegin`, `Pick`,
`NextTier`, `GetEnd`) while `m` is held, with `numNodes` free to grow. `Send` is outside the lock.
The overhead is taken off the limit once per packet (`Free`), as the code does; the comments speak of one
per message, which is finding 4.
`haveMsg` is not initialised, so `GetEnd` may go either way on an empty packet.

### Handoff

The two stacks, the number of bytes in the pipe, and a program counter per thread.
`packetListen` holds `msgQueueMutex` from its first broadcast to its last, blocking `Write`s
included. The pipe is opened with `O_DIRECT`, so each byte is a packet and occupies a slot.

## 3. Runs

| Run | Question | Instance |
|---|---|---|
| `restart` | do incarnation numbers come from their owners only, and do the counter and the own entry stay in step, when a member restarts and calls `UpdateNode` while it is suspected? do the handlers implement `Beliefs`, although a name that left or died may return under another address while old broadcasts are around? does a member ever go back to older knowledge? is every belief gossiped? | two members, two addresses; `m1` starts twice, has 3 incarnations, updates itself, leaves and pushes its state |
| `trio` | do suspicion and timer stay in step when third parties confirm suspicions, push/pull passes them on, and alive or dead messages end them? | three members, two incarnations for `m1`, which may refute and leave, `m2` probes and `m3` pushes its state, `SuspicionMult` 3 |
| `queue` | is only the latest broadcast pending, do packets fit and fill up, are the transmissions neither too few nor too many, does the queue drain? | two names, three sizes, cluster growing from 9 to 10 |
| `handoff` | is a wake-up ever lost, is everything handled, do both threads exit? | depth 2, bursts of up to 3, 6 messages |
| `suspicion` | does a timer that fires belong to the suspicion in force? does it fire too early, do confirmations only bring it forward, does every suspicion end? | one node suspected up to three times, six accusers, `k` 0 or 4 as in `DefaultWANConfig`, timeouts 2 to 12 ticks |
| `lifecycle` | is everything quiet when the destructor returns, is anything closed twice or too early, do `ShutDown`, `Leave` and the listeners come back? | two periodic timers, three listeners, two attempts of `Join` |
| `probe` | does every probe end and every indirect ping get an answer? are pipes and handlers given back, and why do descriptors get into wrong hands? | two sequence numbers, two relays, five pipes, with and without `AllowTcpPing` |
| `alive_once_started` | **violated**: is a member alive in its own map once `setAlive` has run? | two members, a restart |
| `leave_takes_effect` | **violated**: has a member left in its own map once `Leave`'s `deadNode` has returned? | two members |
| `notified_once_sent` | **violated**: is `Leave` notified only of a message that was sent? | as `queue` |
| `overhead_per_message` | **violated**: does a packet stay within the limit with an overhead for each broadcast? | as `queue` |
| `handoff_depth` | **violated**: can the queue take as many messages as its depth? | depth 8, a pipe of 2 |

The five violated properties quote the comment they formalise; the `findings` of `PROJECT.json`
describe each counterexample.

1. *A restarted member may stay dead in its own map.* Alive messages of its former run arrive
   between `nextIncarnation` and `setAlive`'s `aliveNode`; the handler creates its own entry as
   `StateDead` and refutes, which raises the incarnation only, and `setAlive` finds itself outbid.
2. *A leave message may be dropped by the member itself.* `Leave` reads its incarnation, a refutation
   raises it, `deadNode` ignores the old number.
3. *`Leave` is notified before anything was sent*, because `deleteItem` calls `Finished()`.
4. *The overhead counts once per packet*, not per message, because `GetBroadcasts` subtracts it from the
   limit and not from the room of each message.
5. *A full pipe blocks both packet threads for good* while the stacks have room.

### Bounds, and why they are enough

`MaxInc` and `MaxStarts` bound numbers the code does not bound. The comparisons of the handlers
distinguish a number that is lower, equal or higher than the stored one; with two runs of a member
and three numbers all orders of a stored, a received and a counter value occur, and the theorems
below hold for every bound. In `restart` nobody probes, to keep it small: suspicions reach `m2` by push/pull,
and the theorems cover probes. Three members are what a confirmation by a third party takes. Two names
and three sizes (one of which fills a packet alone, one never fits with another) produce every way
to fill a packet; 9 and 10 are where `retransmitLimit` changes. In `handoff` the pipe holds all
messages, so that the deadlock of `handoff_depth` cannot hide the other questions.
In `suspicion` the six accusers are the one that starts a suspicion and the `k + 1` that confirm it, so the
surplus confirmation happens, and twelve ticks are enough for it to come before and after the timeout it
leads to; the names of the node and of the accusers do not matter. In `lifecycle` two periodic timers
include one that asks for `nodeMutex` repeatedly and the one that notifies `Leave`; ten attempts of
`Join` differ from two in nothing but their number. In `probe` any two of the threads meet, two
probes follow each other (so that what the first leaves behind meets the second), and five pipes are
what two relays and a probe can have open at once, so that `pipe()` never fails; `MaxUnread` keeps
nacks that land in another pipe from piling up.
Crashes (but not the ends that suspicion timeouts bring about) are steps only while another start may follow: a process that never comes back is one that
takes no further steps, which the specification always allows. That is also why deadlock is not
checked for `Membership` and `Handoff`: a run in which everything permitted by the bounds has
happened stops. In `Suspicion`, `Lifecycle` and `Probe` the process may end, and deadlocks between
threads are what the liveness properties are about.

### Fairness

`Membership` has none; all its properties are safety properties. In `Handoff` both threads are
weakly fair: they are ordinary threads, and the mutex is only contended by the two of them. That a handler
returns is assumed there: the deadlocks on `nodeMutex` are left to `Suspicion` and `Lifecycle`.
Arrivals and `ShutDown` are not fair. In `BroadcastQueue` the gossip thread's steps are weakly fair
(the timer re-arms itself for ever), and rounds with at least one peer are strongly fair:
`kRandomNodes` picks at random and may find nobody in a round, but not in every round for ever.
In `Suspicion` time passes (`Tick`), timer threads run, and a handler that waits for a thread goes on
when that thread has ended; no message need arrive. In `Lifecycle` the application's thread is fair
inside a call, the timer threads are, and a listener is fair in leaving `select` on shutdown and in
finishing what it is busy with, as far as it can (`ListenerDone` waits for `nodeMutex` and for the pipe). The
application need not call anything, nothing need arrive, and an attempt of `Join` need not come to an end,
because `ConnectTimeout` does not initialise `tv_sec`. In
`Probe` threads and sleeping timers are fair; acks, nacks and indirect pings need never arrive, and
because of its uninitialised `tv_sec` the first `select` of a probe need not time out; a TCP thread is fair only
if its limit is one that comes; `packetListen` need not return from writing a nack.
In these three modules all fairness is weak: a lock is held across steps only by calls that join a thread,
and the bounds let each of them happen finitely often.

## 4. Proofs

Every invariant, action property and refinement that a passing run checks is also a theorem, for all
constants that meet the named `ASSUME`s of the modules: sets are
what they are taken for, bounds are natural numbers, the table of logarithms starts at 0 and increases, and the
few inequalities the code relies on hold (a message has at least one byte and the overhead is below the limit,
`min_timeout` is not 0, there are descriptors for three pipes of a probe and one of
every relay). The expected confirmations `K` of `Suspicion` are any natural number. `TLC` evaluates them on every run. Each inductive invariant was checked by TLC before it was
proved. The layout is the same everywhere: one lemma per action or group of actions, `...Inductive` with
one case per disjunct of `Next`, `...Init`, `...Always`, and theorems that draw their property from the
invariant.

### Membership

* **`TypeCorrect`** (`MembershipProofs`): `Spec => []TypeOK`. `TypeOK` is not inductive: a message
  `alive` must carry a number above 0, which holds because the constructor's and `UpdateNode`'s
  numbers come from a counter that has been incremented and because an entry `alive` never has
  number 0. `TInv` adds exactly these facts (`Positive`). Each handler has a lemma saying what it
  leaves well typed, one lemma (`HandlerStep`) carries that over to the whole state, and the
  theorem has one step per action.
* **`IncarnationsAreOwned`** (`MembershipProofs`): `Spec => []IncarnationOwned`. `OInv` is `TInv`
  with the property split into counters, views, messages and pending calls. The interesting case is
  `refute`: the number it announces is at most the value the counter takes (`RefuteNumbers`), raced
  load or not.
* `MembershipSafety` first shows that every step ends a process, keeps all views, or runs one of the
  three handlers on well-typed arguments (`StepKinds`, one case per action). On that it builds:
  * **`ViewsOnlyAdvance`**: `Spec => ViewAdvances`, an action property. It needs no more than `TInv`:
    each handler is compared with the entry it replaces.
  * **`TimersMatchSuspicions`**: `Spec => []TimerIffSuspect`. Inductive once it is known that a member
    never suspects itself (`SelfNotSuspect`): otherwise `refute`, which keeps the stored state, would
    leave a suspect entry without the timer that `aliveNode` and `deadNode` erase before it.
  * **`LeftOnlyIfAnnounced`**: `Spec => []LeftIsAnnounced`. `AInv` adds that a pending `Leave` has
    announced its number (`LeaveAnnounced`) and that only a leaving member has itself in `StateLeft`
    (`SelfLeftLeaving`), so that `refute` never raises the number of an entry that is left.
  * **`BeliefsAreGossiped`**: `Spec => []EveryBeliefGossiped`, from the two invariants before it:
    `refute` broadcasts an alive message whatever the stored state is, which is right only because
    that state is neither suspect nor left.
  * **`OwnEntryIsCurrent`**: `Spec => []SelfIncarnationCurrent`. `CInv` says how far the own entry may be
    behind the counter (by the one number a pending `UpdateNode` has added, `EntryBehind`), that the number a
    pending call has loaded is the counter's unless a `refute` came after the load, and then the entry has the
    counter's (`CallCurrent`), and which calls can be pending when (`CallShape`).

* **`MembershipImplementsBeliefs`** (`MembershipRefinement`): `Spec => ImplementsBeliefs`. Initial states
  map to initial states, and `StepMaps` shows for each kind of step of `StepKinds` which abstract action
  it is. `RInv` collects what that needs: the ownership of numbers (a belief is a number the node has
  issued), the announcements (`AInv`), timers that match suspicions (`TimerSafe`), and two new facts,
  that nobody but the member itself stores it as dead (`OthersNotDead`) and that an unknown entry is
  the initial one (`UnknownIsNew`). The case that takes most work is `refute`: the number it stores is
  not below the one it replaces (`RefuteOutbids`), raced load or not.

### Suspicion (`SuspicionProofs`)

* **`FiredTimersAreCurrent`**: `Spec => []FiredIsCurrent`, for any nodes, peers and
  timeouts. The invariant `SInv` says that a thread that has not ended has its suspicion in the map
  (`ThreadHasSuspicion`), that an existing suspicion is in force, from the moment its thread was
  started for (`SuspicionInForce`), and that a timer being restarted exists (`RestartHasSuspicion`).
  It is kept because handlers let go of `nodeMutex` only when the thread they stopped has ended.
* **`SuspicionTypeCorrect`**, **`MinIsRespected`** (`NoExpiryBeforeMin`) and **`ConfirmationsShorten`**
  (`ConfirmationShortens`) rest on `TInv`, which adds times to `SInv`: what a thread has left to sleep and what has
  elapsed together reach the timeout that goes with the confirmations there are (`DueIn`). A confirmation
  lowers that timeout and `Confirm` subtracts what has elapsed, so `DueIn` holds of the restarted thread too;
  a tick moves one unit from one side to the other. `TimeoutProperties` is what the proof needs of
  `remainingSuspicionTime`: the timeout starts at the maximum, does not grow, and is at least the minimum for
  up to `k` confirmations. It is proved for every `k` and every increasing table of logarithms, from three
  lemmas on the integer division (`DivBounds`, `DivMonotone`, `DivCancel`).

### Lifecycle (`LifecycleProofs`)

* **`ShutDownIsSafeToRepeat`** (`ClosedOnce`), **`DescriptorsOutliveTheSignal`** (`ToldToStopFirst`) and
  **`LifecycleTypeCorrect`** need the order in which `ShutDown` does its work (`ShutDownOrder`): the flag is
  set with the signal, `tcpFd` is closed between the test of the flag and the signal and by nobody else.
* **`NoThreadOutlivesTheObject`** (`QuietWhenFreed`) needs `TimersJoined`: `ShutDown` counts the timers it
  has dealt with, and those it has counted have ended. Without the count nothing would be known of the timers
  once the loop is over.

### BroadcastQueue (`BroadcastQueueProofs`)

`QInv` describes `GetBroadcasts` in the middle of its search: the tiers it has been through hold nothing
that still fits (`Searched`), what is in the packet is the latest about its node and no longer in `tq`
(`OutOfTheQueue`), `transmits` is the number of transmissions (`TransmitsCounts`), and the retransmit limit
only grows between the moments at which a message is queued, a packet is begun and a message is put back
(`LimitsGrow`, from the lemma that the number of decimal digits is monotonic).

* **`OnlyTheLatestIsGossiped`** (`LatestOnly`), **`PacketsFit`** (`PacketFits`, with one overhead per
  packet) and **`QueueTypeCorrect`**: the
  last includes that the search has a lowest and a highest tier whenever it looks for one.
* **`NeverTransmittedTooOften`** (`RetransmitBounded`) and **`TransmittedOftenEnough`** (`RetransmittedEnough`):
  both sides of the retransmit limit, with a cluster that grows at any moment.
* **`WaiterIsNotified`** (`NotifiedWhenGone`) and **`PacketsAreMaximal`** (`PacketMaximal`), two action
  properties; the second is where `Searched` is needed.

### Handoff (`HandoffProofs`)

* **`NoLostWakeup`**: `Spec => []WakeupPerMessage`, inductive together with `TypeOK`
  (**`HandoffTypeCorrect`**); popping a stack needs `FrontProperties`.

### Probe (`ProbeProofs`)

`PInv` has three layers, since what can be said depends on what has happened:

* `Shapes` always holds: types, which descriptors the probe has at which point, that every pipe of a probe has
  the number the probe knows it by (`OwnerShape`), that a number drawn by one thread is above all it drew
  before (`SeqOrder`), and that no more cancel pipes are open than relays have come in (`CancelCount`). From
  the last, by counting, `pipe()` always finds a free number (`FreeDescriptors`).
* `Sound` holds until a descriptor is misused: a cancel pipe has its nack thread, a relay's handler has its
  cancel pipe, a handler that was taken out of the map is not in it again, a probe's handler is that of the probe in
  progress or of one that TCP saved.
* `Clean` holds until one of the causes of misuse occurs: then nothing is misused, every descriptor that a
  handler, a TCP thread or a nack thread knows is open and is the pipe it is taken for.

From these follow **`ProbeTypeCorrect`**, **`MisuseOnlyFromItsCauses`** (`MisuseHasCause`),
**`HandlersDoNotPileUp`** (`HandlersAccountedFor`) and **`AllPipesAreClosed`** (`DescriptorsReturned`). `Clean`
admits collisions of sequence numbers: that they do no harm to descriptors is part of what is proved. The
proof also showed that `HandlersAccountedFor` does not need to except collisions, which an earlier
form of it did.

### What stays with TLC

* Liveness, which this prover cannot do: `EverythingHandled`, `ThreadsExit`, `Drains`, `SuspicionsEnd`,
  `StopAsleepReturns`, `ShutDownReturns`, `ListenersStop`, `LeaveReturns`, `ProbeEnds`, `IndirectAnswered`.
* The five violated properties, which are counterexamples.

## 5. What is not modelled

* Encoding, sockets, configuration, logging, the generated protobuf code, the demo and the tests.
* `broadcastQueue::Prune` and `clear`, which nothing calls; wrap-around of `idGen` and of
  `incarnation` at 2^32.
* The detached thread of each TCP connection (`handleConn`): it keeps no state, and what it does to the
  views is in `Membership`. `pushPullReq` is counted and never read. User messages are only logged.
* `probeIndex` and the shuffling of `nodes`: which node is probed next is left open.
* The read ends of pipes, each used by one thread only; descriptors of sockets, which also take part in
  the reuse of numbers; the dangling references of the TCP thread.
* How full the nack pipe is: the model only leaves open whether a write to it returns.
* What memory corruption by a data race does beyond ending the process.
* `DeadNodeReclaimTime` and the intervals of the periodic timers: both outcomes of a comparison with
  the clock are allowed, and a periodic task runs at any time.

## 6. Plan

Done: `Membership` with `Beliefs`, `BroadcastQueue`, `Handoff`, `Suspicion`, `Lifecycle` and `Probe`, and a theorem
for every safety property of their runs. Possible next steps:

1. The safety half of some liveness properties, as invariants with proofs: that a thread of `Handoff` can
   be stuck only on a full pipe, and that `ShutDown` can be stuck only on a timer that waits for `nodeMutex`.
2. An abstract specification of the broadcast queue (at most one pending message per node) and the proof that
   `BroadcastQueue` implements it.
